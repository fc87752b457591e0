----------------------------- MODULE LiveDisplay -----------------------------
(***************************************************************************)
(* The live display of internal/ui: a block of rows at the bottom of the   *)
(* terminal - the calls made so far, a gap, the tasks - that is drawn over *)
(* itself by everyone who changes it: the command's own goroutine, one     *)
(* goroutine per instance, and the ticker of the task list.  Lines printed *)
(* while it is live go above it.                                           *)
(*                                                                         *)
(* The commands are "create --estimate-cost" (no workers; lines, and one   *)
(* newline that bypasses the display) and start (workers, no lines), the   *)
(* one followed by the other under --start.  Each goroutine makes one call *)
(* and has one task (the bound); the estimate makes two.                   *)
(*                                                                         *)
(* A drawing is one write per row under writeMu and the display's own      *)
(* mutex, which are taken together here; the moves up before it are one    *)
(* step.  The other locked sections write from one goroutine and are       *)
(* atomic.  The terminal is taken to be tall enough for the block and wide *)
(* enough for every line: one that wraps takes two rows, and the moves up, *)
(* which count lines, then end below the first row of the block.  Spinner  *)
(* frames, styles and wording are left out.                                *)
(***************************************************************************)
EXTENDS Integers, Sequences, FiniteSets

CONSTANTS
    NumWorkers,    \* the instances of the cluster
    MaxLines       \* bound: lines printed by one run

ASSUME LiveDisplayAssumption == NumWorkers \in Nat /\ MaxLines \in Nat

Main   == 0
Worker == 1 .. NumWorkers
Ticker == NumWorkers + 1
Actor  == {Main, Ticker} \cup Worker
Free   == -1

VARIABLES
    stage,         \* the command that shows the display
    pc,            \* where each goroutine is
    task,          \* the task the command itself is at
    marked,        \* TaskList.items: the tasks marked done
    frame,         \* the rows the ticker has made of them
    done,          \* TaskList.done: open, closed, or closed and seen
    writer,        \* UI.writeMu
    split,         \* LiveSplit
    todo,          \* rows each goroutine has still to draw
    screen, cursor,\* terminal: the rows, and the one the cursor is in
    printed,       \* history: the lines printed so far
    newlines       \* history: newlines written in this stage

vars == <<stage, pc, task, marked, frame, done, writer, split, todo,
          screen, cursor, printed, newlines>>

Stages == {"estimate", "start", "over"}

\* Tasks: two for an estimate; the network and the instances for a start.
Tasks(s) == IF s = "estimate" THEN 0 .. 1 ELSE {Main} \cup Worker

Row == [kind : {"line", "call", "gap", "task", "done", "empty", "mixed"},
        of : Nat, at : Stages]

Line(n)  == [kind |-> "line", of |-> n, at |-> "over"]
CallRow(t) == [kind |-> "call", of |-> t, at |-> stage]
Gap      == [kind |-> "gap", of |-> 0, at |-> stage]
Empty    == [kind |-> "empty", of |-> 0, at |-> "over"]
Mixed    == [kind |-> "mixed", of |-> 0, at |-> "over"]

TypeOK ==
    /\ stage \in Stages
    /\ pc \in [Actor -> {"off", "open", "call", "want", "draw", "mark", "begin",
                         "lines", "stop", "stopping", "close", "closed",
                         "wait", "set"}]
    /\ task \in 0 .. 1
    /\ marked \subseteq Tasks("estimate") \cup Tasks("start")
    /\ frame \in Seq(Row)
    /\ done \in {"open", "closed", "seen"} /\ newlines \in 0 .. 1
    /\ writer \in Actor \cup {Free}
    /\ split \in [calls : Seq(Row), tasks : Seq(Row), height : Nat,
                  mode : {"off", "live", "drawn"}]
    /\ todo \in [Actor -> Seq(Row)]
    /\ screen \in Seq(Row) /\ cursor \in Nat \ {0}
    /\ printed \in 0 .. MaxLines

\* Not active; active; and active and rendered.
NoSplit == [calls |-> <<>>, tasks |-> <<>>, height |-> 0, mode |-> "off"]

Init ==
    /\ stage \in {"estimate", "start"}
    /\ pc = [a \in Actor |-> IF a = Main THEN "open" ELSE "off"]
    /\ task = 0
    /\ marked = {}
    /\ frame = <<>>
    /\ done = "open" /\ newlines = 0
    /\ writer = Free
    /\ split = NoSplit
    /\ todo = [a \in Actor |-> <<>>]
    /\ screen = <<>> /\ cursor = 1
    /\ printed = 0

-----------------------------------------------------------------------------
terminal == <<screen, cursor, printed, newlines>>
tasks    == <<task, marked, frame, done>>

Goto(a, from, to) ==
    /\ pc[a] = from
    /\ pc' = [pc EXCEPT ![a] = to]

\* combinedLinesLocked
Block(s) ==
    s.calls
    \o (IF s.calls # <<>> /\ s.tasks # <<>> THEN <<Gap>> ELSE <<>>)
    \o s.tasks

\* The terminal with a row overwritten; rows never written are empty.
Put(rows, k, row) ==
    [n \in 1 .. (IF k > Len(rows) THEN k ELSE Len(rows)) |->
        IF n = k THEN row ELSE IF n <= Len(rows) THEN rows[n] ELSE Empty]

\* TaskList.render: a task's own message once it has one.
Rows(ms, s) ==
    [n \in 1 .. Cardinality(Tasks(s)) |->
        [kind |-> IF n - 1 \in ms THEN "done" ELSE "task", of |-> n - 1, at |-> s]]

(***************************************************************************)
(* LiveSplit.render                                                        *)
(***************************************************************************)
\* Mutant: writeMu is not taken.
BeginDrawUnlocked(a) ==
    /\ Goto(a, "want", "draw")
    /\ writer' = a
    /\ todo' = [todo EXCEPT ![a] = Block(split)]
    /\ cursor' = IF split.mode = "drawn" THEN cursor - (split.height - 1) ELSE cursor
    /\ UNCHANGED <<stage, tasks, split, screen, printed, newlines>>

\* Mutant: the cursor goes up by the height the block is about to have.
BeginDrawAtNewHeight(a) ==
    /\ Goto(a, "want", "draw")
    /\ writer = Free /\ writer' = a
    /\ todo' = [todo EXCEPT ![a] = Block(split)]
    /\ cursor' = IF split.mode = "drawn" THEN cursor - (Len(Block(split)) - 1) ELSE cursor
    /\ UNCHANGED <<stage, tasks, split, screen, printed, newlines>>

BeginDraw(a) ==
    /\ Goto(a, "want", "draw")
    /\ writer = Free /\ writer' = a
    /\ todo' = [todo EXCEPT ![a] = Block(split)]
    /\ cursor' = IF split.mode = "drawn" THEN cursor - (split.height - 1) ELSE cursor
    /\ UNCHANGED <<stage, tasks, split, screen, printed, newlines>>

DrawRow(a) ==
    /\ pc[a] = "draw" /\ todo[a] # <<>>
    /\ screen' = Put(screen, cursor, Head(todo[a]))
    /\ cursor' = IF Len(todo[a]) > 1 THEN cursor + 1 ELSE cursor
    /\ todo' = [todo EXCEPT ![a] = Tail(@)]
    /\ UNCHANGED <<stage, pc, tasks, writer, split, printed, newlines>>

\* Mutant: writeMu is kept.
EndDrawLocked(a) ==
    /\ todo[a] = <<>>
    /\ Goto(a, "draw", IF a # Ticker THEN "mark"
                       ELSE IF done = "seen" THEN "off" ELSE "wait")
    /\ split' = [split EXCEPT !.height = Len(Block(split)), !.mode = "drawn"]
    /\ UNCHANGED <<stage, tasks, writer, todo, terminal>>

\* The ticker waits for its next tick, or has ended.
EndDraw(a) ==
    /\ todo[a] = <<>>
    /\ Goto(a, "draw", IF a # Ticker THEN "mark"
                       ELSE IF done = "seen" THEN "off" ELSE "wait")
    /\ split' = [split EXCEPT !.height = Len(Block(split)), !.mode = "drawn"]
    /\ writer' = Free
    /\ UNCHANGED <<stage, tasks, todo, terminal>>

(***************************************************************************)
(* A call, and the task it belongs to: by the command or by a worker       *)
(***************************************************************************)
TaskOf(a) == IF a = Main THEN task ELSE a

\* UI.APICall, LiveSplit.AppendAPI; a drawing holds the mutex of the list.
AppendAPI(a) ==
    /\ Goto(a, "call", "want")
    /\ writer = Free
    /\ split' = [split EXCEPT !.calls = Append(@, CallRow(TaskOf(a)))]
    /\ UNCHANGED <<stage, tasks, writer, todo, terminal>>

\* What the goroutine does once its call has gone well.
After(a) ==
    IF a \in Worker THEN "off"
    ELSE IF stage = "start" THEN "begin"
    ELSE IF task = 0 THEN "call" ELSE "lines"

MarkDone(a) ==
    /\ Goto(a, "mark", After(a))
    /\ marked' = marked \cup {TaskOf(a)}
    /\ task' = IF After(a) = "call" THEN 1 ELSE task
    /\ UNCHANGED <<stage, frame, done, writer, split, todo, terminal>>

\* The prices are cached: the second task of the estimate makes no call.
Cached ==
    /\ stage = "estimate" /\ task = 1
    /\ Goto(Main, "call", "mark")
    /\ UNCHANGED <<stage, tasks, writer, split, todo, terminal>>

\* The call fails: the command goes on to take the display down.  A failed
\* estimate marks its task with a warning, or does not.
CallFails(a) ==
    /\ Goto(a, "mark", IF a = Main THEN "stop" ELSE "off")
    /\ \/ UNCHANGED marked
       \/ stage = "estimate" /\ marked' = marked \cup {task}
    /\ UNCHANGED <<stage, task, frame, done, writer, split, todo, terminal>>

(***************************************************************************)
(* The ticker: TaskList.loop                                               *)
(***************************************************************************)
Tick ==
    /\ Goto(Ticker, "wait", "set")
    /\ frame' = Rows(marked, stage)
    /\ UNCHANGED <<stage, task, marked, done, writer, split, todo, terminal>>

\* Mutant: the loop ends without a last drawing.
LastTickUndrawn ==
    /\ done = "closed" /\ done' = "seen"
    /\ Goto(Ticker, "wait", "off")
    /\ UNCHANGED <<stage, task, marked, frame, writer, split, todo, terminal>>

LastTick ==
    /\ done = "closed" /\ done' = "seen"
    /\ Goto(Ticker, "wait", "set")
    /\ frame' = Rows(marked, stage)
    /\ UNCHANGED <<stage, task, marked, writer, split, todo, terminal>>

SetTaskLines ==
    /\ Goto(Ticker, "set", "want")
    /\ writer = Free
    /\ split' = [split EXCEPT !.tasks = frame]
    /\ frame' = <<>>
    /\ UNCHANGED <<stage, task, marked, done, writer, todo, terminal>>

(***************************************************************************)
(* The command                                                             *)
(***************************************************************************)

\* StartLiveSplit, TaskList
Open ==
    /\ pc[Main] = "open"
    /\ pc' = [pc EXCEPT ![Main] = "call", ![Ticker] = "wait"]
    /\ split' = [NoSplit EXCEPT !.mode = "live"]
    /\ marked' = {} /\ task' = 0 /\ done' = "open"
    /\ newlines' = 0
    /\ UNCHANGED <<stage, frame, writer, todo, screen, cursor, printed>>

WorkersBegin ==
    /\ pc[Main] = "begin"
    /\ pc' = [a \in Actor |-> IF a \in Worker THEN "call"
                              ELSE IF a = Main THEN "stop" ELSE pc[a]]
    /\ UNCHANGED <<stage, tasks, writer, split, todo, terminal>>

\* Mutant: the line is written where the cursor is.
WriteLineUncleared ==
    /\ pc[Main] = "lines" /\ printed < MaxLines
    /\ writer = Free
    /\ printed' = printed + 1
    /\ screen' = Put(screen, cursor, Mixed)
    /\ cursor' = cursor + 1
    /\ UNCHANGED <<stage, pc, tasks, writer, split, todo, newlines>>

\* UI.line, LiveSplit.WriteLineLocked: the block is cleared, and drawn again
\* below the line.
WriteLine ==
    /\ pc[Main] = "lines" /\ printed < MaxLines
    /\ writer = Free
    /\ printed' = printed + 1
    /\ LET top == IF split.mode = "drawn" THEN cursor - (split.height - 1) ELSE cursor
       IN  screen' = SubSeq(screen, 1, top - 1) \o <<Line(printed + 1)>> \o Block(split)
    /\ cursor' = Len(screen')
    /\ split' = [split EXCEPT !.height = Len(Block(split)), !.mode = "drawn"]
    /\ UNCHANGED <<stage, pc, tasks, writer, todo, newlines>>

\* The empty line that ends the estimate takes no lock.
WriteNewline ==
    /\ Goto(Main, "lines", "stop")
    /\ cursor' = cursor + 1
    /\ newlines' = newlines + 1
    /\ UNCHANGED <<stage, tasks, writer, split, todo, screen, printed>>

\* TaskList.Stop, once the workers have been joined.
StopTasks ==
    /\ Goto(Main, "stop", "stopping")
    /\ \A w \in Worker : pc[w] = "off"
    /\ done' = "closed"
    /\ UNCHANGED <<stage, task, marked, frame, writer, split, todo, terminal>>

TasksStopped ==
    /\ Goto(Main, "stopping", "close")
    /\ pc[Ticker] = "off"
    /\ UNCHANGED <<stage, tasks, writer, split, todo, terminal>>

\* LiveSplit.Stop: what is drawn stays.
Close ==
    /\ Goto(Main, "close", "closed")
    /\ writer = Free
    /\ cursor' = IF split.mode = "drawn" THEN cursor + 1 ELSE cursor
    /\ split' = [split EXCEPT !.height = 0, !.mode = "off"]
    /\ UNCHANGED <<stage, tasks, writer, todo, screen, printed, newlines>>

\* UI.line with no display; a row that is not empty gets mixed up.
PrintLine ==
    /\ pc[Main] = "closed" /\ printed < MaxLines
    /\ writer = Free
    /\ printed' = printed + 1
    /\ screen' = Put(screen, cursor, IF cursor > Len(screen) THEN Line(printed + 1) ELSE Mixed)
    /\ cursor' = cursor + 1
    /\ UNCHANGED <<stage, pc, tasks, writer, split, todo, newlines>>

\* The command is over, or its estimate is followed by start.
NextStage ==
    \/ /\ stage = "estimate" /\ newlines = 1 /\ stage' = "start"
       /\ Goto(Main, "closed", "open")
       /\ UNCHANGED <<tasks, writer, split, todo, terminal>>
    \/ /\ stage' = "over"
       /\ Goto(Main, "closed", "off")
       /\ UNCHANGED <<tasks, writer, split, todo, terminal>>

-----------------------------------------------------------------------------
MainStep ==
    \/ Open \/ Cached \/ WorkersBegin \/ WriteLine \/ WriteNewline \/ StopTasks
    \/ TasksStopped \/ PrintLine \/ NextStage

\* The steps that take a mutex, and the others.
LockStep(a) ==
    \/ BeginDraw(a)
    \/ a = Ticker /\ SetTaskLines
    \/ a # Ticker /\ AppendAPI(a)
    \/ a = Main /\ Close

FreeStep(a) ==
    \/ DrawRow(a) \/ EndDraw(a)
    \/ a = Ticker /\ Tick
    \/ a # Ticker /\ (MarkDone(a) \/ CallFails(a))
    \/ a = Main /\ MainStep

Next == LastTick \/ \E a \in Actor : LockStep(a) \/ FreeStep(a)

Spec == Init /\ [][Next]_vars

\* Goroutines run, a mutex is handed to every goroutine that waits for it,
\* and select chooses among the channels that are ready at random.
Fairness ==
    /\ SF_vars(LastTick)
    /\ \A a \in Actor : WF_vars(FreeStep(a)) /\ SF_vars(LockStep(a))

FairSpec == Spec /\ Fairness

-----------------------------------------------------------------------------
(***************************************************************************)
(* Properties                                                              *)
(***************************************************************************)

\* No drawing ever writes over a printed line: the lines on the terminal
\* are those that were printed, all of them and in their order.
LinesStay ==
    LET lines == {i \in DOMAIN screen : screen[i].kind = "line"}
    IN  /\ \A i \in DOMAIN screen : screen[i].kind # "mixed"
        /\ {screen[i] : i \in lines} = {Line(n) : n \in 1 .. printed}
        /\ \A i, j \in lines : i < j => screen[i].of < screen[j].of

\* Between two drawings the block is on the terminal once, whole and last,
\* whoever drew it and however it grew: no row of it is left behind.
NoRowLeftBehind ==
    writer = Free /\ split.mode = "drawn" /\ newlines = 0 =>
        /\ cursor = Len(screen)
        /\ \A i \in DOMAIN screen :
             screen[i].at = stage <=> i > cursor - split.height

\* What stays on the terminal when the display is taken down names every
\* call and shows every task that was marked done: the last frame is the
\* latest one, however the marks fell between the ticks.
LastFrameIsLatest ==
    pc[Main] = "closed" =>
        LET final == Block([split EXCEPT !.tasks = Rows(marked, stage)])
        IN  \E k \in 0 .. Len(screen) - Len(final) :
              /\ \A n \in DOMAIN final : screen[k + n] = final[n]
              /\ \A i \in DOMAIN screen :
                   i > k + Len(final) => screen[i].at # stage

\* A display that is shown is taken down again: nobody is left waiting for
\* the mutex, for a worker that draws, or for the ticker to end.
DisplayStops == pc[Main] = "call" ~> pc[Main] = "closed"
==============================================================================
