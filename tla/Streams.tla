------------------------------ MODULE Streams -------------------------------
(***************************************************************************)
(* node:stream on one thread: a Readable, the Writables it may be piped    *)
(* to, and the loop source that delivers its end and its parked reads.     *)
(* Every method is native code that calls the program back (a listener, a  *)
(* hook, a write's callback) in the middle of what it does, and the        *)
(* program may call any other method there.                                *)
(*                                                                         *)
(* stack holds what is running, innermost last: `code', a piece of the     *)
(* program, or a method with what is left of it:                           *)
(*   push      push, its chunk not yet placed                              *)
(*   resume    resume                                                      *)
(*   drainAll  the loop of drain_all                                       *)
(*   deliver   deliver_data: the event, then a write to each pipe          *)
(*   unpipe    unpipe, with the pipes still to look at                     *)
(*   pump      the loop source: the end that is due, then a parked read    *)
(*   ended     finish_end_now: the event, then the end of each pipe        *)
(*   next      the async iterator's next                                   *)
(*   write, drainQueue, finalize, end, maybeFinish, finish                 *)
(*             the functions of writable.rs with these names               *)
(* The other variables:                                                    *)
(*   readable, writable   the data properties of the objects               *)
(*   pending   the stack PENDING that stands for bound callbacks           *)
(*   ending    whether the stream is in ENDING                             *)
(*   held      completions a sink kept past the return of its _write       *)
(*   fuel, uses, listens   what this program does and what it listens to   *)
(* and, only to state properties:                                          *)
(*   made      how many chunks the program has made                        *)
(*   accepted  those push took; got: those a consumer was handed           *)
(*   given     the answer of each next()                                   *)
(*   offered, arrived   for each Writable, what write took and what _write *)
(*             was handed                                                  *)
(*   unfed     the Writables not piped to all along                        *)
(***************************************************************************)
EXTENDS Naturals, FiniteSets, SequencesExt

CONSTANTS Dsts,        \* the Writables
          Sizes,       \* how large a chunk may be (size_of)
          HighWater,   \* their highWaterMark
          Worlds       \* the programs: what one uses, listens to, its fuel

\* A chunk may be empty: size_of answers 0 for one.
ASSUME SizesAssumption == Sizes \subseteq Nat /\ HighWater \in Nat

VARIABLES readable, writable, pending, ending, held, stack, fuel, uses, listens,
          made, accepted, got, given, offered, arrived, unfed

program == <<fuel, uses, listens>>
reads == <<made, accepted, got, given>>
writes == <<offered, arrived, unfed>>
vars == <<readable, writable, pending, ending, held, stack, program, reads, writes>>

Top == stack[Len(stack)]
Caller == stack[Len(stack) - 1]
Return == Front(stack)
With(frame) == Append(Front(stack), frame)

Code(from) == [at |-> "code", from |-> from, owes |-> from \in {"write", "final"}]
\* What a call of the program's listeners or hooks adds to the stack.
Calls(event) == IF event \in listens THEN <<Code(event)>> ELSE <<>>

DrainAll == [at |-> "drainAll"]
Resume == [at |-> "resume"]
Deliver(c) == [at |-> "deliver", stage |-> "data", chunk |-> c, left |-> <<>>, ok |-> TRUE]
Pump == [at |-> "pump", stage |-> "end"]
Write(d, c, cb) == [at |-> "write", dst |-> d, chunk |-> c, cb |-> cb]
DrainQueue(d, ok) == [at |-> "drainQueue", dst |-> d, ok |-> ok]
End(d) == [at |-> "end", dst |-> d]
MaybeFinish(d) == [at |-> "maybeFinish", dst |-> d]

Init ==
    /\ readable = [flowing |-> "none", buf |-> <<>>, length |-> 0, ended |-> FALSE,
                   readableEnded |-> FALSE, consumed |-> FALSE, pipes |-> <<>>,
                   waiter |-> 0, destroyed |-> FALSE]
    /\ writable = [d \in Dsts |-> [queue |-> <<>>, length |-> 0, corked |-> 0,
                   ended |-> FALSE, finished |-> FALSE, needDrain |-> FALSE,
                   callbacks |-> 0, finalCalled |-> FALSE]]
    /\ pending = <<>> /\ ending = FALSE /\ held = 0
    /\ stack = <<[at |-> "host"], Code("entry")>>
    /\ made = 0 /\ accepted = {} /\ got = <<>> /\ given = <<>>
    /\ offered = [d \in Dsts |-> <<>>] /\ arrived = [d \in Dsts |-> <<>>] /\ unfed = Dsts
    /\ \E w \in Worlds : uses = w.uses /\ listens = w.listens /\ fuel = w.fuel

OnlyReadable == UNCHANGED <<writable, pending, held, writes>>
OnlyWritable == UNCHANGED <<readable, ending, reads, program>>

-----------------------------------------------------------------------------
(* What readable.rs and flowing.rs share.                                  *)

Flows == readable.flowing = "on"
Buffered(c) == [readable EXCEPT !.buf = Append(@, c), !.length = @ + c.size]
\* A slip: the length counts chunks.
ShiftedOne(r) == [r EXCEPT !.buf = Tail(@), !.length = IF @ > 0 THEN @ - 1 ELSE 0]
\* shift_chunk
Shifted(r) == [r EXCEPT !.buf = Tail(@),
                        !.length = IF @ > Head(r.buf).size THEN @ - Head(r.buf).size ELSE 0]
\* schedule_end, where the code calls it under a condition.
ScheduleEnd(when) == ending' = (ending \/ (when /\ ~readable.readableEnded))
\* A slip: the end is for listeners only.
EndIsDueFlowing ==
    /\ ~readable.destroyed /\ ~readable.readableEnded /\ readable.ended
    /\ readable.length = 0 /\ Flows
EndIsDue ==
    /\ ~readable.destroyed /\ ~readable.readableEnded /\ readable.ended
    /\ readable.length = 0 /\ readable.consumed
\* A slip: answered and not forgotten.
AnswerKeeping(r, what) == readable' = r /\ given' = [given EXCEPT ![readable.waiter] = what]
\* A parked next() is answered and forgotten.
Answer(r, what) ==
    /\ readable' = [r EXCEPT !.waiter = 0]
    /\ given' = [given EXCEPT ![readable.waiter] = what]
EndWaiter(r) ==
    IF readable.waiter # 0 THEN Answer(r, "done") ELSE readable' = r /\ UNCHANGED given

-----------------------------------------------------------------------------
(* What the program calls.                                                 *)

Does(op) ==
    /\ Top.at = "code" /\ op \in uses
    /\ fuel > 0 /\ fuel' = fuel - 1 /\ UNCHANGED <<uses, listens>>
Mine == uses \cap Dsts
NewChunk(size) == [id |-> made + 1, size |-> size]

\* push(chunk).  A stream that flows empties its backlog first.
Push ==
    /\ Does("push") /\ made' = made + 1
    /\ \E size \in Sizes : LET c == NewChunk(size) IN
        IF readable.ended THEN UNCHANGED <<readable, stack, accepted, got, given>>
        ELSE /\ accepted' = accepted \cup {c.id}
             /\ IF readable.waiter # 0
                THEN Answer(readable, "chunk") /\ got' = Append(got, c.id) /\ UNCHANGED stack
                ELSE /\ stack' = stack \o <<[at |-> "push", chunk |-> c]>> \o
                                 (IF Flows /\ readable.length > 0 THEN <<DrainAll>> ELSE <<>>)
                     /\ UNCHANGED <<readable, got, given>>
    /\ UNCHANGED ending /\ OnlyReadable
\* push(null)
PushNull ==
    /\ Does("null")
    /\ EndWaiter([readable EXCEPT !.ended = TRUE])
    /\ ScheduleEnd(readable.length = 0)
    /\ UNCHANGED <<stack, made, accepted, got>> /\ OnlyReadable
Read ==
    /\ Does("read")
    /\ IF readable.buf = <<>>
       THEN /\ readable' = [readable EXCEPT !.consumed = TRUE]
            /\ ScheduleEnd(readable.ended) /\ UNCHANGED got
       ELSE /\ readable' = Shifted([readable EXCEPT !.consumed = TRUE])
            /\ ScheduleEnd(readable'.length = 0 /\ readable.ended)
            /\ got' = Append(got, Head(readable.buf).id)
    /\ UNCHANGED <<stack, made, accepted, given>> /\ OnlyReadable
\* resume(), and attaching a listener for data.
Resumes ==
    /\ Does("resume") /\ stack' = Append(stack, Resume)
    /\ UNCHANGED <<readable, ending, reads>> /\ OnlyReadable
Paused == [readable EXCEPT !.flowing = IF Flows THEN "off" ELSE @]
PauseCalls == IF Flows THEN Calls("pause") ELSE <<>>
Pause ==
    /\ Does("pause") /\ readable' = Paused /\ stack' = stack \o PauseCalls
    /\ UNCHANGED <<ending, reads>> /\ OnlyReadable
Pipe ==
    /\ Does("pipe")
    /\ \E d \in Mine, ends \in BOOLEAN :
        /\ readable' = [readable EXCEPT !.pipes = Append(@, [dst |-> d, ends |-> ends])]
        /\ unfed' = IF got = <<>> /\ \A i \in DOMAIN stack : stack[i].at # "unpipe"
                    THEN unfed \ {d} ELSE unfed
    /\ stack' = stack \o <<Resume>> \o Calls("pipe")
    /\ UNCHANGED <<ending, reads, writable, pending, held, offered, arrived>>
Unpipe ==
    /\ Does("unpipe")
    /\ \E D \in {{d} : d \in Mine} \cup {Dsts} :
        /\ stack' = Append(stack, [at |-> "unpipe", which |-> D, left |-> readable.pipes,
                                   kept |-> <<>>])
        /\ unfed' = unfed \cup D
    /\ UNCHANGED <<readable, ending, reads, writable, pending, held, offered, arrived>>
Destroy ==
    /\ Does("destroy")
    /\ readable' = [readable EXCEPT !.destroyed = TRUE]
    /\ stack' = IF readable.destroyed THEN stack ELSE stack \o Calls("close")
    /\ UNCHANGED <<ending, reads>> /\ OnlyReadable

\* next() of the iterator: whoever finds a read parked ends the iteration.
Next_ ==
    /\ Does("next")
    \* Without "race" the program awaits each call before the next.
    /\ "race" \in uses \/ \A i \in DOMAIN given : given[i] \notin {"asked", "pending"}
    /\ IF readable.waiter # 0
       THEN /\ readable' = [readable EXCEPT !.waiter = 0]
            /\ given' = Append(given, "done") /\ UNCHANGED stack
       ELSE /\ readable' = [readable EXCEPT !.consumed = TRUE]
            /\ given' = Append(given, "asked")
            /\ stack' = stack \o <<[at |-> "next", stage |-> "pumped",
                                    call |-> Len(given) + 1], Pump>>
    /\ UNCHANGED <<ending, made, accepted, got>> /\ OnlyReadable
IteratorReturn ==
    /\ Does("return")
    /\ EndWaiter([readable EXCEPT !.destroyed = TRUE])
    /\ stack' = IF readable.destroyed THEN stack ELSE stack \o Calls("close")
    /\ UNCHANGED <<ending, made, accepted, got>> /\ OnlyReadable

\* write(chunk, callback?)
Writes ==
    /\ Does("write") /\ made' = made + 1
    /\ \E d \in Mine, size \in Sizes, cb \in BOOLEAN :
        /\ cb => "written" \in listens
        /\ stack' = Append(stack, Write(d, NewChunk(size), cb))
    /\ UNCHANGED <<readable, writable, pending, ending, held, accepted, got, given, writes>>
\* end(chunk?)
Ends ==
    /\ Does("end")
    /\ \E d \in Mine, size \in Sizes, some \in BOOLEAN :
        /\ stack' = stack \o <<End(d)>> \o
                    (IF some THEN <<Write(d, NewChunk(size), FALSE)>> ELSE <<>>)
        /\ made' = IF some THEN made + 1 ELSE made
    /\ UNCHANGED <<readable, writable, pending, ending, held, accepted, got, given, writes>>
Cork ==
    /\ Does("cork")
    /\ \E d \in Mine : writable' = [writable EXCEPT ![d].corked = @ + 1]
    /\ UNCHANGED <<readable, pending, ending, held, stack, reads, writes>>
Uncork ==
    /\ Does("cork")
    /\ \E d \in Mine : LET depth == writable[d].corked IN
        /\ writable' = [writable EXCEPT ![d].corked = IF depth > 0 THEN depth - 1 ELSE 0]
        /\ stack' = IF depth <= 1 THEN Append(stack, DrainQueue(d, TRUE)) ELSE stack
    /\ UNCHANGED <<readable, pending, ending, held, reads, writes>>

\* The sink calls the callback it was given, now or later: write_done pops the
\* last entry of PENDING, whichever write the callback was meant for.
WriteDone ==
    LET e == Last(pending) IN
    /\ pending' = Front(pending)
    /\ stack' = Append(With([Top EXCEPT !.owes = FALSE]),
                       IF e.final THEN [at |-> "finish", dst |-> e.dst]
                       ELSE [at |-> "finalize", stage |-> "shrink", dst |-> e.dst,
                             size |-> e.size, remaining |-> 0])
Completes ==
    /\ Top.at = "code" /\ Top.owes /\ WriteDone
    /\ UNCHANGED <<writable, held, program, writes>> /\ OnlyWritable
CompletesLater ==
    /\ Top.at = "code" /\ ~Top.owes /\ held > 0 /\ held' = held - 1 /\ WriteDone
    /\ UNCHANGED <<writable, program, writes>> /\ OnlyWritable
CodeEnds ==
    /\ Top.at = "code" /\ (Top.owes => "defer" \in uses)
    /\ held' = IF Top.owes THEN held + 1 ELSE held
    /\ stack' = Return
    /\ UNCHANGED <<writable, pending, writes>> /\ OnlyWritable

-----------------------------------------------------------------------------
(* readable.rs                                                             *)

\* The chunk goes straight to the consumers of a stream that flows and holds
\* none, and into the buffer otherwise.
PlacePushed ==
    /\ Top.at = "push"
    /\ IF Flows /\ readable.length = 0
       THEN stack' = With(Deliver(Top.chunk)) /\ UNCHANGED readable
       ELSE /\ readable' = Buffered(Top.chunk)
            /\ stack' = Return \o (IF readable.buf = <<>> THEN Calls("readable") ELSE <<>>)
    /\ UNCHANGED <<ending, reads, program>> /\ OnlyReadable

ResumeStarts ==
    /\ Top.at = "resume"
    /\ readable' = [readable EXCEPT !.consumed = TRUE, !.flowing = "on"]
    /\ stack' = With(DrainAll) \o (IF Flows THEN <<>> ELSE Calls("resume"))
    /\ UNCHANGED <<ending, reads, program>> /\ OnlyReadable

DrainOne ==
    /\ Top.at = "drainAll" /\ Flows /\ readable.buf # <<>>
    /\ readable' = Shifted(readable)
    /\ stack' = Append(stack, Deliver(Head(readable.buf)))
    /\ UNCHANGED <<ending, reads, program>> /\ OnlyReadable
Drained ==
    /\ Top.at = "drainAll" /\ (Flows => readable.buf = <<>>)
    /\ ScheduleEnd(readable.length = 0 /\ readable.ended)
    /\ stack' = Return
    /\ UNCHANGED <<readable, reads, program>> /\ OnlyReadable

Delivering(stage) == Top.at = "deliver" /\ Top.stage = stage
DeliverData ==
    /\ Delivering("data") /\ got' = Append(got, Top.chunk.id)
    /\ stack' = With([Top EXCEPT !.stage = "pipes"]) \o Calls("data")
    /\ UNCHANGED <<readable, ending, made, accepted, given, program>> /\ OnlyReadable
DeliverLooksUpPipes ==
    /\ Delivering("pipes")
    /\ stack' = With([Top EXCEPT !.stage = "write",
                                 !.left = [i \in DOMAIN readable.pipes |-> readable.pipes[i].dst]])
    /\ UNCHANGED <<readable, ending, reads, program>> /\ OnlyReadable
DeliverWrites ==
    /\ Delivering("write") /\ Top.ok /\ Top.left # <<>>
    /\ stack' = Append(With([Top EXCEPT !.left = Tail(@)]),
                       Write(Head(Top.left), Top.chunk, FALSE))
    /\ UNCHANGED <<readable, ending, reads, program>> /\ OnlyReadable
\* A slip: a pipe that is full ends the round.
DeliverStops ==
    /\ Delivering("write") /\ ~Top.ok
    /\ readable' = Paused
    /\ stack' = Return \o PauseCalls
    /\ UNCHANGED <<ending, reads, program>> /\ OnlyReadable
DeliverPauses ==
    /\ Delivering("write") /\ ~Top.ok
    /\ readable' = Paused
    /\ stack' = With([Top EXCEPT !.ok = TRUE]) \o PauseCalls
    /\ UNCHANGED <<ending, reads, program>> /\ OnlyReadable
Delivered ==
    /\ Delivering("write") /\ Top.ok /\ Top.left = <<>>
    /\ stack' = Return
    /\ UNCHANGED <<readable, ending, reads, program>> /\ OnlyReadable

\* The pipes that stay replace the list as it is at the end.
UnpipeLooks ==
    /\ Top.at = "unpipe" /\ Top.left # <<>>
    /\ LET p == Head(Top.left)
           next == [Top EXCEPT !.left = Tail(@)] IN
       stack' = IF p.dst \in Top.which THEN With(next) \o Calls("unpipe")
                ELSE With([next EXCEPT !.kept = Append(@, p)])
    /\ UNCHANGED <<readable, ending, reads, program>> /\ OnlyReadable
Unpiped ==
    /\ Top.at = "unpipe" /\ Top.left = <<>>
    /\ readable' = [readable EXCEPT !.pipes = Top.kept]
    /\ stack' = Return
    /\ unfed' = unfed \cup (Dsts \ {Top.kept[i].dst : i \in DOMAIN Top.kept})
    /\ UNCHANGED <<ending, reads, program, writable, pending, held, offered, arrived>>

\* finish_end_now, after the event.
EndLooksUpPipes ==
    /\ Top.at = "ended" /\ Top.stage = "event"
    /\ stack' = With([Top EXCEPT !.stage = "pipes", !.left = readable.pipes])
    /\ UNCHANGED <<readable, ending, reads, program>> /\ OnlyReadable
EndsPipe ==
    /\ Top.at = "ended" /\ Top.stage = "pipes" /\ Top.left # <<>>
    /\ LET p == Head(Top.left) IN
       stack' = With([Top EXCEPT !.left = Tail(@)]) \o (IF p.ends THEN <<End(p.dst)>> ELSE <<>>)
    /\ UNCHANGED <<readable, ending, reads, program>> /\ OnlyReadable
PipesEnded ==
    /\ Top.at = "ended" /\ Top.stage = "pipes" /\ Top.left = <<>>
    /\ readable' = [readable EXCEPT !.pipes = <<>>]
    /\ stack' = Return
    /\ UNCHANGED <<ending, reads, program>> /\ OnlyReadable

-----------------------------------------------------------------------------
(* flowing.rs                                                              *)

PumpEnd ==
    /\ Top.at = "pump" /\ Top.stage = "end"
    /\ ending' = FALSE
    /\ LET rest == With([Top EXCEPT !.stage = "wait"]) IN
       IF ending /\ EndIsDue
       THEN /\ readable' = [readable EXCEPT !.readableEnded = TRUE]
            /\ stack' = rest \o <<[at |-> "ended", stage |-> "event", left |-> <<>>]>>
                             \o Calls("end")
       ELSE stack' = rest /\ UNCHANGED readable
    /\ UNCHANGED <<reads, program>> /\ OnlyReadable

\* One parked read: a chunk, the end, or what _read pushes.
Serve(retry) ==
    IF readable.waiter = 0
    THEN stack' = Return /\ UNCHANGED <<readable, ending, got, given>>
    ELSE IF readable.destroyed /\ ~retry
    THEN stack' = Return /\ Answer(readable, "done") /\ UNCHANGED <<ending, got>>
    ELSE IF readable.buf # <<>>
    THEN /\ Answer(Shifted(readable), "chunk")
         /\ got' = Append(got, Head(readable.buf).id)
         /\ stack' = Return /\ UNCHANGED ending
    ELSE IF readable.ended
    THEN stack' = Return /\ Answer(readable, "done") /\ ScheduleEnd(TRUE) /\ UNCHANGED got
    ELSE /\ stack' = IF retry THEN Return
                     ELSE With([Top EXCEPT !.stage = "prodded"]) \o Calls("read")
         /\ UNCHANGED <<readable, ending, got, given>>
PumpServes ==
    /\ Top.at = "pump" /\ Top.stage = "wait" /\ Serve(FALSE)
    /\ UNCHANGED <<made, accepted, program>> /\ OnlyReadable
PumpServesProdded ==
    /\ Top.at = "pump" /\ Top.stage = "prodded" /\ Serve(TRUE)
    /\ UNCHANGED <<made, accepted, program>> /\ OnlyReadable

\* next(), once it has pumped, and once it has asked _read.
Hands(r) ==
    /\ readable' = Shifted(r) /\ got' = Append(got, Head(r.buf).id)
    /\ given' = [given EXCEPT ![Top.call] = "chunk"]
    /\ stack' = Return /\ UNCHANGED ending
NextLooks ==
    /\ Top.at = "next" /\ Top.stage = "pumped"
    /\ IF readable.buf # <<>> THEN Hands(readable)
       ELSE IF readable.destroyed
       THEN /\ given' = [given EXCEPT ![Top.call] = "done"] /\ stack' = Return
            /\ UNCHANGED <<readable, ending, got>>
       ELSE /\ stack' = With([Top EXCEPT !.stage = "prodded"]) \o
                        (IF readable.ended THEN <<>> ELSE Calls("read"))
            /\ UNCHANGED <<readable, ending, got, given>>
    /\ UNCHANGED <<made, accepted, program>> /\ OnlyReadable
NextAnswers ==
    /\ Top.at = "next" /\ Top.stage = "prodded"
    /\ IF readable.buf # <<>> THEN Hands(readable)
       ELSE /\ given' = [given EXCEPT ![Top.call] = IF readable.ended THEN "done" ELSE "pending"]
            /\ readable' = [readable EXCEPT !.waiter = IF readable.ended THEN @ ELSE Top.call]
            /\ ScheduleEnd(readable.ended)
            /\ stack' = Return /\ UNCHANGED got
    /\ UNCHANGED <<made, accepted, program>> /\ OnlyReadable

-----------------------------------------------------------------------------
(* writable.rs                                                             *)

Answers(ok) ==
    IF Caller.at = "deliver" THEN Append(Front(Return), [Caller EXCEPT !.ok = ok]) ELSE Return

WriteStarts ==
    /\ Top.at = "write"
    /\ LET d == Top.dst
           w == writable[d]
           ok == w.length + Top.chunk.size < HighWater IN
       IF w.ended
       THEN /\ stack' = Answers(FALSE) /\ unfed' = unfed \cup {d}
            /\ UNCHANGED <<writable, offered>>
       ELSE /\ writable' = [writable EXCEPT ![d].queue = Append(@, Top.chunk),
                 ![d].length = @ + Top.chunk.size, ![d].needDrain = ~ok,
                 ![d].callbacks = IF Top.cb THEN @ + 1 ELSE @]
            /\ offered' = [offered EXCEPT ![d] = Append(@, Top.chunk.id)]
            /\ stack' = IF w.corked = 0 THEN With(DrainQueue(d, ok)) ELSE Answers(ok)
            /\ UNCHANGED unfed
    /\ UNCHANGED <<pending, held, arrived>> /\ OnlyWritable

Drains(d) == writable[d].queue # <<>> /\ writable[d].corked = 0
\* A slip: the newest chunk of the queue first.
DispatchNewest ==
    /\ Top.at = "drainQueue" /\ Drains(Top.dst)
    /\ LET d == Top.dst
           c == Last(writable[d].queue) IN
       /\ writable' = [writable EXCEPT ![d].queue = Front(@)]
       /\ arrived' = [arrived EXCEPT ![d] = Append(@, c.id)]
       /\ pending' = Append(pending, [dst |-> d, size |-> c.size, final |-> FALSE])
       /\ stack' = Append(stack, Code("write"))
    /\ UNCHANGED <<held, offered, unfed>> /\ OnlyWritable
Dispatch ==
    /\ Top.at = "drainQueue" /\ Drains(Top.dst)
    /\ LET d == Top.dst
           c == Head(writable[d].queue) IN
       /\ writable' = [writable EXCEPT ![d].queue = Tail(@)]
       /\ arrived' = [arrived EXCEPT ![d] = Append(@, c.id)]
       /\ pending' = Append(pending, [dst |-> d, size |-> c.size, final |-> FALSE])
       /\ stack' = Append(stack, Code("write"))
    /\ UNCHANGED <<held, offered, unfed>> /\ OnlyWritable
QueueDrained ==
    /\ Top.at = "drainQueue" /\ ~Drains(Top.dst)
    /\ stack' = Answers(Top.ok)
    /\ UNCHANGED <<writable, pending, held, writes>> /\ OnlyWritable

\* finalize_write: what remains is worked out before the callback runs.
FinalizeShrinks ==
    /\ Top.at = "finalize" /\ Top.stage = "shrink"
    /\ LET d == Top.dst
           w == writable[d]
           remaining == IF w.length > Top.size THEN w.length - Top.size ELSE 0 IN
       /\ writable' = [writable EXCEPT ![d].length = remaining,
                                       ![d].callbacks = IF @ > 0 THEN @ - 1 ELSE 0]
       /\ stack' = With([Top EXCEPT !.stage = "drain", !.remaining = remaining]) \o
                   (IF w.callbacks > 0 THEN Calls("written") ELSE <<>>)
    /\ UNCHANGED <<pending, held, writes>> /\ OnlyWritable
FinalizeDrains ==
    /\ Top.at = "finalize" /\ Top.stage = "drain"
    /\ LET cleared == writable[Top.dst].needDrain /\ Top.remaining < HighWater IN
       /\ writable' = [writable EXCEPT ![Top.dst].needDrain = @ /\ ~cleared]
       /\ stack' = With(MaybeFinish(Top.dst)) \o (IF cleared THEN Calls("drain") ELSE <<>>)
    /\ UNCHANGED <<pending, held, writes>> /\ OnlyWritable

EndSets ==
    /\ Top.at = "end"
    /\ writable' = [writable EXCEPT ![Top.dst].ended = TRUE]
    /\ stack' = With(MaybeFinish(Top.dst))
    /\ UNCHANGED <<pending, held, writes>> /\ OnlyWritable

\* A slip: what is queued is not looked at.
FinishHasty(d) == writable[d].ended /\ ~writable[d].finished
\* maybe_finish: the _final hook runs once, and whoever comes by meanwhile
\* finishes the stream.
FinishMayBe(d) ==
    writable[d].ended /\ ~writable[d].finished /\ writable[d].queue = <<>>
MaybeFinishes ==
    /\ Top.at = "maybeFinish"
    /\ LET d == Top.dst IN
       IF ~FinishMayBe(d) THEN stack' = Return /\ UNCHANGED <<writable, pending>>
       ELSE IF "final" \in listens /\ ~writable[d].finalCalled
       THEN /\ writable' = [writable EXCEPT ![d].finalCalled = TRUE]
            /\ pending' = Append(pending, [dst |-> d, size |-> 0, final |-> TRUE])
            /\ stack' = With(Code("final"))
       ELSE stack' = With([at |-> "finish", dst |-> d]) /\ UNCHANGED <<writable, pending>>
    /\ UNCHANGED <<held, writes>> /\ OnlyWritable
Finish ==
    /\ Top.at = "finish"
    /\ writable' = [writable EXCEPT ![Top.dst].finished = TRUE]
    /\ stack' = Return \o (IF writable[Top.dst].finished THEN <<>> ELSE Calls("finish"))
    /\ UNCHANGED <<pending, held, writes>> /\ OnlyWritable

-----------------------------------------------------------------------------
(* The host's loop asks the source, and calls the program from elsewhere.  *)

HostPumps ==
    /\ Top.at = "host" /\ (ending \/ readable.waiter # 0)
    /\ stack' = Append(stack, Pump)
    /\ UNCHANGED <<readable, ending, reads, program>> /\ OnlyReadable
HostCalls ==
    /\ Top.at = "host" /\ (fuel > 0 \/ held > 0)
    /\ stack' = Append(stack, Code("turn"))
    /\ UNCHANGED <<readable, ending, reads, program>> /\ OnlyReadable

ProgramSteps ==
    \/ Push \/ PushNull \/ Read \/ Resumes \/ Pause \/ Pipe \/ Unpipe \/ Destroy
    \/ Next_ \/ IteratorReturn \/ Writes \/ Ends \/ Cork \/ Uncork
    \/ CompletesLater \/ HostCalls
StreamSteps ==
    \/ PlacePushed \/ ResumeStarts \/ DrainOne \/ Drained
    \/ DeliverData \/ DeliverLooksUpPipes \/ DeliverWrites \/ DeliverPauses \/ Delivered
    \/ UnpipeLooks \/ Unpiped \/ EndLooksUpPipes \/ EndsPipe \/ PipesEnded
    \/ PumpEnd \/ PumpServes \/ PumpServesProdded \/ NextLooks \/ NextAnswers
    \/ WriteStarts \/ Dispatch \/ QueueDrained \/ FinalizeShrinks \/ FinalizeDrains
    \/ EndSets \/ MaybeFinishes \/ Finish
    \/ Completes \/ CodeEnds \/ HostPumps

Next == ProgramSteps \/ StreamSteps

\* The thread runs: methods go on and user code returns.  Every pass of the host's
\* loop asks the source, whatever the other sources call in between.
Spec == Init /\ [][Next]_vars /\ WF_vars(StreamSteps) /\ SF_vars(HostPumps)
=============================================================================
