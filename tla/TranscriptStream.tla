--------------------------- MODULE TranscriptStream ---------------------------
(***************************************************************************)
(* The live transcript stream of one session (hub/stream.rs and its use in *)
(* hub/slots.rs).  The agent reads the session's transcript, the hub turns *)
(* its lines into messages of the topic: one turn message that grows by    *)
(* edits while the next piece fits, else the next message.  What Telegram  *)
(* took moves the offset a hub restart reads from; what it did not take    *)
(* makes the stream read again from there.  The answer of a turn comes     *)
(* from the Stop hook and is to go below the lines of its turn: it is      *)
(* paired with the turn's end in the transcript.                           *)
(*                                                                         *)
(* A line is its number and shows one piece; an answer is the number of    *)
(* the line that ends its turn, and is one message.  A write carries the   *)
(* whole text of its message, as a sequence of lines.  Timers (the retry,  *)
(* hold_answer, the claim of a turn end, READ_TIMEOUT) run out at any      *)
(* time.  Of the scheduler (Outbox) the stream meets three things: writes  *)
(* into one message, and new messages, keep their order; adjacent ones are *)
(* merged; an error that is no 4xx drops the topic's lines up to one       *)
(* marked restart.  Mirror topics, receipts and menus are left out.        *)
(***************************************************************************)
EXTENDS Integers, FiniteSets, Sequences, SequencesExt

CONSTANTS
  MaxPieces,    (* pieces that fit one message                              *)
  MaxWaiting,   (* MAX_WAITING                                              *)
  MaxHeld,      (* MAX_HELD                                                 *)
  MaxResends,   (* MAX_RESENDS                                              *)
  Plans         (* transcripts, each with what may go wrong and how often   *)

Trouble == {"failed", "refused", "deleted", "post", "late", "hold", "link", "restart", "leave"}

ASSUME StreamAssumption ==
  /\ {MaxPieces, MaxWaiting, MaxHeld} \subseteq Nat \ {0} /\ MaxResends \in Nat
  /\ \A p \in Plans : /\ p.script \in Seq({"text", "prompt", "call", "result", "end"})
                      /\ p.bound \in [Trouble -> Nat]

VARIABLES
  plan,      (* one of Plans                                                *)
  written,   (* complete lines of the transcript, as far as they were seen  *)
  stopped,   (* the last turn end whose Stop came                           *)
  agent,     (* the session's link, 0 for none                              *)
  asks,      (* transcript reads under way                                  *)
  live,      (* Live                                                        *)
  offset,    (* Stream::offset and whether a call is open there             *)
  out,       (* the scheduler's queue, its broken mark, answers under way   *)
  topic,     (* the messages of the topic                                   *)
  left,      (* whether the session left its slot, and how its drain ended  *)
  resends,   (* Live::resends                                               *)
  used,      (* what went wrong so far                                      *)
  fate       (* for the properties: lines skipped, answers apart from the   *)
             (* stream or before their turn end, lines an answer overtook;  *)
             (* whether turn ends lapsed, whether a break was ended by a    *)
             (* restart queued before it, whether an older write went again *)
             (* over a newer one                                            *)

streamVars == <<plan, written, stopped, agent, asks, live, offset, out, topic, left,
                resends, used, fate>>

Script == plan.script

Line == DOMAIN Script

Ends == {i \in Line : Script[i] = "end"}

(* Lines that show something; a result shows its call.                     *)
Pieces == {i \in Line : \/ Script[i] \in {"text", "prompt"}
                        \/ Script[i] = "result" /\ i > 1 /\ Script[i - 1] = "call"}

NoOpen == [key |-> 0, number |-> 0, text |-> <<>>]

(* Live::new                                                               *)
NewLive(at) ==
  [ readAt |-> at.to, call |-> at.call, reading |-> 0, debts |-> {},
    held |-> <<>>, ends |-> <<>>, lapsing |-> FALSE, restart |-> TRUE,
    answeredEnds |-> {}, rewind |-> FALSE, unpaired |-> <<>>,
    open |-> NoOpen, committed |-> NoOpen, waiting |-> <<>>, next |-> 0 ]

IsBarrier(entry) == entry.number = 0

(* A message some of the topic's readers deleted, or the hub retired.      *)
Gone == <<0>>

St == [live |-> live, out |-> out, topic |-> topic]

Becomes(st) == live' = st.live /\ out' = st.out /\ topic' = st.topic

----------------------------------------------------------------------------
(* Live: what waits for Telegram.                                          *)

HandOff(o, op) ==
  IF o.broken /\ ~op.restart
  THEN [o EXCEPT !.done = @ \cup {[number |-> op.number, what |-> "unsent", key |-> 0]}]
  ELSE [o EXCEPT !.queue = Append(@, op), !.broken = FALSE]

(* push_message, and the hand-off to the scheduler.                        *)
Push(st, answer, text, into, merge, absorb) ==
  LET lv == st.live
      op == [ number |-> lv.next + 1, text |-> text, into |-> into,
              merge |-> merge, restart |-> lv.restart ]
      entry == [ number |-> op.number, state |-> "waiting", answer |-> answer,
                 op |-> op, absorb |-> absorb ]
      pushed == [lv EXCEPT !.next = op.number, !.restart = FALSE, !.waiting = Append(@, entry)]
  IN [st EXCEPT !.live = pushed, !.out = HandOff(@, op)]

(* Each has a number of its own.                                           *)
Messages(lv) == {m \in ToSet(lv.waiting) : ~IsBarrier(m)}

Unanswered(lv) == Cardinality({m \in Messages(lv) : m.state = "waiting"})

InState(lv, state) == \E m \in Messages(lv) : m.state = state

(* Mutant of Stuck: what is still in flight is not waited for.             *)
StuckAtOnce(lv) == InState(lv, "refused")

Stuck(lv) == Unanswered(lv) = 0 /\ InState(lv, "refused")

Settled(lv) == ~InState(lv, "waiting") /\ ~InState(lv, "refused")

OpenPending(lv) == lv.open.number # 0 /\ lv.open.key = 0

(* `Live::open`, `committed_open` and those of the barriers.               *)
Opens(lv) ==
  {lv.open, lv.committed} \cup
  {lv.waiting[k].open : k \in {j \in DOMAIN lv.waiting : IsBarrier(lv.waiting[j])}}

(* Each of them through `f`.                                               *)
EachOpen(lv, f) ==
  LET w == lv.waiting
      through == [k \in DOMAIN w |-> IF IsBarrier(w[k]) THEN [w[k] EXCEPT !.open = f[@]] ELSE w[k]]
  IN [lv EXCEPT !.open = f[@], !.committed = f[@], !.waiting = through]

CloseOpen(lv) == EachOpen(lv, [open \in Opens(lv) |-> NoOpen])

(* Mutant of Opened: a refused turn message still waits for its id.        *)
OpenedIfSent(lv, number, key) ==
  EachOpen(lv, [open \in Opens(lv) |->
    IF open.key # 0 \/ open.number # number THEN open ELSE [open EXCEPT !.key = key]])

(* The turn message sent as `number` is `key`, or none.                    *)
Opened(lv, number, key) ==
  EachOpen(lv, [open \in Opens(lv) |->
    IF open.key # 0 \/ open.number # number THEN open
    ELSE IF key = 0 THEN NoOpen ELSE [open EXCEPT !.key = key]])

Barrier(lv, to) ==
  LET barrier == [number |-> 0, to |-> to, call |-> lv.call, open |-> lv.open]
      w == lv.waiting
  IN [lv EXCEPT !.readAt = to,
                !.waiting = IF w # <<>> /\ IsBarrier(Last(w))
                            THEN Append(Front(w), barrier) ELSE Append(w, barrier)]

(* The elements of a sequence at places `ks`, in their order.              *)
Picked(s, ks) == FlattenSeq([k \in DOMAIN s |-> IF k \in ks THEN <<s[k]>> ELSE <<>>])

(* The barriers and accepted messages at the head.                         *)
Passed(lv) ==
  LET open == {k \in DOMAIN lv.waiting : /\ ~IsBarrier(lv.waiting[k])
                                         /\ lv.waiting[k].state # "accepted"}
  IN IF open = {} THEN Len(lv.waiting) ELSE Min(open) - 1

(* The last barrier of that head, 0 for none.                              *)
LastBarrier(lv) == Max({0} \cup {k \in 1 .. Passed(lv) : IsBarrier(lv.waiting[k])})

(* advance: drops that head.                                               *)
Advanced(lv) ==
  LET n == Passed(lv)
      head == lv.waiting
      last == LastBarrier(lv)
      sent(m) == UNION {{a.end : a \in ToSet(head[k].answer)} :
                          k \in {j \in m + 1 .. n : ~IsBarrier(head[j])}}
      ends(m) == sent(m) \ {0}
      rest == SubSeq(lv.waiting, n + 1, Len(lv.waiting))
  IN IF last = 0
     THEN [lv EXCEPT !.waiting = rest, !.answeredEnds = @ \cup ends(0)]
     ELSE [lv EXCEPT !.waiting = rest, !.committed = head[last].open,
                     !.answeredEnds = {e \in @ \cup ends(0) : e > head[last].to}
                                        \cup ends(last)]

(* Mutant of Committed: the newest barrier, whatever was accepted.         *)
CommittedRead(lv) ==
  LET last == Max({0} \cup {k \in DOMAIN lv.waiting : IsBarrier(lv.waiting[k])})
  IN IF last = 0 THEN offset
     ELSE [to |-> lv.waiting[last].to, call |-> lv.waiting[last].call]

(* stream_answered: the offset goes to the last barrier passed.            *)
Committed(lv) ==
  LET last == LastBarrier(lv)
  IN IF last = 0 THEN offset
     ELSE [to |-> lv.waiting[last].to, call |-> lv.waiting[last].call]

(* Turn answers among the messages that are not in the topic.              *)
Answers(lv) ==
  FlattenSeq([k \in DOMAIN lv.waiting |->
                IF IsBarrier(lv.waiting[k]) \/ lv.waiting[k].state = "accepted" THEN <<>>
                ELSE lv.waiting[k].answer])

(* Turn ends up to the offset.                                             *)
EndsBefore(lv) == Picked(lv.ends, {k \in DOMAIN lv.ends : lv.ends[k] <= offset.to})

(* Mutant of Rewound: answers that are not in the topic are forgotten.     *)
RewoundWithout(lv) ==
  [ NewLive(offset) EXCEPT
      !.open = lv.committed, !.committed = lv.committed, !.held = lv.held,
      !.answeredEnds = {e \in lv.answeredEnds : e > offset.to},
      !.unpaired = lv.unpaired,
      !.ends = EndsBefore(lv) ]

(* rewind: answers not in the topic are held again, before those held.     *)
Rewound(lv) ==
  LET again == Answers(lv)
      owed  == {a.answer : a \in {x \in ToSet(again) : x.gone}}
      held  == [k \in DOMAIN again |-> [again[k] EXCEPT !.gone = FALSE]] \o lv.held
      inTopic == {e \in UNION {{a.end : a \in ToSet(m.answer)} :
                                 m \in {x \in Messages(lv) : x.state = "accepted"}} :
                    e > offset.to}
      unpaired == {k \in DOMAIN lv.unpaired : lv.unpaired[k] \notin owed}
      ends == EndsBefore(lv)
  IN [ NewLive(offset) EXCEPT
         !.open = lv.committed, !.committed = lv.committed, !.held = held,
         !.answeredEnds = ({e \in lv.answeredEnds : e > offset.to} \cup inTopic)
                            \ {a.end : a \in ToSet(again)},
         !.unpaired = Picked(lv.unpaired, unpaired),
         !.ends = ends, !.lapsing = lv.lapsing /\ ends # <<>> ]

----------------------------------------------------------------------------
(* Turn answers and turn ends.                                             *)

Answer(e) == [answer |-> e, end |-> 0, gone |-> FALSE]

(* answer_ops: the message of an answer, below everything sent so far.     *)
AnswerGoes(st, a) ==
  Push([st EXCEPT !.live = CloseOpen(@)], <<a>>, <<a.answer>>, 0, FALSE, FALSE)

(* Several answers, one below the other.                                   *)
AnswersGo(st, answers) ==
  LET gone[n \in 0 .. Len(answers)] ==
        IF n = 0 THEN st ELSE AnswerGoes(gone[n - 1], answers[n])
  IN gone[Len(answers)]

(* Mutant of AnsweredEarly: its turn end may let another answer go.        *)
AnsweredUnnoticed(lv, a) == [live |-> lv, answer |-> a]

(* answered_early: an answer goes before its turn end was read.            *)
AnsweredEarly(lv, a) ==
  IF a.end = 0
  THEN [ live |-> [lv EXCEPT !.unpaired = Append(@, a.answer)],
         answer |-> [a EXCEPT !.gone = TRUE] ]
  ELSE [ live |-> IF lv.readAt < a.end THEN [lv EXCEPT !.answeredEnds = @ \cup {a.end}]
                  ELSE lv,
         answer |-> a ]

(* The held answer that turn end `e` lets go.                              *)
LetGo(lv, e) ==
  LET own == {k \in DOMAIN lv.held : lv.held[k].end = e}
      front == {k \in {1} \cap DOMAIN lv.held :
                  IF lv.held[k].end # 0 THEN lv.held[k].end <= e ELSE lv.unpaired = <<>>}
  IN IF own # {} THEN own ELSE front

(* turn_end, and its answer.                                               *)
TurnEnd(c, e) ==
  LET st == c.st
      lv == st.live
      k == Min(LetGo(lv, e))
      others == [lv EXCEPT !.held = RemoveAt(@, k)]
      paired == [lv EXCEPT !.unpaired = Tail(@), !.answeredEnds = @ \cup {e}]
      ended == [lv EXCEPT !.ends = IF Len(@) < MaxHeld THEN Append(@, e) ELSE @]
  IN IF e \in lv.answeredEnds THEN c
     ELSE IF LetGo(lv, e) # {}
     THEN [c EXCEPT !.st = AnswerGoes([st EXCEPT !.live = others], [lv.held[k] EXCEPT !.end = e]),
                    !.posted = @ + 1]
     ELSE [c EXCEPT !.st = [st EXCEPT !.live = IF lv.unpaired # <<>> THEN paired ELSE ended]]

----------------------------------------------------------------------------
(* Lines of a read; `c` is what on_chunk keeps beside the stream.          *)

Grows(open) == open.key # 0 /\ Len(open.text) < MaxPieces

WithOpen(st, open) == LET lv == st.live IN [st EXCEPT !.live = [lv EXCEPT !.open = open]]

(* roll: a piece goes into the turn message, else into a new one, which    *)
(* the status message may become.                                          *)
Shown(c, i) ==
  LET st == c.st
      open == st.live.open
      quiet == Script[i] # "prompt"
      absorb == c.status /\ c.posted = 0
      key == IF absorb THEN Len(st.topic) + 1 ELSE 0
      under == [st EXCEPT !.topic = IF absorb THEN Append(@, <<>>) ELSE @]
      pushed == Push(under, <<>>, <<i>>, key, quiet /\ ~absorb, absorb)
      opened == IF quiet THEN [key |-> key, number |-> pushed.live.next, text |-> <<i>>] ELSE NoOpen
      more == Append(open.text, i)
      grown == Push(st, <<>>, more, open.key, TRUE, FALSE)
  IN IF quiet /\ Grows(open)
     THEN [c EXCEPT !.st = WithOpen(grown, [open EXCEPT !.text = more])]
     ELSE [c EXCEPT !.st = WithOpen(pushed, opened),
                    !.status = @ /\ ~absorb,
                    !.posted = IF absorb THEN @ ELSE @ + 1]

(* apply_line: any line but a call and its result ends the open call.      *)
Applied(c, i) ==
  LET st == c.st
      lv == st.live
      with(now) == [c EXCEPT !.st = [st EXCEPT !.live = now]]
      flushed == with([lv EXCEPT !.call = FALSE])
      prompted == with([lv EXCEPT !.call = FALSE, !.lapsing = @ \/ lv.ends # <<>>])
  IN CASE Script[i] = "text" -> Shown(flushed, i)
       [] Script[i] = "prompt" -> Shown(prompted, i)
       [] Script[i] = "call" -> with([lv EXCEPT !.call = TRUE])
       [] Script[i] = "result" -> IF lv.call THEN Shown(flushed, i) ELSE c
       [] Script[i] = "end" -> TurnEnd(flushed, i)

(* Lines after the first one wait in the file while Telegram is behind.    *)
TakenLine(c, i) ==
  IF \/ c.read # i - 1
     \/ i # c.first /\ (Unanswered(c.st.live) >= MaxWaiting \/ OpenPending(c.st.live))
  THEN c
  ELSE [Applied(c, i) EXCEPT !.read = i]

LinesRead(c, from, to) ==
  LET read[i \in from .. to] == IF i = from THEN c ELSE TakenLine(read[i - 1], i)
  IN read[to]

(* overdue: held answers whose turn end lies before the read go first.     *)
Overdue(c, from) ==
  LET st == c.st
      lv == st.live
      held == lv.held
      due == Cardinality({k \in DOMAIN held : \A j \in 1 .. k : held[j].end \in 1 .. from})
      later == [st EXCEPT !.live = [lv EXCEPT !.held = SubSeq(held, due + 1, Len(held))]]
  IN [c EXCEPT !.st = AnswersGo(later, SubSeq(held, 1, due)), !.posted = @ + due]

(* on_chunk from its first line on, for lines from + 1 .. to; `status`      *)
(* says that the topic's last message is a status message the stream may   *)
(* turn into content.                                                      *)
LinesTaken(lv, from, to, more, status) ==
  LET start == [ st |-> [live |-> lv, out |-> out, topic |-> topic], posted |-> 0,
                 status |-> status, read |-> from, first |-> from + 1 ]
      done == LinesRead(Overdue(start, from), from, to)
      unpaired == done.st.live.unpaired
      debts == {k \in DOMAIN unpaired : unpaired[k] \in lv.debts}
      paid == IF more \/ done.read # to THEN done.st.live
              ELSE [done.st.live EXCEPT !.unpaired = Picked(@, DOMAIN @ \ debts)]
  IN [done.st EXCEPT !.live = Barrier(paid, done.read)]

(* stream_answered.                                                        *)
Moved(lv) == live' = Advanced(lv) /\ offset' = Committed(lv)

----------------------------------------------------------------------------
(* What the properties look back at.                                       *)

InTopic(i) == \E m \in DOMAIN topic : i \in ToSet(topic[m])

TurnLines(e) == {i \in Pieces : i < e /\ \A f \in Ends : f < e => f < i}

(* Lines of writes into a message above that Telegram did not take.        *)
Unwritten ==
  UNION {ToSet(m.op.text) : m \in {x \in Messages(live) :
                                     x.state # "accepted" /\ x.op.into # 0}}

InStream(lv) == ToSet(lv.held) \cup ToSet(Answers(lv))

(* `early` grows by `answers` and by those that went before their turn end *)
(* was read.                                                               *)
Fated(answers) ==
  [fate EXCEPT !.early = @ \cup answers \cup {a.answer : a \in {x \in InStream(live') : x.gone}}]

Goes(what) == used[what] < plan.bound[what] /\ used' = [used EXCEPT ![what] = @ + 1]

----------------------------------------------------------------------------
(* The transcript, the agent and the Stop hook.                            *)

Init ==
  /\ plan \in Plans
  /\ written = 0 /\ stopped = 0 /\ agent = 1 /\ asks = <<>>
  /\ offset = [to |-> 0, call |-> FALSE]
  /\ live = NewLive(offset)
  /\ out = [queue |-> <<>>, broken |-> FALSE, done |-> {}]
  /\ topic = <<>> /\ left = "no" /\ resends = 0
  /\ used = [what \in Trouble |-> 0]
  /\ fate = [skipped |-> {}, apart |-> {}, early |-> {}, ahead |-> {},
             mended |-> FALSE, lapsed |-> FALSE, stale |-> FALSE]

(* A link of the agent ends, with the reads on their way.                  *)
AgentGoes ==
  /\ agent # 0 /\ Goes("link")
  /\ agent' = 0 /\ asks' = <<>>
  /\ UNCHANGED <<plan, written, stopped, live, offset, out, topic, left, resends, fate>>

AgentComes ==
  /\ agent = 0
  /\ agent' = used["link"] + used["restart"] + 1
  /\ UNCHANGED <<plan, written, stopped, asks, live, offset, out, topic, left, resends, used, fate>>

Streamed == left = "no" /\ agent # 0

(* release; what goes outside the stream is gone from this model.          *)
Released(lv, a) ==
  IF Streamed THEN AnswerGoes([St EXCEPT !.live = lv], a) ELSE [St EXCEPT !.live = CloseOpen(lv)]

Apart(a) == IF Streamed THEN {} ELSE {a.answer}

(* claim_end, with its time past when `lapsed`.                            *)
Claimable(lapsed) == IF lapsed THEN <<>> ELSE live.ends

(* on_turn_answer.                                                         *)
Stop ==
  \E e \in {Min({x \in Ends \cup {Len(Script) + 1} : x > stopped})}, lapsed \in {FALSE, live.lapsing} :
    LET ends == Claimable(lapsed)
        claimed == [live EXCEPT !.ends = IF ends = <<>> THEN ends ELSE Tail(ends),
                                !.lapsing = @ /\ Len(ends) > 1]
        full == Len(live.held) >= MaxHeld
        early == AnsweredEarly([claimed EXCEPT !.held = Tail(@)], Head(live.held))
    IN /\ e <= Len(Script)
       /\ stopped' = e /\ written' = Max({written, e})
       /\ IF ~Streamed
          THEN /\ Becomes([St EXCEPT !.live = IF left = "no" THEN CloseOpen(@) ELSE @])
               /\ fate' = [fate EXCEPT !.apart = @ \cup {e}]
          ELSE /\ IF ends # <<>>
                  THEN Becomes(Released(claimed, [Answer(e) EXCEPT !.end = Head(ends)]))
                  ELSE IF full
                  THEN Becomes(Released([early.live EXCEPT !.held = Append(@, Answer(e))],
                                        early.answer))
                  ELSE Becomes([St EXCEPT !.live = [claimed EXCEPT !.held = Append(@, Answer(e))]])
               /\ fate' = [Fated(IF ends = <<>> /\ full THEN {Head(live.held).answer} ELSE {})
                             EXCEPT !.lapsed = @ \/ lapsed]
       /\ UNCHANGED <<plan, agent, asks, offset, left, resends, used>>

(* pump_streams: a held answer whose time is past, or without a reader.    *)
HoldOver ==
  /\ left = "no" /\ live.held # <<>>
  /\ IF agent = 0 THEN UNCHANGED used ELSE Goes("hold")
  /\ LET early == AnsweredEarly([live EXCEPT !.held = Tail(@)], Head(live.held))
     IN /\ Becomes(Released(early.live, early.answer))
        /\ fate' = [Fated({early.answer.answer}) EXCEPT !.apart = @ \cup Apart(early.answer)]
  /\ UNCHANGED <<plan, written, stopped, agent, asks, offset, left, resends>>

(* pump_streams: a read that is late or went to another link.              *)
ReadForgotten ==
  /\ left = "no" /\ live.reading # 0
  /\ IF live.reading # agent THEN UNCHANGED used ELSE Goes("late")
  /\ live' = [live EXCEPT !.reading = 0]
  /\ UNCHANGED <<plan, written, stopped, agent, asks, offset, out, topic, left, resends, fate>>

(* pump_streams: the next read; again from the offset after a refusal.     *)
AskRead ==
  /\ Streamed /\ live.reading = 0 /\ Len(asks) < 2
  /\ Unanswered(live) < MaxWaiting /\ ~OpenPending(live)
  /\ live.rewind => Stuck(live)
  /\ asks' = Append(asks, [from |-> IF live.rewind THEN offset.to ELSE live.readAt, len |-> written])
  /\ live' = [live EXCEPT !.reading = agent, !.debts = ToSet(live.unpaired)]
  /\ UNCHANGED <<plan, written, stopped, agent, offset, out, topic, left, resends, used, fate>>

(* The status message is the last one of the topic: nothing is on its way. *)
Absorbable ==
  \A m \in Messages(live) : m.state = "waiting" => m.op.into # 0 /\ ~m.absorb

(* on_chunk.                                                               *)
OnChunk(to, more, status) ==
  LET from == Head(asks).from
      lv == IF live.rewind THEN Rewound(live) ELSE [live EXCEPT !.reading = 0]
      st == LinesTaken(lv, from, to, more, status)
  IN /\ asks # <<>>
     /\ written' = Max({written, to + IF more THEN 1 ELSE 0})
     /\ IF more THEN from < to /\ to < Len(Script) ELSE Head(asks).len <= to
     /\ asks' = Tail(asks)
     /\ IF left # "no" \/ live.reading # agent
        THEN ~more /\ ~status /\ UNCHANGED <<live, offset, out, topic>>
        ELSE IF live.rewind /\ ~Stuck(live)
        THEN /\ ~more /\ ~status
             /\ live' = [live EXCEPT !.reading = 0] /\ UNCHANGED <<offset, out, topic>>
        ELSE IF lv.readAt # from
        THEN ~more /\ ~status /\ live' = lv /\ UNCHANGED <<offset, out, topic>>
        ELSE /\ status => Absorbable
             /\ Moved(st.live) /\ out' = st.out /\ topic' = st.topic
     /\ fate' = Fated({})
     /\ UNCHANGED <<plan, stopped, agent, left, resends, used>>

(* close_turn_message: a post of somebody else below the turn message.     *)
OtherPost ==
  /\ left = "no" /\ live.open.key # 0 /\ Goes("post")
  /\ live' = CloseOpen(live)
  /\ UNCHANGED <<plan, written, stopped, agent, asks, offset, out, topic, left, resends, fate>>

----------------------------------------------------------------------------
(* The scheduler and Telegram.                                             *)

(* The queued messages of the queue of `k` after it.                       *)
After(k) == {j \in k + 1 .. Len(out.queue) : out.queue[j].into = out.queue[k].into}

Size(ks) == MapThenSumSet(LAMBDA j : Len(out.queue[j].text), ks)

(* merge_lines: those that join it.                                        *)
Joins(k) ==
  LET fits(ks) == out.queue[k].into = 0 => Size(ks) <= MaxPieces
  IN {j \in After(k) : /\ out.queue[k].merge
                       /\ \A h \in After(k) : h <= j => out.queue[h].merge
                       /\ fits({k} \cup {h \in After(k) : h <= j})}

(* The first message of its queue, with what joined it.                    *)
Sending(k, joined) ==
  /\ \A j \in 1 .. k - 1 : k \notin After(j)
  /\ IF out.queue[k].into = 0 THEN joined \in {{}, Joins(k)} ELSE joined = Joins(k)

Unsent(ops) == {[number |-> op.number, what |-> "unsent", key |-> 0] : op \in ops}

(* Telegram answers with `what` and the queue goes on.                     *)
Replied(k, joined, what, key, others) ==
  out' = [out EXCEPT
            !.queue = Picked(@, DOMAIN @ \ ({k} \cup joined)),
            !.done = @ \cup {[number |-> out.queue[k].number, what |-> what, key |-> key]}
                       \cup {[number |-> out.queue[j].number, what |-> others, key |-> 0] : j \in joined}]

Taken(k, joined) ==
  LET op == out.queue[k]
      ops == Picked(out.queue, {k} \cup joined)
      text == IF op.into # 0 THEN Last(ops).text
              ELSE FlattenSeq([n \in DOMAIN ops |-> ops[n].text])
      missing == IF Head(text) \notin Ends THEN {}
                 ELSE {i \in TurnLines(Head(text)) : ~InTopic(i) /\ i \notin fate.skipped}
  IN /\ Sending(k, joined)
     /\ op.into # 0 => topic[op.into] # Gone
     /\ topic' = IF op.into = 0 THEN Append(topic, text) ELSE [topic EXCEPT ![op.into] = text]
     /\ Replied(k, joined, "sent", IF op.into = 0 THEN Len(topic) + 1 ELSE 0, "merged")
     /\ fate' = [fate EXCEPT !.ahead = @ \cup
                   {[answer |-> Head(text), line |-> i] : i \in missing \ Unwritten}]
     /\ UNCHANGED <<plan, written, stopped, agent, asks, live, offset, left, resends, used>>

(* "message to edit not found": a 4xx, so no break.                        *)
EditGone(k, joined) ==
  /\ Sending(k, joined)
  /\ out.queue[k].into # 0 /\ topic[out.queue[k].into] = Gone
  /\ Replied(k, joined, "gone", 0, "unsent")
  /\ UNCHANGED <<plan, written, stopped, agent, asks, live, offset, topic, left, resends, used, fate>>

(* Another 4xx.                                                            *)
Refused(k, joined) ==
  /\ Sending(k, joined) /\ Goes("refused")
  /\ Replied(k, joined, "skipped", 0, "unsent")
  /\ fate' = [fate EXCEPT !.skipped = @ \cup ToSet(out.queue[k].text)]
  /\ UNCHANGED <<plan, written, stopped, agent, asks, live, offset, topic, left, resends>>

(* Any other error: break_stream.                                          *)
Failed(k, joined) ==
  LET rest == DOMAIN out.queue \ ({k} \cup joined)
      kept == {j \in rest : \E h \in rest : h <= j /\ out.queue[h].restart}
  IN /\ Sending(k, joined) /\ Goes("failed")
     /\ fate' = [fate EXCEPT !.mended = @ \/ \E j \in rest : j < k /\ out.queue[j].restart]
     /\ out' = [queue |-> Picked(out.queue, kept), broken |-> kept = {},
                done |-> out.done \cup Unsent({out.queue[j] : j \in DOMAIN out.queue \ kept})]
     /\ UNCHANGED <<plan, written, stopped, agent, asks, live, offset, topic, left, resends>>

(* A reader of the topic deletes a message.                                *)
DeleteMessage ==
  \E m \in DOMAIN topic :
    /\ topic[m] \notin {Gone, <<>>} /\ Goes("deleted")
    /\ topic' = [topic EXCEPT ![m] = Gone]
    /\ fate' = [fate EXCEPT !.skipped = @ \cup ToSet(topic[m])]
    /\ UNCHANGED <<plan, written, stopped, agent, asks, live, offset, out, left, resends>>

(* on_stream_sent.                                                         *)
OnStreamSent(r) ==
  LET accepted == r.what \in {"sent", "merged", "skipped"}
      entry == CHOOSE m \in Messages(live) : m.number = r.number
      w == live.waiting
      answered == [live EXCEPT !.waiting = [k \in DOMAIN w |->
                     IF w[k].number # r.number THEN w[k]
                     ELSE [w[k] EXCEPT !.state = IF accepted THEN "accepted" ELSE "refused"]]]
      opened == IF entry.op.into = 0 THEN Opened(answered, r.number, r.key) ELSE answered
      closed == IF r.what = "gone" THEN CloseOpen(opened) ELSE opened
      stuck == Stuck(closed) /\ ~live.rewind
  IN /\ out' = [out EXCEPT !.done = @ \ {r}]
     /\ topic' = IF entry.absorb /\ ~accepted THEN [topic EXCEPT ![entry.op.into] = Gone]
                 ELSE topic
     /\ Moved(IF stuck THEN [closed EXCEPT !.rewind = TRUE, !.reading = 0] ELSE closed)
     /\ fate' = Fated({})
     /\ UNCHANGED <<plan, written, stopped, agent, asks, left, resends, used>>

----------------------------------------------------------------------------
(* The session leaves its slot; the hub restarts.                          *)

(* drain_stream, the first time: the held answers go.                      *)
Leave ==
  /\ left = "no" /\ Goes("leave")
  /\ left' = "draining"
  /\ LET drained == [live EXCEPT !.reading = 0, !.held = <<>>]
     IN Becomes(AnswersGo([St EXCEPT !.live = drained], live.held))
  /\ fate' = Fated({a.answer : a \in ToSet(live.held)})
  /\ UNCHANGED <<plan, written, stopped, agent, asks, offset, resends>>

(* fold_refused_absorbs: a refused write that was to turn the status       *)
(* message into content becomes a new message, with the text of the last   *)
(* refused write into the same message.                                    *)
Folded(lv) ==
  LET w == lv.waiting
      refused == {k \in DOMAIN w : ~IsBarrier(w[k]) /\ w[k].state = "refused" /\ w[k].op.into # 0}
      absorb == {k \in refused : w[k].absorb}
      into(k) == {j \in refused : w[j].op.into = w[k].op.into /\ j >= k}
      folded == UNION {into(k) \ {k} : k \in absorb}
  IN [lv EXCEPT !.waiting = [k \in DOMAIN w |->
        IF k \in folded THEN [w[k] EXCEPT !.state = "accepted"]
        ELSE IF k \in absorb
        THEN [w[k] EXCEPT !.absorb = FALSE, !.op.into = 0, !.op.text = w[Max(into(k))].op.text]
        ELSE w[k]]]

(* Several writes handed to the scheduler.                                 *)
HandedOff(o, ops) ==
  LET handed[n \in 0 .. Len(ops)] == IF n = 0 THEN o ELSE HandOff(handed[n - 1], ops[n])
  IN handed[Len(ops)]

(* resend: the refused messages again, the first one ends the break.       *)
Resent(st) ==
  LET lv == Folded(st.live)
      refused == {k \in DOMAIN lv.waiting : /\ ~IsBarrier(lv.waiting[k])
                                            /\ lv.waiting[k].state = "refused"}
      again == Picked(lv.waiting, refused)
      ops == [k \in DOMAIN again |-> [again[k].op EXCEPT !.restart = @ \/ k = 1]]
      waits == [k \in DOMAIN lv.waiting |->
                  IF k \in refused THEN [lv.waiting[k] EXCEPT !.state = "waiting"]
                  ELSE lv.waiting[k]]
  IN [st EXCEPT !.live = [lv EXCEPT !.rewind = FALSE, !.waiting = waits],
                !.out = HandedOff(@, ops)]

(* An older write would go again over a newer one of the same message.     *)
Overtaken(lv) ==
  \E m, n \in Messages(lv) :
    /\ m.number < n.number /\ m.op.into = n.op.into /\ m.op.into # 0
    /\ m.state = "refused" /\ n.state = "accepted"

(* drain_stream.                                                           *)
Drain ==
  /\ left = "draining"
  /\ \/ /\ Settled(live)
        /\ left' = "settled"
        /\ UNCHANGED <<live, out, topic, resends, fate>>
     \/ /\ Stuck(live) /\ resends >= MaxResends
        /\ left' = "givenUp"
        /\ UNCHANGED <<live, out, topic, resends, fate>>
     \/ /\ Stuck(live) /\ resends < MaxResends
        /\ resends' = resends + 1
        /\ Becomes(Resent(St))
        /\ fate' = [fate EXCEPT !.stale = @ \/ Overtaken(live)]
        /\ UNCHANGED left
  /\ UNCHANGED <<plan, written, stopped, agent, asks, offset, used>>

(* The hub stops and starts again: only the registry is kept.              *)
HubRestart ==
  /\ left = "no" /\ Goes("restart")
  /\ live' = NewLive(offset)
  /\ out' = [queue |-> <<>>, broken |-> FALSE, done |-> {}]
  /\ agent' = 0 /\ asks' = <<>>
  /\ fate' = [fate EXCEPT
                !.apart = @ \cup {a.answer : a \in InStream(live)},
                !.lapsed = @ \/ live.ends # <<>> \/ live.unpaired # <<>> \/ live.answeredEnds # {}
                           \/ \E m \in Messages(live) : m.answer # <<>>]
  /\ UNCHANGED <<plan, written, stopped, offset, topic, left, resends>>

----------------------------------------------------------------------------
Send ==
  \E k \in DOMAIN out.queue : \E joined \in {{}, Joins(k)} :
    Taken(k, joined) \/ EditGone(k, joined) \/ Refused(k, joined) \/ Failed(k, joined)

Chunk == \E to \in 0 .. Len(Script), more, status \in BOOLEAN : OnChunk(to, more, status)

Results == \E r \in out.done : OnStreamSent(r)

Next ==
  \/ Stop \/ AgentGoes \/ AgentComes
  \/ HoldOver \/ ReadForgotten \/ AskRead \/ Chunk \/ OtherPost
  \/ Send \/ DeleteMessage \/ Results
  \/ Leave \/ Drain \/ HubRestart

Spec == Init /\ [][Next]_streamVars

(* A due read is asked, a read is answered, a queued message is tried and  *)
(* its answer reaches the actor.  Each is stated by what it hands on: the  *)
(* steps that change `asks` or `out` in this way are Chunk, Results, Send. *)
Fairness ==
  /\ WF_streamVars(AskRead) /\ WF_streamVars(ReadForgotten)
  /\ WF_asks(asks # <<>> /\ asks' = Tail(asks))
  /\ WF_out(\E r \in out.done : out' = [out EXCEPT !.done = @ \ {r}])
  /\ WF_out(\E k \in DOMAIN out.queue : \E joined \in {{}, Joins(k)} :
              /\ Sending(k, joined)
              /\ \/ Replied(k, joined, "sent", 0, "merged")
                 \/ Replied(k, joined, "sent", Len(topic) + 1, "merged")
                 \/ Replied(k, joined, "gone", 0, "unsent"))

FairSpec == Spec /\ Fairness

----------------------------------------------------------------------------
(* Properties.                                                             *)

AnswerType == [answer : Ends, end : Nat, gone : BOOLEAN]

OpenType == [key : Nat, number : Nat, text : Seq(Line)]

TypeOK ==
  /\ {written, stopped} \subseteq 0 .. Len(Script) /\ agent \in Nat
  /\ \A n \in DOMAIN asks : asks[n].from <= asks[n].len /\ asks[n].len <= written
  /\ live.reading \in Nat /\ live.readAt \in 0 .. written
  /\ live.answeredEnds \cup ToSet(live.ends) \cup ToSet(live.unpaired) \subseteq Ends
  /\ InStream(live) \subseteq AnswerType
  /\ {live.open, live.committed} \subseteq OpenType
  /\ \A m \in Messages(live) : m.state \in {"waiting", "accepted", "refused"}
  /\ Unanswered(live) = Len(out.queue) + Cardinality(out.done)
  /\ topic \in Seq(Seq(Line \cup {0}))
  /\ left \in {"no", "draining", "settled", "givenUp"} /\ resends \in 0 .. MaxResends

(* A line is never skipped: what lies before the offset a restart or a     *)
(* rewind reads from was shown, or was refused or deleted for good, unless *)
(* a session that left sent an older write again over a newer one.         *)
NothingSkipped ==
  fate.stale \/ \A i \in Pieces : i <= offset.to => InTopic(i) \/ i \in fate.skipped

(* A rewind, a claimed turn end and an early answer neither lose an answer *)
(* nor show it twice: one the Stop hook brought is in the topic, or the    *)
(* stream still has it, unless it went apart from it or Telegram refused   *)
(* it for good.                                                            *)
AnswersKept ==
  \A e \in Ends :
    /\ Cardinality({m \in DOMAIN topic : e \in ToSet(topic[m])}) <= 1
    /\ e <= stopped => \/ InTopic(e) \/ e \in fate.skipped \cup fate.apart
                      \/ e \in {a.answer : a \in InStream(live)}
                      \/ left = "givenUp"

(* Turn ends and answers may be paired one off: a Stop came long after its *)
(* turn end, or without a reader, or a late read was taken for a newer one,*)
(* or a restart of the hub forgot which turn ends have their answer.       *)
PairingLost == fate.lapsed \/ fate.apart # {} \/ used["late"] > 0

(* An answer that did not run out of its time gets into the topic behind   *)
(* the lines of its turn, refused or not; only a write into a message      *)
(* above, which has a queue of its own, may still be on its way, and after *)
(* a break that a queued restart ended (LaterLineWaits) nothing is         *)
(* promised.                                                               *)
NoAnswerAhead ==
  PairingLost \/ fate.mended \/ \A r \in fate.ahead : r.answer \in fate.early

(* Nothing is written into a message above an answer, after a rewind to    *)
(* any barrier neither.                                                    *)
NothingAboveAnswer ==
  left = "no" => \A open \in Opens(live) :
    open.key # 0 =>
      \A m \in open.key + 1 .. Len(topic) : ToSet(topic[m]) \cap Ends = {}

(* An answer stands where it belongs.                                      *)
AnswerInPlace == NoAnswerAhead /\ NothingAboveAnswer

(* What the module comment of scheduler.rs says of a break: a later line   *)
(* never shows before the one the stream sends again.                      *)
LaterLineWaits ==
  \A m, n \in {x \in Messages(live) : x.op.into = 0} :
    m.state = "refused" /\ m.number < n.number
      => ~(n.state = "accepted" /\ InTopic(Head(n.op.text)))

(* While the session keeps its slot and its agent, every line is shown in  *)
(* the end: no refusal leaves the stream waiting for ever.                 *)
AllShown ==
  \A i \in Pieces : i <= written => InTopic(i) \/ i \in fate.skipped

EventuallyShown ==
  []<>(agent = 0 \/ left # "no") \/ <>[]AllShown
=============================================================================
