-------------------------- MODULE MessageDelivery --------------------------
(* How a message people write in a topic reaches the session of its slot   *)
(* (hub/updates.rs, offset.rs, buffer.rs, fetch.rs and the inbound half of *)
(* hub/slots.rs): polled with a saved offset, kept in the buffer of the    *)
(* slot, gathered into bursts, heard, compressed or fetched first where it *)
(* has to be, and handed to the agent of the session that runs.            *)
(*                                                                         *)
(* The actor is one task: an event, the flush of the slot and the rest of  *)
(* pump are one step.  What the actor asked others for (a download, words  *)
(* of a voice message, a summary, the Resume message) answers later, in    *)
(* any order.  One slot stands for all: they share the download task only. *)
(***************************************************************************)
EXTENDS Integers, FiniteSets, FiniteSetsExt, Sequences, SequencesExt

CONSTANTS
  Count,        (* bound of the messages people write                       *)
  Plans,        (* their kinds, in their order                              *)
  MaxBuffered,  (* MAX_BUFFERED                                             *)
  MaxBurst,     (* texts of one inbound (MAX_GATHER_BYTES)                  *)
  MaxLosses,    (* MAX_LINK_LOSSES                                          *)
  QueueMax,     (* room of a link's queue (TO_AGENT_QUEUE)                  *)
  FileLinks,    (* whether agents take files: the values a link may have    *)
  MaxConns,     (* bound of the links                                       *)
  MaxRuns,      (* bound of the sessions of the slot                        *)
  MaxFaults     (* bound of lost links, ended sessions and crashes          *)

ASSUME DeliveryAssumption ==
  /\ {Count, MaxBuffered, MaxBurst, MaxLosses, QueueMax, MaxRuns} \subseteq Nat \ {0}
  /\ {MaxConns, MaxFaults} \subseteq Nat
  /\ MaxBuffered > 1
  /\ FileLinks \subseteq BOOLEAN
  /\ \A p \in Plans : /\ Len(p) <= Count
                      /\ ToSet(p) \subseteq {"text", "file", "voice", "mention", "command"}

VARIABLES
  plan,      (* the kinds of the messages                                   *)
  offset,    (* of the next getUpdates                                      *)
  savedOffset,
  inbox,     (* messages routed to the actor                                *)
  slot,      (* the Buffer of the slot                                      *)
  disk,      (* the Buffer in registry.json                                 *)
  actor,     (* what the actor keeps in memory only                         *)
  fetch,     (* the download of the slot's front file, and its outcome      *)
  session,   (* the session of the slot: run, alive, its agent's link       *)
  link,      (* the newest link: out is what it took for the session        *)
  flight,    (* Resume messages being sent                                  *)
  buttons,   (* those Telegram shows, and what became of their buttons      *)
  faults,
  taken,     (* how often each message was taken                            *)
  handed, told  (* messages the session's agent got; that left with a notice *)

vars == <<plan, offset, savedOffset, inbox, slot, disk, actor, fetch, session,
          link, flight, buttons, faults, taken, handed, told>>

Message == 1 .. Count

NoMessage == 0

(* A Resume message: which send, the session it names, Telegram's id.      *)
NoPost == [number |-> 0, run |-> 0, id |-> 0]

NoNote == [number |-> 0, run |-> 0, message |-> NoPost]

(* sent: how many went to Telegram; shown: those whose button shows, since *)
(* the answer or the crash that left them without; edits: handed off to    *)
(* take a button (one that fails stays); lost: shown ones whose id the hub *)
(* never got or has not saved.                                             *)
NoButtons == [sent |-> 0, shown |-> {}, edits |-> {}, lost |-> {}]

EmptyBuffer ==
  [messages |-> <<>>, overflow_told |-> FALSE, queued_told |-> FALSE, resume |-> NoNote]

NoGather == [start |-> NoMessage, due |-> FALSE]

NewActor == [hearing |-> {}, showing |-> {}, compressing |-> NoMessage, gather |-> NoGather,
             losses |-> <<NoMessage, 0>>, resume_sends |-> 0]

NoFetch == [msg |-> NoMessage, conn |-> 0, outcome |-> "none"]

NoLink == [conn |-> 0, open |-> FALSE, files |-> FALSE, queued |-> 0, out |-> <<>>]

Init ==
  /\ plan \in Plans
  /\ offset = 1 /\ savedOffset = 1 /\ inbox = <<>>
  /\ slot = EmptyBuffer /\ disk = EmptyBuffer
  /\ actor = NewActor /\ fetch = NoFetch
  /\ session = [run |-> 1, alive |-> TRUE, conn |-> 0]
  /\ link = NoLink
  /\ flight = {} /\ buttons = NoButtons /\ faults = 0
  /\ taken = [m \in Message |-> 0] /\ handed = {} /\ told = {}

----------------------------------------------------------------------------
(* Flushing the slot.  An operator takes what a step changes, x, and gives *)
(* it changed.                                                             *)

Now == [slot |-> slot, actor |-> actor, fetch |-> fetch, link |-> link,
        flight |-> flight, buttons |-> buttons, handed |-> handed, told |-> told, blocked |-> FALSE]

Becomes(x) ==
  /\ slot' = x.slot /\ actor' = x.actor /\ fetch' = x.fetch /\ link' = x.link
  /\ flight' = x.flight /\ buttons' = x.buttons /\ handed' = x.handed /\ told' = x.told

Blocked(x) == [x EXCEPT !.blocked = TRUE]

Live(s) == s.alive /\ s.conn # 0

Fits(x) == x.link.open /\ x.link.queued < QueueMax

Handed(x, ids) == [x EXCEPT !.link.queued = @ + 1, !.link.out = @ \o ids,
                            !.handed = @ \cup ToSet(ids)]

Told(x, m) == [x EXCEPT !.told = @ \cup {m}]

(* The first n messages left the slot; the burst is out once no text of it *)
(* is at the front.                                                        *)
Drained(x, n) ==
  LET rest == SubSeq(x.slot.messages, n + 1, Len(x.slot.messages))
  IN  [x EXCEPT !.slot.messages = rest,
                !.actor.gather = IF rest = <<>> \/ Head(rest).file THEN NoGather ELSE @]

Ids(parts) == [i \in DOMAIN parts |-> parts[i].id]

(* The texts at the front that go as one inbound.                          *)
Burst(msgs) ==
  LET fits(n) == \A i \in 1 .. n : ~msgs[i].file /\ (i > 1 => msgs[i].history # "pending")
  IN  Max({ n \in 1 .. Min({Len(msgs), MaxBurst}) : fits(n) })

BeforeBurst(x) ==
  LET at == { i \in DOMAIN x.slot.messages : x.slot.messages[i].id = x.actor.gather.start }
  IN  at # {} /\ at # {1}

TextStep(x) ==
  LET msgs == x.slot.messages
      g == x.actor.gather
      n == IF g = NoGather \/ BeforeBurst(x) THEN 1 ELSE Burst(msgs)
      waits == g # NoGather /\ ~BeforeBurst(x) /\ ~g.due
  IN  IF waits \/ ~Fits(x) THEN Blocked(x)
      ELSE Drained(Handed(x, Ids(SubSeq(msgs, 1, n))), n)

HasWords(p) == p.voice = "heard" \/ p.history # "none"

(* A file goes to the download task and waits in the slot meanwhile.  An   *)
(* agent that takes none gets its words.                                   *)
FileStep(x) ==
  LET p == Head(x.slot.messages)
  IN  IF x.fetch # NoFetch \/ (~x.link.files /\ HasWords(p) /\ ~Fits(x)) THEN Blocked(x)
      ELSE IF ~x.link.files
           THEN Drained(Told(IF HasWords(p) THEN Handed(x, <<p.id>>) ELSE x, p.id), 1)
      ELSE IF ~x.link.open THEN Blocked(x)
      ELSE Blocked([x EXCEPT !.fetch = [msg |-> p.id, conn |-> x.link.conn, outcome |-> "running"]])

(* The state of a voice message still pending in the slot.                 *)
SetVoice(x, m, state) ==
  [x EXCEPT !.slot.messages =
     [i \in DOMAIN @ |-> IF @[i].id = m /\ @[i].voice = "pending"
                         THEN [@[i] EXCEPT !.voice = state] ELSE @[i]]]

(* Mutant of VoiceStep: a voice message always waits for its words.        *)
VoiceWaits(x, m) == Blocked(x)

(* A voice message waits for its words, unless its recognition was lost.   *)
VoiceStep(x, m) == IF m \in x.actor.hearing THEN Blocked(x) ELSE SetVoice(x, m, "unheard")

(* The front message is tried once.                                        *)
Tried(x) ==
  IF x.blocked \/ x.slot.messages = <<>> THEN x
  ELSE LET p == Head(x.slot.messages)
       IN  IF p.history = "pending"
           THEN Blocked([x EXCEPT !.actor.compressing = IF @ = NoMessage THEN p.id ELSE @])
           ELSE IF p.voice = "pending"
                THEN VoiceStep(x, p.id)
           ELSE IF p.id \in x.actor.showing THEN Blocked(x)
           ELSE IF p.file THEN FileStep(x)
           ELSE TextStep(x)

(* The one edit that is to take the button of Resume message p.            *)
ButtonDropped(x, p) == [x EXCEPT !.buttons.edits = @ \cup ({p} \ {NoPost})]

(* An emptied buffer ends the offline period.                              *)
Closed(x) == ButtonDropped([x EXCEPT !.slot = EmptyBuffer], x.slot.resume.message)

(* The front messages are tried until one blocks.                          *)
Tries(x, n) ==
  LET tried[i \in 0 .. n] == IF i = 0 THEN x ELSE Tried(tried[i - 1])
  IN  tried[n]

Flushed(s, x) ==
  IF ~Live(s) THEN [x EXCEPT !.actor.gather = NoGather]
  ELSE LET y == Tries([x EXCEPT !.blocked = FALSE], 2 * Len(x.slot.messages))
       IN  IF y.slot.messages = <<>> THEN Closed(y) ELSE y

(* A dead slot with kept messages gets one Resume message per period.      *)
Offered(s, x) ==
  IF x.slot.messages = <<>> \/ x.slot.resume # NoNote \/ s.alive THEN x
  ELSE LET n == x.actor.resume_sends + 1
           id == x.buttons.sent + 1
       IN  [x EXCEPT !.actor.resume_sends = n,
                     !.slot.resume = [NoNote EXCEPT !.number = n, !.run = s.run],
                     !.buttons.sent = id,
                     !.flight = @ \cup {[number |-> n, run |-> s.run, id |-> id]}]

Pumped(s, x) == Offered(s, IF x.slot.messages = <<>> THEN x ELSE Flushed(s, x))

----------------------------------------------------------------------------
(* From Telegram to the actor.                                             *)

(* Mutant of OffsetOf: the offset the batch was asked with is saved.       *)
OffsetOfCall(batch) == offset

(* The offset saved before the batch is handed out.                        *)
OffsetOf(batch) == Last(batch) + 1

(* getUpdates brings what people wrote up to now, message n (and confirms  *)
(* what is below its offset); the new offset is saved before the batch is  *)
(* routed.                                                                 *)
Poll(n) ==
  LET batch == [i \in 1 .. (n + 1 - offset) |-> offset + i - 1]
  IN  /\ offset <= n /\ n <= Len(plan)
      /\ offset' = n + 1
      /\ savedOffset' = OffsetOf(batch)
      /\ inbox' = inbox \o batch
      /\ UNCHANGED <<plan, slot, disk, actor, fetch, session, link, flight, buttons, faults,
                     taken, handed, told>>

(* A text joins the burst of a live session, or starts one.                *)
Gathered(x, m) ==
  IF Live(session) /\ x.actor.gather = NoGather
  THEN [x EXCEPT !.actor.gather = [start |-> m, due |-> FALSE]] ELSE x

EndedGather(x) == [x EXCEPT !.actor.gather.due = x.actor.gather # NoGather]

(* Which message of a full buffer goes: never the file on its way.         *)
Dropped(x) == IF x.fetch # NoFetch THEN 2 ELSE 1

(* Mutant of Full: one message more than the buffer keeps.                 *)
FullBeyond(x) == Len(x.slot.messages) > MaxBuffered

Full(x) == Len(x.slot.messages) >= MaxBuffered

Parked(x, p) ==
  LET gone == Dropped(x)
      y == IF Full(x) THEN [Told(x, x.slot.messages[gone].id) EXCEPT
                           !.slot.messages = RemoveAt(@, gone), !.slot.overflow_told = TRUE]
                   ELSE x
  IN  [y EXCEPT !.slot.messages = Append(@, p),
                !.slot.queued_told = @ \/ (session.alive /\ session.conn = 0)]

Kept(m, asked) ==
  [id |-> m, file |-> plan[m] \in {"file", "voice"},
   voice |-> IF plan[m] # "voice" THEN "none" ELSE IF asked THEN "pending" ELSE "unheard",
   history |-> IF plan[m] = "mention" THEN "pending" ELSE "none"]

(* on_topic_message, take_in.  asked: the recognition takes the voice      *)
(* message.                                                                *)
TakeIn(asked) ==
  /\ inbox # <<>>
  /\ LET m == Head(inbox)
         p == Kept(m, asked)
         x == IF p.file \/ plan[m] = "command" THEN EndedGather(Now) ELSE Gathered(Now, m)
         y == IF p.voice = "pending" THEN [x EXCEPT !.actor.hearing = @ \cup {m}] ELSE x
     IN  /\ plan[m] # "voice" => asked
         /\ IF plan[m] = "command"
            THEN Becomes(Pumped(session, Told(Flushed(session, y), m)))
            ELSE Becomes(Pumped(session, Flushed(session, Parked(y, p))))
         /\ taken' = [taken EXCEPT ![m] = @ + 1]
  /\ inbox' = Tail(inbox)
  /\ UNCHANGED <<plan, offset, savedOffset, disk, session, faults>>

----------------------------------------------------------------------------
(* What the actor waited for.                                              *)

others == <<plan, offset, savedOffset, inbox, disk, session, faults, taken>>

(* on_voice, expire_voices: words, whose post is being sent, or none.      *)
OnVoice(m, words) ==
  /\ m \in actor.hearing
  /\ LET x == [Now EXCEPT !.actor.hearing = @ \ {m}]
         y == IF words THEN [SetVoice(x, m, "heard") EXCEPT !.actor.showing = @ \cup {m}]
              ELSE SetVoice(x, m, "unheard")
     IN  Becomes(Pumped(session, Flushed(session, y)))
  /\ UNCHANGED others

(* on_heard, expire_voices: Telegram showed the words, or did not answer.  *)
OnHeard(m) ==
  /\ m \in actor.showing
  /\ Becomes(Pumped(session, Flushed(session, [Now EXCEPT !.actor.showing = @ \ {m}])))
  /\ UNCHANGED others

(* history_ready: the summary, or the cut history when the read failed.    *)
HistoryReady ==
  /\ actor.compressing # NoMessage
  /\ Becomes(Pumped(session,
       [Now EXCEPT !.actor.compressing = NoMessage,
          !.slot.messages = [i \in DOMAIN @ |->
             IF @[i].id = actor.compressing THEN [@[i] EXCEPT !.history = "ready"] ELSE @[i]]]))
  /\ UNCHANGED others

GatherDue ==
  /\ actor.gather # NoGather /\ ~actor.gather.due
  /\ Becomes(Pumped(session, [Now EXCEPT !.actor.gather.due = TRUE]))
  /\ UNCHANGED others

(* on_tick: the kept messages try their link again.                        *)
Tick == Becomes(Pumped(session, Now)) /\ UNCHANGED others

(* The download task: the file fails, meets a closed link, or all of it is *)
(* in the queue of its link (a replaced one may still take it).            *)
Download ==
  /\ fetch.outcome = "running"
  /\ LET current == fetch.conn = link.conn
     IN  \/ fetch' = [fetch EXCEPT !.outcome = "failed"] /\ UNCHANGED <<link, handed>>
         \/ /\ ~(current /\ link.open)
            /\ fetch' = [fetch EXCEPT !.outcome = "closed"] /\ UNCHANGED <<link, handed>>
         \/ /\ current => Fits(Now)
            /\ fetch' = [fetch EXCEPT !.outcome = "handed"]
            /\ IF current THEN link' = Handed(Now, <<fetch.msg>>).link ELSE UNCHANGED link
            /\ UNCHANGED handed
  /\ UNCHANGED <<slot, actor, flight, buttons, told, others>>

(* Mutant of Stays: a file handed to a link that is no longer the slot's   *)
(* agent leaves the slot.                                                  *)
StaysUnlessHanded(losses) == fetch.outcome = "closed" /\ losses < MaxLosses

(* The file waits in the slot for the next agent.                          *)
Stays(losses) ==
  \/ fetch.outcome = "handed" /\ ~(Live(session) /\ session.conn = fetch.conn)
  \/ fetch.outcome = "closed" /\ losses < MaxLosses

OnFetched ==
  /\ fetch.outcome \notin {"none", "running"}
  /\ LET m == fetch.msg
         losses == IF actor.losses[1] = m THEN actor.losses[2] + 1 ELSE 1
         x == [Now EXCEPT !.fetch = NoFetch]
         y == [x EXCEPT !.actor.losses = <<NoMessage, 0>>]
         p == Head(slot.messages)
         Own == IF session.conn = fetch.conn THEN {m} ELSE {}
         z == IF fetch.outcome = "handed"
              THEN [y EXCEPT !.slot.messages = Tail(@), !.handed = @ \cup Own]
              ELSE IF HasWords(p) THEN [y EXCEPT !.slot.messages[1].file = FALSE]
              ELSE [Told(y, m) EXCEPT !.slot.messages = Tail(@)]
     IN  IF Stays(losses)
         THEN Becomes(Pumped(session, Flushed(session,
                [x EXCEPT !.actor.losses = IF fetch.outcome = "closed" THEN <<m, losses>> ELSE @])))
         ELSE IF slot.messages = <<>> \/ p.id # m THEN Becomes(Pumped(session, y))
         ELSE Becomes(Pumped(session, Flushed(session, z)))
  /\ UNCHANGED others

(* Mutant of Answers: any note without a message takes the answer.         *)
AnswersAny(note, f) == note # NoNote /\ note.message = NoPost

Answers(note, f) == note # NoNote /\ note.number = f.number /\ note.message = NoPost

(* on_resume_done: the id is kept, or the button of a period that is over  *)
(* is to go now.  Telegram may show the message and its id not come.       *)
OnResumeDone(f, answer) ==
  /\ f \in flight
  /\ LET x == [Now EXCEPT !.flight = @ \ {f}]
         y == [x EXCEPT !.buttons.shown = @ \cup {f}]
     IN  \/ answer = "failed" /\ Becomes(Pumped(session, x))
         \/ /\ answer = "shown"
            /\ Becomes(Pumped(session, [y EXCEPT !.buttons.lost = @ \cup {f}]))
         \/ /\ answer = "id" /\ Answers(slot.resume, f)
            /\ Becomes(Pumped(session, [y EXCEPT !.slot.resume.message = f]))
         \/ /\ answer = "id" /\ ~Answers(slot.resume, f)
            /\ Becomes(Pumped(session, ButtonDropped(y, f)))
  /\ UNCHANGED others

(* Telegram takes a button; the hub asks for nothing about it any more.    *)
ButtonEdited(p) ==
  /\ p \in buttons.edits
  /\ buttons' = [buttons EXCEPT !.shown = @ \ {p}, !.edits = @ \ {p}]
  /\ UNCHANGED <<slot, actor, fetch, link, flight, handed, told, others>>

----------------------------------------------------------------------------
(* Links, sessions and the hub itself.                                     *)

(* The agent writes a line of its queue to the wire.                       *)
Send ==
  /\ link.open /\ link.queued > 0
  /\ link' = [link EXCEPT !.queued = @ - 1]
  /\ UNCHANGED <<slot, actor, fetch, flight, buttons, handed, told, others>>

Elsewhere == <<plan, offset, savedOffset, inbox, disk, taken>>

Bound(s, x) == session' = s /\ Becomes(Pumped(s, x)) /\ UNCHANGED Elsewhere

Fault == faults < MaxFaults /\ faults' = faults + 1

(* A new link of the running session replaces the one it had.              *)
Connect(files) ==
  /\ session.alive /\ link.conn < MaxConns
  /\ Bound([session EXCEPT !.conn = link.conn + 1],
           [Now EXCEPT !.link = [NoLink EXCEPT !.conn = link.conn + 1, !.open = TRUE, !.files = files]])
  /\ UNCHANGED faults

(* The link ends; the actor hears of it later.                             *)
Lose ==
  /\ link.open /\ Fault
  /\ link' = [link EXCEPT !.open = FALSE, !.queued = 0]
  /\ UNCHANGED <<slot, actor, fetch, session, flight, buttons, handed, told, Elsewhere>>

Disconnected ==
  /\ session.conn # 0 /\ ~link.open
  /\ Bound([session EXCEPT !.conn = 0], Now)
  /\ UNCHANGED faults

End ==
  /\ session.alive /\ Fault
  /\ Bound([session EXCEPT !.alive = FALSE], Now)

(* Another session in the slot: of the same process, or of a new one.      *)
Begin(conn) ==
  /\ session.run < MaxRuns
  /\ conn \in {0, session.conn}
  /\ Bound([run |-> session.run + 1, alive |-> TRUE, conn |-> conn], [Now EXCEPT !.link.out = <<>>])
  /\ UNCHANGED faults

(* save_loop, which writes the newest snapshot when it comes round (nobody *)
(* reads it after the last fault).                                         *)
Save ==
  /\ disk # slot /\ faults < MaxFaults
  /\ disk' = slot
  /\ UNCHANGED <<plan, offset, savedOffset, inbox, slot, actor, fetch, session,
                 link, flight, buttons, faults, taken, handed, told>>

(* The hub ends and starts again; one that stops saves first.  A Resume    *)
(* message or an edit that was out may reach Telegram or not; the hub      *)
(* knows the button of the saved note only.                                *)
Crash ==
  /\ Fault
  /\ offset' = savedOffset
  /\ inbox' = <<>> /\ slot' = disk /\ actor' = NewActor /\ fetch' = NoFetch /\ flight' = {}
  /\ session' = [session EXCEPT !.conn = 0]
  /\ link' = [link EXCEPT !.open = FALSE, !.queued = 0]
  /\ \E posted \in SUBSET flight, edited \in SUBSET buttons.edits :
       LET shown == (buttons.shown \cup posted) \ edited
       IN  buttons' = [buttons EXCEPT !.shown = shown, !.edits = {},
                                      !.lost = shown \ {disk.resume.message}]
  /\ UNCHANGED <<plan, savedOffset, disk, taken, handed, told>>

Next ==
  \/ (\E n \in Message : Poll(n)) \/ (\E asked \in BOOLEAN : TakeIn(asked))
  \/ (\E m \in Message, words \in BOOLEAN : OnVoice(m, words))
  \/ (\E m \in Message : OnHeard(m))
  \/ HistoryReady \/ GatherDue \/ Tick \/ Download \/ OnFetched
  \/ (\E f \in flight, answer \in {"id", "shown", "failed"} : OnResumeDone(f, answer))
  \/ (\E p \in buttons.edits : ButtonEdited(p))
  \/ Send \/ (\E files \in FileLinks : Connect(files)) \/ Lose \/ Disconnected
  \/ End \/ (\E conn \in 0 .. MaxConns : Begin(conn)) \/ Save \/ Crash

Spec == Init /\ [][Next]_vars

----------------------------------------------------------------------------
(* Properties.                                                             *)

TypeOK ==
  /\ plan \in Plans
  /\ {offset, savedOffset} \subseteq 1 .. Count + 1
  /\ ToSet(inbox) \subseteq Message
  /\ \A b \in {slot, disk} : /\ Len(b.messages) <= MaxBuffered
                             /\ ToSet(Ids(b.messages)) \subseteq Message
                             /\ {b.overflow_told, b.queued_told} \subseteq BOOLEAN
  /\ fetch.outcome \in {"none", "running", "failed", "closed", "handed"}
  /\ session.conn \in {0, link.conn} /\ session.run \in 1 .. MaxRuns
  /\ link.conn \in 0 .. MaxConns /\ link.queued \in 0 .. QueueMax
  /\ actor.hearing \cup actor.showing \cup handed \cup told \subseteq Message

(* A session gets the messages of its topic in their order and none twice  *)
(* by the same link, whatever was gathered, heard, compressed or fetched   *)
(* meanwhile; and none is taken from Telegram a second time, whenever the  *)
(* hub ends: the offset past it is on disk before.                         *)
InOrderOnce ==
  /\ \A i, j \in DOMAIN link.out : i < j => link.out[i] < link.out[j]
  /\ \A m \in Message : taken[m] <= 1

(* No Resume button is forgotten, and none goes too early, whenever the    *)
(* answers come: a button that shows is the one the open period keeps, or  *)
(* the hub asked once to take it, or its id is lost to the hub (no answer  *)
(* with it, or a crash before it was saved).  The message the open period  *)
(* keeps names the session that ended in it, and no edit is out for it.    *)
ButtonsGo ==
  /\ buttons.shown \subseteq {slot.resume.message} \cup buttons.edits \cup buttons.lost
  /\ slot.resume.message.run = slot.resume.run \/ slot.resume.message = NoPost
  /\ slot.resume.message \notin buttons.edits

Held(m) == m \in ToSet(Ids(slot.messages))

Served == Live(session) /\ session.conn = link.conn /\ link.open

(* No kept message is stuck: while the agent of the session is there, the  *)
(* front waits for something that ends by itself (a burst, words, their    *)
(* post, a summary, a download, room in the queue), or the next pump moves *)
(* it.                                                                     *)
NothingStuck ==
  Served /\ slot.messages # <<>> =>
    LET m == Head(slot.messages).id
    IN  \/ m \in actor.hearing \cup actor.showing
        \/ actor.compressing # NoMessage \/ fetch # NoFetch
        \/ actor.gather # NoGather /\ ~actor.gather.due
        \/ link.queued > 0
        \/ Pumped(session, Now).slot # slot

(* The hub keeps the messages it took (KeptMessages).                      *)
StatusOf(m) ==
  IF m \in ToSet(inbox) \/ Held(m) THEN "kept"
  ELSE IF m >= offset THEN "new"
  ELSE IF m \in handed THEN "handed"
  ELSE IF m \in told THEN "told" ELSE "lost"

Keeping == INSTANCE KeptMessages WITH
  status <- [m \in Message |-> StatusOf(m)],
  saved  <- { m \in Message : m \in ToSet(Ids(disk.messages)) }

KeepsMessages == Keeping!Spec
=============================================================================
