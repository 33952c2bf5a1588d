------------------------------- MODULE Outbox -------------------------------
(***************************************************************************)
(* The scheduler of one chat (hub/scheduler.rs): every Bot API write into  *)
(* the chat waits in one of three lanes, one request is out at a time, and *)
(* each pick weighs prompts, new messages, edits and topic calls against   *)
(* the token buckets.  The limits are those of Limits::default and         *)
(* Limits::private: every bucket is there and the debounce is on.          *)
(*                                                                         *)
(* Texts are the numbers of the jobs that brought them.  Times are left    *)
(* out: a bucket gains a token, a pause ends and a debounce runs out in    *)
(* steps of their own, at any time.  Callback answers have a scheduler of  *)
(* their own (Outbox::per_chat).                                           *)
(***************************************************************************)
EXTENDS Integers, FiniteSets, Sequences, SequencesExt, FiniteSetsExt

CONSTANTS
  Place,         (* topics of the chat                                      *)
  Message,       (* messages that are there already                         *)
  None,          (* no place, no message                                    *)
  Workloads,     (* what the hub may submit in one run                      *)
  Capacity,      (* BucketConfig.capacity of each bucket                    *)
  MaxUnmetered,  (* MAX_CONSECUTIVE_UNMETERED                               *)
  MaxText        (* lines that fit TELEGRAM_TEXT_LIMIT                      *)

Bucket == {"messages", "edits", "group"}

OpRecord == [kind : {"send", "line", "edit", "react", "create", "topic"},
             place : Place \cup {None}, msg : Message \cup {None},
             prompt : BOOLEAN, status : BOOLEAN, merge : BOOLEAN,
             restart : BOOLEAN, loud : BOOLEAN, background : BOOLEAN,
             form : {"rich", "html", "plain"}, before : Nat]

IsLine(o) == o.kind = "line"

(* metered: a new message.                                                 *)
Metered(o) == o.kind \in {"send", "line"} /\ o.msg = None

(* A line written into a message that is there (Op::Stream::into).         *)
Into(o) == IsLine(o) /\ o.msg # None

(* What the variants of Op carry: a place is that of a new message or a    *)
(* line, only a Send is a prompt, only a Send or an Edit has a LiveText,   *)
(* and a text of several messages (Rich::before) does not merge.           *)
Op == { o \in OpRecord :
          /\ (o.place # None) = (o.kind \in {"send", "line"})
          /\ o.kind \in {"edit", "react"} => o.msg # None
          /\ o.msg # None => o.kind \in {"line", "edit", "react"}
          /\ o.merge \/ o.restart => IsLine(o)
          /\ o.prompt => o.kind = "send"
          /\ o.status => o.kind \in {"send", "edit"}
          /\ o.before > 0 => Metered(o) /\ ~o.merge }

(* A workload bounds the submitted jobs and the requests Telegram does not *)
(* take.  A message is in one topic.                                       *)
ASSUME OutboxAssumption ==
  /\ \A w \in Workloads :
       /\ w.ops \subseteq Op /\ {w.jobs, w.faults} \subseteq Nat
       /\ \A o, p \in w.ops : Into(o) /\ Into(p) /\ o.msg = p.msg => o.place = p.place
  /\ {Capacity, MaxUnmetered, MaxText} \subseteq Nat \ {0}
  /\ None \notin Place \cup Message

VARIABLES
  work,          (* the workload of this run                                *)
  submitted,     (* every op handed over, in order                          *)
  cancelled,     (* LiveText::cancelled                                     *)
  inbox,         (* rx: jobs handed over while a request is out             *)
  q,             (* the lanes, the broken streams and what was answered     *)
  out,           (* the request that is out, if any                         *)
  tokens,        (* of each bucket                                          *)
  paused,        (* paused_until is ahead                                   *)
  unmetered,     (* consecutive_unmetered, up to MaxUnmetered               *)
  sinceRefresh,  (* since_refresh, up to MaxUnmetered                       *)
  topicTurn,     (* topic_turn                                              *)
  log,           (* requests Telegram took, and stream lines that failed    *)
  passed,        (* unmetered requests since a due new message waits        *)
  faults

pace == <<unmetered, sinceRefresh, topicTurn, passed>>
outboxVars == <<work, submitted, cancelled, inbox, q, out, tokens, paused, pace, log, faults>>

Lane(o) == CASE o.kind \in {"send", "line"} -> "message"
             [] o.kind \in {"edit", "react"} -> "edit"
             [] OTHER -> "topic"

(* The order a job of the message lane keeps.                              *)
QueueOf(o) == <<o.place, o.msg>>

Replaces(o, p) == o.kind \in {"edit", "react"} /\ <<o.kind, o.msg>> = <<p.kind, p.msg>>

(* A merge line takes such a line into its message.                        *)
Joins(o, p) == /\ IsLine(o) /\ o.merge /\ IsLine(p) /\ p.merge
               /\ QueueOf(o) = QueueOf(p) /\ o.loud = p.loud

(* `at` is queued_at, `text` the jobs whose text it carries, `reply` and   *)
(* `merged` who waits for its answer, `live` the job whose LiveText it     *)
(* reads, `ripe` says that its debounce ran out.                           *)
Job(n, o) == [op |-> o, at |-> n, text |-> <<n>>, reply |-> n, merged |-> {},
              live |-> IF o.status THEN n ELSE 0, plain |-> FALSE, ripe |-> FALSE]

Waiters(job) == ({job.reply} \cup job.merged) \ {0}

Answered(s, waiters, what) ==
  [s EXCEPT !.answer = [n \in DOMAIN @ |-> IF n \in waiters THEN what ELSE @[n]]]

(* The jobs of a lane without those at the given places.                   *)
Kept(jobs, gone) ==
  FlattenSeq([i \in DOMAIN jobs |-> IF i \in gone THEN <<>> ELSE <<jobs[i]>>])

(* The jobs at the given places of a lane leave it, answered so.           *)
Purged(s, lane, gone, what) ==
  Answered([s EXCEPT ![lane] = Kept(@, gone)],
           UNION {Waiters(s[lane][i]) : i \in gone}, what)

PutBack(s, lane, jobs) == [s EXCEPT ![lane] = jobs \o @]

(***************************************************************************)
(* enqueue                                                                 *)
(***************************************************************************)
(* Mutant of Outdated: nothing queued is looked at.                        *)
NothingOutdated(s, o) == s

(* What a new job takes the place of: queued status messages of a prompt's *)
(* topic, a queued edit of the message a line is written into.             *)
Outdated(s, o) ==
  IF Into(o)
  THEN Purged(s, "edit", {i \in DOMAIN s.edit : s.edit[i].op.kind = "edit"
                                                /\ s.edit[i].op.msg = o.msg}, "superseded")
  ELSE IF o.prompt
  THEN Purged(s, "message", {i \in DOMAIN s.message : s.message[i].live # 0
                                                      /\ s.message[i].op.place = o.place},
              "superseded")
  ELSE s

(* A line that may join starts the debounce of those before it again.      *)
Queued(s, job) ==
  LET woken == [i \in DOMAIN s.message |->
                  [s.message[i] EXCEPT !.ripe = @ /\ ~Joins(s.message[i].op, job.op)]]
  IN IF Lane(job.op) = "message" THEN [s EXCEPT !.message = Append(woken, job)]
                                 ELSE [s EXCEPT ![Lane(job.op)] = Append(@, job)]

(* The newer edit or reaction takes the queued one's place in the lane.    *)
Renewed(old, job) ==
  [old EXCEPT !.text = job.text, !.reply = job.reply, !.live = job.live,
              !.op.background = @ /\ job.op.background]

Coalesced(s, i, job) ==
  Answered([s EXCEPT !.edit[i] = Renewed(@, job)], {s.edit[i].reply}, "superseded")

(* The queued edits or reactions that a new one takes the place of.        *)
Older(s, o) == {i \in DOMAIN s.edit : Replaces(s.edit[i].op, o)}

Enqueue(s, job) ==
  LET o == job.op
  IN CASE IsLine(o) /\ ~o.restart /\ o.place \in s.broken -> Answered(s, {job.reply}, "dropped")
       [] Older(s, o) # {} -> Coalesced(s, Min(Older(s, o)), job)
       [] OTHER -> Queued(Outdated([s EXCEPT !.broken = IF IsLine(o) THEN @ \ {o.place} ELSE @],
                                   o), job)

(***************************************************************************)
(* pick                                                                    *)
(***************************************************************************)
Least(S) == IF S = {} THEN {} ELSE {Min(S)}

MessageReady == tokens["messages"] > 0 /\ tokens["group"] > 0
EditReady == tokens["edits"] > 0 /\ tokens["group"] > 0

(* ready_at: a write into a message takes either token.                    *)
Ready(o) == MessageReady \/ (~Metered(o) /\ EditReady)

(* Mutant of FirstOfQueue: any job that is due may go.                     *)
AnyOfQueue == DOMAIN q.message

FirstOfQueue ==
  {i \in DOMAIN q.message :
     \A k \in 1 .. i - 1 : QueueOf(q.message[k].op) # QueueOf(q.message[i].op)}

(* Mutant of Due: the debounce never runs out by itself.                   *)
DueBehind(i) ==
  LET job == q.message[i]
  IN \/ ~job.op.merge \/ job.plain
     \/ \E k \in i + 1 .. Len(q.message) : /\ QueueOf(q.message[k].op) = QueueOf(job.op)
                                           /\ ~Joins(job.op, q.message[k].op)

(* due: a merge line waits for its debounce, or for one that cannot join.  *)
Due(i) ==
  LET job == q.message[i]
  IN \/ ~job.op.merge \/ job.plain \/ job.ripe
     \/ \E k \in i + 1 .. Len(q.message) : /\ QueueOf(q.message[k].op) = QueueOf(job.op)
                                           /\ ~Joins(job.op, q.message[k].op)

(* next_permission: the oldest prompt with no older message of its topic   *)
(* but stream lines; the topic's first new line goes before it when that   *)
(* is a merge line.                                                        *)
PromptTurn ==
  LET free  == {i \in DOMAIN q.message :
                  /\ q.message[i].op.prompt
                  /\ \A k \in 1 .. i - 1 : \/ q.message[k].op.place # q.message[i].op.place
                                           \/ IsLine(q.message[k].op)}
      lines(i) == Least({k \in 1 .. i - 1 : /\ q.message[k].op.place = q.message[i].op.place
                                            /\ Metered(q.message[k].op)})
  IN UNION {LET held == {k \in lines(i) : q.message[k].op.merge}
            IN IF held = {} THEN {i} ELSE held : i \in Least(free)}

(* next_message                                                            *)
NewMessage == Least({i \in FirstOfQueue : Metered(q.message[i].op) /\ MessageReady /\ Due(i)})

(* Mutant of ForcedMessage: one unmetered request more goes before it.     *)
ForcedLate == {i \in NewMessage : unmetered > MaxUnmetered}

(* After MAX_CONSECUTIVE_UNMETERED other requests a new message goes.      *)
ForcedMessage == {i \in NewMessage : unmetered >= MaxUnmetered}

SpilledContent == Least({i \in FirstOfQueue : Into(q.message[i].op) /\ Ready(q.message[i].op) /\ Due(i)})

(* due_content: a status message turning into turn content, or a turn      *)
(* message growing.                                                        *)
Content(first) ==
  Least({i \in FirstOfQueue : /\ Into(q.message[i].op) /\ EditReady /\ Due(i)
                              /\ q.message[i].op.merge # first})

GroupContent ==
  LET due == NewMessage \cup Content(FALSE)
  IN {i \in due : \A k \in due : q.message[i].at <= q.message[k].at}

(* next_edit without the background edits: topic calls take turns with the *)
(* foreground edits.                                                       *)
ForegroundTurn ==
  LET edits == Least({i \in DOMAIN q.edit : ~q.edit[i].op.background})
      front == IF edits # {} THEN {"edit"} \X edits ELSE {"message"} \X Content(TRUE)
      calls == {"topic"} \X Least({1} \cap DOMAIN q.topic)
  IN IF ~EditReady THEN {} ELSE IF front = {} \/ (calls # {} /\ topicTurn) THEN calls ELSE front

(* pick: the first of these that is not empty.                             *)
Turns == <<
  {"message"} \X {i \in PromptTurn : Ready(q.message[i].op)},
  {"message"} \X ForcedMessage,
  ForegroundTurn,
  {"message"} \X {i \in GroupContent : sinceRefresh < MaxUnmetered},
  {"edit"} \X {i \in {1} : q.edit # <<>> /\ EditReady},
  {"message"} \X GroupContent,
  {"message"} \X SpilledContent >>

Pick == LET turns == Turns
            first == Least({k \in DOMAIN turns : turns[k] # {}})
        IN UNION {turns[k] : k \in first}

(***************************************************************************)
(* dispatch                                                                *)
(***************************************************************************)
(* Mutant of Taken: the limit leaves out the line that is being added.     *)
TakenOver(s, job) ==
  LET same == {i \in DOMAIN s.message : QueueOf(s.message[i].op) = QueueOf(job.op)}
      upto(i) == {k \in same : k <= i}
  IN IF job.plain THEN {}
     ELSE {i \in same : /\ \A k \in upto(i) : Joins(job.op, s.message[k].op)
                        /\ Into(job.op) \/ Len(job.text) + Cardinality(upto(i)) <= MaxText + 1}

(* merge_lines: the lines queued right after a merge line that fit; a      *)
(* later write into the same message carries the earlier one's text.       *)
Taken(s, job) ==
  LET same == {i \in DOMAIN s.message : QueueOf(s.message[i].op) = QueueOf(job.op)}
      upto(i) == {k \in same : k <= i}
  IN IF job.plain THEN {}
     ELSE {i \in same : /\ \A k \in upto(i) : Joins(job.op, s.message[k].op)
                        /\ Into(job.op) \/ Len(job.text) + Cardinality(upto(i)) <= MaxText}

JoinedForm(forms) ==
  CASE forms = {"rich"} -> "rich" [] forms = {"plain"} -> "plain" [] OTHER -> "html"

Joined(s, job, taken) ==
  LET next == Kept(s.message, DOMAIN s.message \ taken)
      texts == FlattenSeq([k \in DOMAIN next |-> next[k].text])
  IN IF taken = {} THEN job
     ELSE [job EXCEPT
             !.text = IF Into(job.op) THEN Last(next).text ELSE @ \o texts,
             !.op.form = IF Into(job.op) THEN Last(next).op.form
                         ELSE JoinedForm({job.op.form} \cup {next[k].op.form : k \in DOMAIN next}),
             !.merged = @ \cup UNION {Waiters(next[k]) : k \in DOMAIN next}]

(* Mutant of Parts: every part answers the sender of the whole text.       *)
PartsAnswering(job) ==
  [k \in 1 .. job.op.before + 1 |->
     [job EXCEPT !.plain = TRUE, !.op.before = 0, !.op.restart = @ /\ k = 1]]

(* lay_out: the earlier messages of a text that does not go rich, as jobs  *)
(* of their own that nobody waits for; the first one is the restart now.   *)
EarlierPart(job, k) ==
  [job EXCEPT !.plain = TRUE, !.reply = 0, !.merged = {}, !.live = 0,
              !.op = [job.op EXCEPT !.before = 0, !.restart = @ /\ k = 1, !.merge = FALSE]]

LastPart(job) ==
  [job EXCEPT !.plain = TRUE, !.op = [@ EXCEPT !.before = 0, !.restart = FALSE]]

Parts(job) ==
  [k \in 1 .. job.op.before + 1 |->
     IF k > job.op.before THEN LastPart(job) ELSE EarlierPart(job, k)]

LaidOut(job) == job.op.form = "rich" \/ job.op.before = 0

(* The job of a pick: a new topic goes before the other topic calls.       *)
Turned(lane, i) ==
  IF lane = "topic" /\ \E k \in DOMAIN q.topic : q.topic[k].op.kind = "create"
  THEN Min({k \in DOMAIN q.topic : q.topic[k].op.kind = "create"})
  ELSE i

Init ==
  /\ work \in Workloads
  /\ submitted = <<>> /\ cancelled = {} /\ inbox = <<>> /\ out = <<>> /\ log = <<>>
  /\ q = [message |-> <<>>, edit |-> <<>>, topic |-> <<>>, broken |-> {},
          answer |-> [n \in 1 .. work.jobs |-> "none"]]
  /\ tokens = [b \in Bucket |-> Capacity]
  /\ paused = FALSE /\ unmetered = 0 /\ sinceRefresh = 0 /\ topicTurn = TRUE
  /\ passed = 0 /\ faults = 0

(***************************************************************************)
(* The hub hands a job over.  While a request is out it waits in the       *)
(* channel; the scheduler takes everything in before its next pick.  Once  *)
(* turn content went for a message, the hub writes no status into it.      *)
(***************************************************************************)
Submit(o) ==
  /\ Len(submitted) < work.jobs
  /\ o.kind = "edit" => \A n \in DOMAIN submitted : ~(Into(submitted[n]) /\ submitted[n].msg = o.msg)
  /\ submitted' = Append(submitted, o)
  /\ LET n == Len(submitted) + 1
         s == Answered(q, {n}, "waiting")
     IN IF out = <<>> THEN q' = Enqueue(s, Job(n, o)) /\ UNCHANGED inbox
                      ELSE q' = s /\ inbox' = Append(inbox, Job(n, o))
  /\ UNCHANGED <<work, cancelled, out, tokens, paused, pace, log, faults>>

Cancel(n) ==
  /\ n \in DOMAIN submitted \ cancelled /\ submitted[n].status /\ q.answer[n] = "waiting"
  /\ cancelled' = cancelled \cup {n}
  /\ UNCHANGED <<work, submitted, inbox, q, out, tokens, paused, pace, log, faults>>

(* dispatch up to the request.  A cancelled status message and a text that *)
(* is laid out as several messages cost no request.                        *)
Request(lane, job) ==
  LET spills == Into(job.op) /\ tokens["edits"] = 0
      message == Metered(job.op) \/ spills
  IN /\ out' = <<[lane |-> lane, job |-> job]>>
     /\ tokens' = [tokens EXCEPT !["group"] = @ - 1,
                                 ![IF message THEN "messages" ELSE "edits"] = @ - 1]
     /\ sinceRefresh' = IF job.op.background THEN 0 ELSE Min({sinceRefresh + 1, MaxUnmetered})
     /\ unmetered' = IF message THEN 0 ELSE Min({unmetered + 1, MaxUnmetered})
     /\ passed' = IF message \/ NewMessage = {} THEN 0 ELSE passed + 1
     /\ topicTurn' = IF message THEN topicTurn
                     ELSE IF lane = "topic" THEN FALSE
                     ELSE \/ topicTurn
                          \/ lane = "edit" /\ ~job.op.background
                          \/ lane = "message" /\ ~job.op.merge

Dispatch ==
  /\ out = <<>> /\ ~paused
  /\ \E pick \in Pick :
       LET lane == pick[1]
           i == Turned(lane, pick[2])
           job == q[lane][i]
           rest == [q EXCEPT ![lane] = Kept(@, {i})]
           taken == IF lane = "message" /\ job.op.merge THEN Taken(rest, job) ELSE {}
       IN \/ /\ job.live \in cancelled
             /\ q' = Answered(rest, {job.reply}, "superseded")
             /\ UNCHANGED <<out, tokens, pace>>
          \/ /\ job.live \notin cancelled /\ ~LaidOut(job)
             /\ q' = PutBack(rest, lane, Parts(job))
             /\ UNCHANGED <<out, tokens, pace>>
          \/ /\ job.live \notin cancelled /\ LaidOut(job)
             /\ q' = [rest EXCEPT !.message = Kept(@, taken)]
             /\ Request(lane, Joined(rest, job, taken))
  /\ UNCHANGED <<work, submitted, cancelled, inbox, paused, log, faults>>

(***************************************************************************)
(* The answer of Telegram, the rest of dispatch, and what came meanwhile.  *)
(***************************************************************************)
(* Mutant of Broken: the lines queued already still go.                    *)
BrokenLater(s, place) == [s EXCEPT !.broken = @ \cup {place}]

(* break_stream: its lines up to the next restart line go unanswered.      *)
Broken(s, place) ==
  LET lines == {i \in DOMAIN s.message : IsLine(s.message[i].op) /\ s.message[i].op.place = place}
      restarts == {i \in lines : s.message[i].op.restart}
      gone == {i \in lines : \A k \in restarts : i < k}
  IN Purged([s EXCEPT !.broken = IF restarts = {} THEN @ \cup {place} ELSE @],
            "message", gone, "dropped")

(* What waits in the channel is taken in, in order.                        *)
TakenIn(s, jobs) ==
  LET in[i \in 0 .. Len(jobs)] == IF i = 0 THEN s ELSE Enqueue(in[i - 1], jobs[i])
  IN in[Len(jobs)]

(* The answered request leaves `s`; then the channel is emptied.           *)
Back(s) ==
  /\ out' = <<>> /\ inbox' = <<>>
  /\ q' = TakenIn(s, inbox)
  /\ UNCHANGED <<work, submitted, cancelled, pace>>

Fault == faults < work.faults /\ faults' = faults + 1

Accepted ==
  \E r \in ToSet(out) :
    /\ Back(Answered(Answered(q, r.job.merged, "merged"), {r.job.reply} \ {0}, "sent"))
    /\ log' = Append(log, [ok |-> TRUE, op |-> r.job.op, text |-> r.job.text])
    /\ UNCHANGED <<tokens, paused, faults>>

(* Telegram refuses it for good (4xx); merged lines go unanswered.         *)
Refused ==
  \E r \in ToSet(out) :
    /\ Back(Answered(Answered(q, r.job.merged, "dropped"), {r.job.reply} \ {0}, "refused"))
    /\ Fault /\ UNCHANGED <<log, tokens, paused>>

(* Any other error; it breaks the stream of a line.                        *)
Failed ==
  \E r \in ToSet(out) :
    LET s == Answered(Answered(q, r.job.merged, "dropped"), {r.job.reply} \ {0}, "failed")
    IN /\ Back(IF IsLine(r.job.op) THEN Broken(s, r.job.op.place) ELSE s)
       /\ log' = IF IsLine(r.job.op)
                 THEN Append(log, [ok |-> FALSE, op |-> r.job.op, text |-> r.job.text]) ELSE log
       /\ Fault /\ UNCHANGED <<tokens, paused>>

(* 429: everything waits; a newer edit that is queued goes instead.        *)
FloodWait ==
  \E r \in ToSet(out) :
    LET newer == {i \in DOMAIN q.edit : Replaces(q.edit[i].op, r.job.op)}
    IN /\ paused' = TRUE /\ tokens' = [tokens EXCEPT !["group"] = 1]
       /\ Back(IF newer # {}
               THEN Answered([q EXCEPT !.edit[Min(newer)].op.background = @ /\ r.job.op.background],
                             {r.job.reply}, "superseded")
               ELSE PutBack(q, r.lane, <<r.job>>))
       /\ Fault /\ UNCHANGED log

(* The rich form, then the markup, is refused: it goes again without it.   *)
FormRefused ==
  \E r \in ToSet(out) :
    /\ r.job.op.form # "plain"
    /\ Back(PutBack(q, r.lane,
                    <<[r.job EXCEPT !.plain = TRUE,
                                    !.op.form = IF @ = "rich" THEN "html" ELSE "plain"]>>))
    /\ Fault /\ UNCHANGED <<log, tokens, paused>>

Refill(b) ==
  /\ tokens[b] < Capacity /\ (b = "group" => ~paused)
  /\ tokens' = [tokens EXCEPT ![b] = @ + 1]
  /\ UNCHANGED <<work, submitted, cancelled, inbox, q, out, paused, pace, log, faults>>

PauseOver ==
  /\ paused /\ paused' = FALSE
  /\ UNCHANGED <<work, submitted, cancelled, inbox, q, out, tokens, pace, log, faults>>

(* The debounce of the first line of a queue ran out.                      *)
Ripen(i) ==
  /\ out = <<>> /\ i \in FirstOfQueue /\ ~Due(i)
  /\ q' = [q EXCEPT !.message[i].ripe = TRUE]
  /\ UNCHANGED <<work, submitted, cancelled, inbox, out, tokens, paused, pace, log, faults>>

Answer == Accepted \/ Refused \/ Failed \/ FloodWait \/ FormRefused

Time == \/ PauseOver
        \/ \E b \in Bucket : Refill(b)
        \/ \E i \in DOMAIN q.message : Ripen(i)

Next ==
  \/ \E o \in work.ops : Submit(o)
  \/ \E n \in DOMAIN submitted : Cancel(n)
  \/ Dispatch
  \/ Answer
  \/ Time

Spec == Init /\ [][Next]_outboxVars

(* The scheduler's loop goes on, a request gets an answer (reqwest has a   *)
(* timeout), and time passes while neither happens.                        *)
FairSpec == Spec /\ WF_outboxVars(Dispatch \/ Answer \/ Time)

-----------------------------------------------------------------------------
JobType(job) ==
  /\ job.op \in Op /\ job.at \in DOMAIN submitted /\ job.text # <<>>
  /\ ToSet(job.text) \cup Waiters(job) \subseteq DOMAIN submitted
  /\ job.live \in {0} \cup DOMAIN submitted /\ {job.plain, job.ripe} \subseteq BOOLEAN

(* The shape of the state: every job stands in the lane of its kind, the   *)
(* budgets stay within their capacity (no request goes without its token), *)
(* and a stream is broken only while no queued line restarts it.           *)
TypeOK ==
  /\ \A n \in DOMAIN submitted : submitted[n] \in work.ops
  /\ cancelled \subseteq DOMAIN submitted
  /\ \A lane \in {"message", "edit", "topic"} : \A i \in DOMAIN q[lane] :
       JobType(q[lane][i]) /\ Lane(q[lane][i].op) = lane
  /\ Len(out) <= 1 /\ (out = <<>> => inbox = <<>>)
  /\ \A r \in ToSet(out) : JobType(r.job) /\ Lane(r.job.op) = r.lane /\ Len(r.job.text) <= MaxText
  /\ tokens \in [Bucket -> 0 .. Capacity]
  /\ q.broken \subseteq Place
  /\ \A i \in DOMAIN q.message : ~(IsLine(q.message[i].op) /\ q.message[i].op.place \in q.broken)
  /\ {paused, topicTurn} \subseteq BOOLEAN
  /\ {unmetered, sinceRefresh} \subseteq 0 .. MaxUnmetered /\ faults \in 0 .. work.faults

(* Where jobs that were not answered are.                                  *)
Waiting ==
  ({"inbox"} \X DOMAIN inbox) \cup ({"out"} \X DOMAIN out)
  \cup UNION {{lane} \X DOMAIN q[lane] : lane \in {"message", "edit", "topic"}}

WaitingJob(p) ==
  CASE p[1] = "inbox" -> inbox[p[2]] [] p[1] = "out" -> out[p[2]].job [] OTHER -> q[p[1]][p[2]]

(* No sender is forgotten or answered twice: a job that was not answered   *)
(* is in exactly one place, alone or merged into one other job, through    *)
(* coalescing, merging, retries, laid-out parts and broken streams         *)
(* (Outbox::submit: the receiver resolves when Telegram answered).         *)
WaitersHeld ==
  \A n \in DOMAIN submitted :
    LET held == {p \in Waiting : n \in Waiters(WaitingJob(p))}
    IN IF q.answer[n] = "waiting" THEN \E p \in Waiting : held = {p} ELSE held = {}

(* The new messages of a topic, and the lines within one, show in the      *)
(* order they were handed over, whatever was retried, merged or put back;  *)
(* only a permission prompt shows before older stream lines                *)
(* (next_permission).                                                      *)
TopicOrder ==
  \A b \in DOMAIN log : log[b].ok /\ Metered(log[b].op) =>
    /\ \A k \in 2 .. Len(log[b].text) : log[b].text[k - 1] < log[b].text[k]
    /\ \A a \in 1 .. b - 1 :
         log[a].ok /\ Metered(log[a].op) /\ log[a].op.place = log[b].op.place
         => \/ Last(log[a].text) <= Head(log[b].text)
            \/ log[a].op.prompt /\ IsLine(log[b].op)

(* Once a line of a topic failed, no later line of it shows until one that *)
(* restarts the stream was handed over after the failed one: a later line  *)
(* never shows before the one the stream sends again (scheduler.rs).       *)
LinesWaitForRestart ==
  \A b \in DOMAIN log : \A a \in 1 .. b - 1 :
    ~log[a].ok /\ log[b].ok /\ IsLine(log[b].op) /\ log[a].op.place = log[b].op.place
    => \A f \in ToSet(log[a].text), l \in ToSet(log[b].text) :
         f <= l => \E r \in f + 1 .. l : /\ IsLine(submitted[r]) /\ submitted[r].restart
                                        /\ submitted[r].place = log[b].op.place

(* What a message shows never goes back to an older text: a retried or     *)
(* delayed edit does not overwrite a newer edit or the turn content the    *)
(* message became; the same for its reactions.                             *)
NewestTextStays ==
  \A b \in DOMAIN log : \A a \in 1 .. b - 1 :
    /\ log[a].ok /\ log[b].ok /\ log[a].op.msg # None /\ log[a].op.msg = log[b].op.msg
    /\ (log[a].op.kind = "react") = (log[b].op.kind = "react")
    => Last(log[a].text) < Last(log[b].text)

(* A due new message waits for at most MAX_CONSECUTIVE_UNMETERED requests  *)
(* that are no new messages ("served after a bounded run of unmetered      *)
(* jobs", scheduler.rs).                                                   *)
NewMessageServed == passed <= MaxUnmetered

(* Every sender gets its answer, or learns that there is none: no lane     *)
(* stalls behind a pause, a debounce, an empty bucket or a broken stream.  *)
EveryJobAnswered ==
  (\E n \in DOMAIN q.answer : q.answer[n] = "waiting") ~> (\A n \in DOMAIN q.answer : q.answer[n] # "waiting")
=============================================================================
