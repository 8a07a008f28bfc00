------------------------------- MODULE SessionFlow -------------------------------
(***************************************************************************)
(* Renting from the browser (web/components/rent, web/lib/session-store): a *)
(* page that buys a session from one node, watches it, tops it up and      *)
(* stops it, and that picks it up after a reload from what the browser     *)
(* stored.  While the registry does not list the node as online and        *)
(* selling, the page is only a notice (web/app/rent/[id]/page.tsx,         *)
(* rent-flow.tsx), and nothing here runs on it.                            *)
(*                                                                         *)
(* Everything the page does is a request to the node, and requests         *)
(* overlap: a poll is sent whatever else is outstanding, a top-up starts   *)
(* by itself, a stop takes as long as a refund.  The node answers in any   *)
(* order, and works on a request whose page has gone.  The node here is    *)
(* only what its handlers tell a page; NodeAgent is the node.              *)
(*                                                                         *)
(* Minutes are the unit of time and, at one tinybar each, of money.        *)
(***************************************************************************)
EXTENDS WalletPayment, FiniteSets

CONSTANTS
  Ids,            \* session ids the node may mint
  None,           \* no session, no answer
  MinMinutes,     \* offer.min_minutes
  MaxMinutes,     \* offer.max_minutes
  Preset,         \* the length the picker starts at
  ChunkMinutes,   \* offer.chunk_seconds, or None when the node has not said
  MaxActions,     \* bound: the renter presses no button with this many answers outstanding
  MaxPolls,       \* bound: polls of one page in flight
  MaxFaults,      \* bound: pages left, lost answers and failed saves in one behaviour
  MaxAlike        \* bound: requests of one kind in flight, less one, that are told apart

ASSUME OfferAssumption ==
  /\ {MinMinutes, MaxMinutes, Preset} \subseteq Nat \ {0} /\ MinMinutes <= MaxMinutes
  /\ ChunkMinutes \in (Nat \ {0}) \cup {None}
ASSUME NameAssumption == None \notin Ids /\ None \notin Nat
ASSUME BoundAssumption == {MaxActions, MaxPolls, MaxFaults, MaxAlike} \subseteq Nat

VARIABLES
  slot,        \* the session in the node's lease slot
  sessions,    \* the sessions the node has opened
  page,        \* what SessionFlow holds in memory, None while it is not mounted
  notice,      \* the rent page is open and shows a notice in its place
  stored,      \* localStorage: the session under this node's key
  remembered,  \* localStorage: whether a wallet was last connected
  requests,    \* requests in flight
  kept,        \* sessions whose handle a page was given and saved (history)
  doubled,     \* sessions topped up while a top-up nobody waits for was under way (history)
  faults

vars == <<slot, sessions, page, notice, stored, remembered, requests, kept, doubled, faults>>

\* low is active with low_credits; over is each of the terminal statuses.
Status == {"active", "low", "paused", "over"}

\* A session as the node keeps it: its length and what has been paid of it.
Session == [status : Status, length : Nat, bought : Nat]

\* What the node reports of one.
SessionState == [id : Ids, status : Status, full : BOOLEAN, settled : BOOLEAN]

\* What a page shows and stores: the last report, the token it was opened with (by
\* the session it is for), and whether the node has stopped answering.
StoredSession ==
  [id : Ids, status : Status, full : BOOLEAN, settled : BOOLEAN, token : Ids, ended_remotely : BOOLEAN]

Wallet == {"disconnected", "restoring", "connected"}

Page ==
  [session : StoredSession \cup {None}, wallet : Wallet, minutes : MinMinutes..MaxMinutes,
   busy : BOOLEAN, toppingUp : BOOLEAN]

ASSUME RecordAssumption == None \notin Session \cup Page \cup StoredSession \cup SessionState

\* A request; waits is whether a page waits for its answer, reply is None until then
\* and in a refusal, and serial tells it from the others of its kind in flight.  amount
\* is the length an opening asks for, the length a top-up's or a poll's payer was made
\* for, and once it is signed what a top-up pays.
Request ==
  [waits : BOOLEAN, kind : {"open", "topup", "stop", "poll"}, id : Ids \cup {None},
   token : Ids \cup {None}, amount : Nat, payer : BOOLEAN,
   stage : {"pricing", "sent", "ending", "answered", "reading"}, reply : SessionState \cup {None},
   serial : 0..MaxAlike]

TypeOK ==
  /\ slot \in Ids \cup {None}
  /\ sessions \in [Ids -> Session \cup {None}]
  /\ page \in Page \cup {None}
  /\ notice \in BOOLEAN
  /\ stored \in StoredSession \cup {None}
  /\ remembered \in BOOLEAN
  /\ requests \subseteq Request
  /\ kept \subseteq Ids /\ doubled \subseteq Ids
  /\ faults \in 0..MaxFaults

Init ==
  /\ slot = None
  /\ sessions = [i \in Ids |-> None]
  /\ page = None
  /\ notice = FALSE
  /\ stored = None
  /\ remembered = FALSE
  /\ requests = {}
  /\ kept = {} /\ doubled = {}
  /\ faults = 0

---------------------------------------------------------------------------
(* The buy form *)

Least(a, b) == IF a <= b THEN a ELSE b
Most(a, b) == IF a >= b THEN a ELSE b

PickerMax == Most(MinMinutes, MaxMinutes)
\* Mutant of DefaultMinutes: raised to the shortest length, not held to the longest.
DefaultUnclamped == Most(Preset, MinMinutes)

DefaultMinutes == Least(Most(Preset, MinMinutes), PickerMax)

\* What opening a session of m minutes costs, and the renter's own cap on any one
\* payment: headroom over that, or the whole session when the node names no chunk.
FirstPayment(m) == IF ChunkMinutes = None THEN m ELSE Least(m, ChunkMinutes)
PaymentCap(m) == 2 * FirstPayment(m)

\* The lengths its slider offers.
MinutesPicker == MinMinutes..PickerMax

\* The form itself: shown by a page without a session, with a button to start one
\* for a renter whose wallet is connected.
BuyForm(p) ==
  [shown |-> p.session = None, start |-> p.wallet = "connected" /\ ~ p.busy]

(* The session panel *)

IsSessionTerminal(status) == status = "over"

\* What a session's panel says of it at display size.
Headline(view) ==
  IF IsSessionTerminal(view.status)
  THEN IF view.settled THEN "refunded"
       ELSE IF view.ended_remotely THEN "owed at the last check" ELSE "owed to you"
  ELSE IF view.status = "paused" THEN "frozen" ELSE "time remaining"

\* Which of its buttons the panel offers.
SessionPanel(view) ==
  LET ended == IsSessionTerminal(view.status)
  IN [topUp |-> ~ ended /\ ~ view.full, stop |-> ~ ended, dismiss |-> ended]

---------------------------------------------------------------------------
(* Page state *)

Loaded == page # None
View == page.session
Shows == Loaded /\ View # None
Payer(p) == p.wallet = "connected"

\* low_credits is not part of the status.
Reported(status) == IF status = "low" THEN "active" ELSE status

\* What restarts the poll when it changes, and whether there is one to run.
PollKey(p) ==
  IF p.session = None THEN <<None>>
  ELSE <<p.session.id, p.session.token, Reported(p.session.status), p.session.settled,
         p.session.ended_remotely, Payer(p)>>

Polls(v) == ~ v.ended_remotely /\ ~ (IsSessionTerminal(v.status) /\ v.settled)

\* Restarting drops the polls whose answer has not begun to arrive.
Cancelled(p, rs) ==
  IF PollKey(p) = PollKey(page) THEN rs
  ELSE {r \in rs : ~ (r.kind = "poll" /\ r.stage = "answered")}

\* The page changes, but not its session.
SetPage(p, rs) ==
  /\ page' = p
  /\ requests' = Cancelled(p, rs)

\* The session that loses the browser's one entry when another's is stored or cleared.
Displaced(i) == {j \in Ids : stored # None /\ stored.id = j /\ j # i}

SaveSession(v) == stored' = v

Fault == faults < MaxFaults /\ faults' = faults + 1

\* setSession with a fresh object, and the effect that saves it, or fails to without a
\* word.  A page that had no session has just been given this one.
SetSession(p, rs) ==
  /\ SetPage(p, rs)
  /\ UNCHANGED notice
  /\ \/ /\ SaveSession(p.session)
        /\ kept' = (kept \ Displaced(p.session.id)) \cup (IF View = None THEN {p.session.id} ELSE {})
        /\ UNCHANGED faults
     \/ /\ Fault
        /\ kept' = kept \ Displaced(p.session.id)
        /\ UNCHANGED stored

Stays == <<notice, stored, kept, faults>>
Shop == <<remembered, doubled>>

\* A report laid over what the page holds.
Merged(v, s) ==
  [v EXCEPT !.id = s.id, !.status = s.status, !.full = s.full, !.settled = s.settled]

\* The finally blocks.
Finished(p, kind) ==
  [p EXCEPT !.busy = FALSE, !.toppingUp = IF kind = "topup" THEN FALSE ELSE @]

\* A serial that no request of its kind in flight has, while there is one.
Serial(kind) ==
  LET free == {n \in 0..MaxAlike : \A q \in requests : q.kind = kind => q.serial # n}
  IN IF free = {} THEN MaxAlike ELSE CHOOSE n \in free : TRUE

Asks(kind, i, token, amount, stage) ==
  [waits |-> TRUE, kind |-> kind, id |-> i, token |-> token, amount |-> amount,
   payer |-> kind = "poll" /\ Payer(page), stage |-> stage, reply |-> None,
   serial |-> Serial(kind)]

\* The bound on what the renter asks for at once; a top-up a poll asks for is not held up.
Room == Cardinality({r \in requests : r.kind # "poll"}) < MaxActions

Node == <<slot, sessions>>

---------------------------------------------------------------------------
(* Loading a page, and the wallet *)

\* Mutant of LoadSession: the page begins with nothing stored.
LoadNothing == None

LoadSession == stored

\* The page opens on a node listed as online and selling: it takes up the stored
\* session before anything is painted, and reconnects the wallet it last used without
\* asking.
LoadPage ==
  /\ ~ Loaded
  /\ page' =
       [session |-> LoadSession, wallet |-> IF remembered THEN "restoring" ELSE "disconnected",
        minutes |-> DefaultMinutes, busy |-> FALSE, toppingUp |-> FALSE]
  /\ notice' = FALSE
  /\ UNCHANGED <<requests, Shop, stored, kept, faults, Node>>

\* It opens on one that is offline, not selling, of an older build, or that the
\* registry cannot be asked about.  What was stored is neither read nor shown; the
\* wallet may be tried, and forgotten when it does not answer.
LoadNotice ==
  /\ ~ Loaded /\ ~ notice
  /\ notice' = TRUE
  /\ \/ UNCHANGED remembered
     \/ remembered' = FALSE
  /\ UNCHANGED <<page, requests, doubled, stored, kept, faults, Node>>

Orphaned(rs) == {[r EXCEPT !.waits = FALSE] : r \in rs}

\* The tab is reloaded or closed.  What it sent goes on without it; what it was about
\* to sign, and its polls, do not.
LeavePage ==
  /\ Fault
  /\ page' = None /\ notice' = FALSE
  /\ requests' = Orphaned({r \in requests : r.stage = "sent"})
  /\ UNCHANGED <<Shop, stored, kept, Node>>

\* A link within the site unmounts SessionFlow, and the tab lives on: what waits for a
\* price or the wallet goes on as well, and so does a poll whose body is arriving.
NavigateAway ==
  /\ Loaded
  /\ Fault
  /\ page' = None /\ notice' = FALSE
  /\ requests' = Orphaned({r \in requests : ~ r.waits \/ r.stage \in {"pricing", "sent", "reading"}})
  /\ UNCHANGED <<Shop, stored, kept, Node>>

\* With the page closed for more than a day the entry is dropped at the next load.
EntryExpires ==
  /\ ~ Loaded
  /\ stored # None
  /\ stored' = None
  /\ kept' = kept \ {stored.id}
  /\ UNCHANGED <<page, notice, requests, Shop, faults, Node>>

\* What becomes of asking a connector for a signer: it has one, or it is declined,
\* fails, or has nothing to restore.
ConnectorAnswers == {"connected", "disconnected"}

WalletStep(from, to) ==
  /\ Loaded /\ page.wallet = from
  /\ SetPage([page EXCEPT !.wallet = to], requests)
  /\ UNCHANGED <<doubled, Stays, Node>>

\* The connect step belongs to the buy form: a page with a session has none.  A
\* wallet that gives no signer leaves things as they were.
Connect ==
  /\ Loaded /\ BuyForm(page).shown
  /\ \E answer \in ConnectorAnswers :
       /\ WalletStep("disconnected", answer)
       /\ remembered' = (remembered \/ answer = "connected")

Disconnect ==
  /\ Loaded /\ BuyForm(page).shown
  /\ WalletStep("connected", "disconnected")
  /\ remembered' = FALSE

RestoreAnswered ==
  \E answer \in ConnectorAnswers :
    /\ WalletStep("restoring", answer)
    /\ remembered' = (answer = "connected")

---------------------------------------------------------------------------
(* What the renter does *)

\* The picker is set to m, then the button pressed.
PressStart(m) ==
  /\ Loaded /\ BuyForm(page).shown /\ BuyForm(page).start /\ Room
  /\ SetPage([page EXCEPT !.minutes = m, !.busy = TRUE],
             requests \cup {Asks("open", None, None, m, "pricing")})
  /\ UNCHANGED <<Shop, Stays, Node>>

\* Mutant of TopUpIdle: the ref that guards a payment in flight is not read.
TopUpAnyTime == TRUE

TopUpIdle == ~ page.toppingUp

\* topUp on page p, whose session is i by its token, with a payer made for m minutes.
ToppingUp(p) == [p EXCEPT !.busy = TRUE, !.toppingUp = TRUE]
TopUpRequest(i, token, m) == Asks("topup", i, token, m, "pricing")
DoubledBy(i) ==
  {i} \cap {r.id : r \in {q \in requests : q.kind = "topup" /\ ~ q.waits}}

PressTopUp ==
  /\ Shows /\ SessionPanel(View).topUp /\ ~ page.busy /\ Room
  /\ Payer(page) /\ TopUpIdle
  /\ SetPage(ToppingUp(page), requests \cup {TopUpRequest(View.id, View.token, page.minutes)})
  /\ doubled' = doubled \cup DoubledBy(View.id)
  /\ UNCHANGED <<remembered, Stays, Node>>

PressStop ==
  /\ Shows /\ SessionPanel(View).stop /\ ~ page.busy /\ Room
  /\ SetPage([page EXCEPT !.busy = TRUE],
             requests \cup {Asks("stop", View.id, View.token, 0, "sent")})
  /\ UNCHANGED <<Shop, Stays, Node>>

Dismiss ==
  /\ Shows /\ SessionPanel(View).dismiss
  /\ SetPage([page EXCEPT !.session = None], requests)
  /\ stored' = None
  /\ kept' = kept \ Displaced(View.id)
  /\ UNCHANGED <<notice, Shop, faults, Node>>

---------------------------------------------------------------------------
(* Paying *)

Unpaid(i) == sessions[i].length - sessions[i].bought
NextChunk(i) == IF ChunkMinutes = None THEN Unpaid(i) ELSE Least(ChunkMinutes, Unpaid(i))

\* The node answers for the session in its slot, to whoever has its token.
Serves(r) == slot # None /\ slot = r.id /\ slot = r.token

\* What the unpaid request is asked to pay.
Quotes(r, amount) ==
  \/ r.kind = "open" /\ slot = None /\ amount = FirstPayment(r.amount)
  \/ /\ r.kind = "topup" /\ Serves(r)
     /\ ~ IsSessionTerminal(sessions[r.id].status) /\ Unpaid(r.id) > 0
     /\ amount = NextChunk(r.id)

\* The wallet signs, whether or not the page that asked is still there, and the node
\* takes the paid request.
Signs(r) ==
  /\ r.stage = "pricing"
  /\ \E amount \in 1..MaxMinutes, feePayer \in {"facilitator", Absent}, wallet \in WalletSigners :
       /\ Quotes(r, amount)
       /\ PaysChallenge(<<[network |-> "testnet", asset |-> "0.0.0", amount |-> amount, feePayer |-> feePayer]>>,
                        "testnet", PaymentCap(r.amount), wallet)
       /\ requests' = (requests \ {r}) \cup
            {[r EXCEPT !.stage = "sent", !.amount = IF r.kind = "open" THEN r.amount ELSE amount]}
  /\ UNCHANGED <<page, Shop, Stays, Node>>

\* The node cannot be reached or refuses, the renter declines, the cap is too low,
\* or the node's price is no longer what was signed: nothing is paid, and a page that is
\* still there is told.
NotSigned(r) ==
  /\ r.stage = "pricing"
  /\ IF r.waits
     THEN SetPage(Finished(page, r.kind), requests \ {r})
     ELSE requests' = requests \ {r} /\ UNCHANGED page
  /\ UNCHANGED <<Shop, Stays, Node>>

---------------------------------------------------------------------------
(* The node *)

Report(i, s) == [id |-> i, status |-> s.status, full |-> s.bought >= s.length, settled |-> FALSE]

\* The answer leaves for the page, if there is still one waiting.
Answers(r, reply) ==
  requests' = (requests \ {r}) \cup {q \in {[r EXCEPT !.stage = "answered", !.reply = reply]} : q.waits}

NodeSide == UNCHANGED <<page, Shop, Stays>>

NodeOpens(r) ==
  /\ r.kind = "open" /\ r.stage = "sent"
  /\ LET free == {i \in Ids : sessions[i] = None} IN
     \/ /\ slot = None /\ free # {}
        /\ LET i == CHOOSE j \in free : TRUE
               s == [status |-> "active", length |-> r.amount, bought |-> FirstPayment(r.amount)]
           IN /\ slot' = i
              /\ sessions' = [sessions EXCEPT ![i] = s]
              /\ Answers(r, Report(i, s))
     \/ /\ slot # None \/ free = {}
        /\ Answers(r, None)
        /\ UNCHANGED Node
  /\ NodeSide

\* A top-up priced and paid is banked once it has settled, whatever became of the
\* session meanwhile, and thaws a frozen one; or it fails to settle.
NodeBanks(r) ==
  /\ r.kind = "topup" /\ r.stage = "sent"
  /\ \/ LET s == [sessions[r.id] EXCEPT !.bought = @ + r.amount,
                                        !.status = IF IsSessionTerminal(@) THEN @ ELSE "active"]
        IN /\ sessions' = [sessions EXCEPT ![r.id] = s]
           /\ Answers(r, Report(r.id, s))
     \/ Answers(r, None) /\ UNCHANGED sessions
  /\ UNCHANGED slot /\ NodeSide

\* A stop ends the session and then, once the slot is free, tries the refund.
NodeStops(r) ==
  /\ r.kind = "stop" /\ r.stage = "sent"
  /\ IF Serves(r)
     THEN /\ sessions' = [sessions EXCEPT ![r.id].status = "over"]
          /\ requests' = (requests \ {r}) \cup {q \in {[r EXCEPT !.stage = "ending"]} : q.waits}
     ELSE Answers(r, None) /\ UNCHANGED sessions
  /\ UNCHANGED slot /\ NodeSide

NodeRefunds(r) ==
  /\ r.kind = "stop" /\ r.stage = "ending" /\ slot # r.id
  /\ \E settled \in BOOLEAN : Answers(r, [Report(r.id, sessions[r.id]) EXCEPT !.settled = settled])
  /\ UNCHANGED Node /\ NodeSide

\* The meter: credit runs low, then out, and a session paid in full is over.
NodeMeters ==
  /\ slot # None /\ sessions[slot].status \in {"active", "low"}
  /\ sessions' = [sessions EXCEPT ![slot].status =
       IF Unpaid(slot) <= 0 THEN "over" ELSE IF @ = "active" THEN "low" ELSE "paused"]
  /\ UNCHANGED <<slot, requests>> /\ NodeSide

\* The grace period is over, or the provider evicts.
NodeEnds ==
  /\ slot # None /\ ~ IsSessionTerminal(sessions[slot].status)
  /\ sessions' = [sessions EXCEPT ![slot].status = "over"]
  /\ UNCHANGED <<slot, requests>> /\ NodeSide

NodeFrees ==
  /\ slot # None /\ IsSessionTerminal(sessions[slot].status)
  /\ slot' = None
  /\ UNCHANGED <<sessions, requests>> /\ NodeSide

---------------------------------------------------------------------------
(* The page reads an answer *)

Waits(r, kind, stage) == r.kind = kind /\ r.stage = stage /\ r.waits

\* An answer that changes nothing but the page's busy flags.
Fruitless(r) ==
  /\ SetPage(Finished(page, r.kind), requests \ {r})
  /\ UNCHANGED Stays

OpenAnswered(r) ==
  /\ Waits(r, "open", "answered")
  /\ \/ r.reply = None /\ Fruitless(r)
     \/ /\ r.reply # None
        /\ SetSession(
             [Finished(page, "open") EXCEPT !.session =
               [id |-> r.reply.id, status |-> r.reply.status, full |-> r.reply.full, settled |-> r.reply.settled,
                token |-> r.reply.id, ended_remotely |-> FALSE]],
             requests \ {r})
  /\ UNCHANGED <<Shop, Node>>

\* topUp and stop lay their answer over whatever session the page shows by now.
ActionAnswered(r) ==
  /\ Waits(r, "topup", "answered") \/ Waits(r, "stop", "answered")
  /\ \/ (r.reply = None \/ View = None) /\ Fruitless(r)
     \/ /\ r.reply # None /\ View # None
        /\ SetSession(
             [Finished(page, r.kind) EXCEPT !.session = Merged(@, r.reply)], requests \ {r})
  /\ UNCHANGED <<Shop, Node>>

\* Mutant of EndedRemotely: a 404 is one more poll that failed.
EndedIgnored(v) == v

EndedRemotely(v) == [v EXCEPT !.status = "over", !.ended_remotely = TRUE]

\* The poll: sent on a timer whatever became of the last, and answered by the node
\* in the same step, a page that changed in between having dropped it.  One that
\* fails says nothing, as one never sent.
PollSent ==
  /\ Shows /\ Polls(View)
  /\ Cardinality({r \in requests : r.kind = "poll" /\ r.waits}) < MaxPolls
  /\ LET r == Asks("poll", View.id, View.token, page.minutes, "answered")
     IN requests' = requests \cup
          {[r EXCEPT !.reply = IF Serves(r) THEN Report(r.id, sessions[r.id]) ELSE None]}
  /\ UNCHANGED <<page, Shop, Stays, Node>>

\* Its status arrives: a 404 is the ending, and anything else has a body to read.
PollAnswered(r) ==
  /\ Waits(r, "poll", "answered")
  /\ \/ /\ r.reply # None
        /\ requests' = (requests \ {r}) \cup {[r EXCEPT !.stage = "reading"]}
        /\ UNCHANGED <<page, Stays>>
     \/ /\ r.reply = None /\ View # None
        /\ View.id = r.id /\ ~ View.ended_remotely
        /\ SetSession( [page EXCEPT !.session = EndedRemotely(@)], requests \ {r})
     \/ /\ r.reply = None
        /\ View = None \/ View.id # r.id \/ View.ended_remotely
        /\ requests' = requests \ {r}
        /\ UNCHANGED <<page, Stays>>
  /\ UNCHANGED <<Shop, Node>>

\* Its body arrives, and asks for a top-up when the credit is low.
WantsTopUp(r) == r.reply.status = "low" /\ ~ r.reply.full /\ r.payer

AutoTopUp(r) == WantsTopUp(r) /\ TopUpIdle

PollRead(r) ==
  /\ Waits(r, "poll", "reading")
  /\ LET shown == View # None /\ View.id = r.id
         p == IF AutoTopUp(r) THEN ToppingUp(page) ELSE page
         rs == (requests \ {r}) \cup {q \in {TopUpRequest(r.id, r.token, r.amount)} : AutoTopUp(r)}
     IN /\ \/ shown /\ SetSession([p EXCEPT !.session = Merged(@, r.reply)], rs)
           \/ ~ shown /\ SetPage(p, rs) /\ UNCHANGED Stays
        /\ doubled' = IF AutoTopUp(r) THEN doubled \cup DoubledBy(r.id) ELSE doubled
  /\ UNCHANGED <<remembered, Node>>

\* It arrives after its page was unmounted: there is no session to lay it over, and the
\* top-up is asked for all the same, unless that page had one in flight, by a ref that
\* no page reads any more.
PollReadGone(r) ==
  /\ r.kind = "poll" /\ r.stage = "reading" /\ ~ r.waits
  /\ \/ requests' = requests \ {r} /\ UNCHANGED doubled
     \/ /\ WantsTopUp(r)
        /\ requests' = (requests \ {r}) \cup Orphaned({TopUpRequest(r.id, r.token, r.amount)})
        /\ doubled' = doubled \cup ({r.id} \cap {q.id : q \in {t \in requests : t.kind = "topup"}})
  /\ UNCHANGED <<page, remembered, Stays, Node>>

\* The answer never reaches the page: it is told of a failure, and the node goes on.
AnswerLost(r) ==
  /\ r.waits /\ r.kind # "poll" /\ r.stage # "pricing"
  /\ Fault
  /\ SetPage(Finished(page, r.kind),
             (requests \ {r}) \cup {q \in {[r EXCEPT !.waits = FALSE]} : r.stage = "sent"})
  /\ UNCHANGED <<Shop, notice, stored, kept, Node>>

Next ==
  \/ LoadPage \/ LoadNotice \/ LeavePage \/ NavigateAway
  \/ Connect \/ Disconnect \/ RestoreAnswered
  \/ \E m \in MinutesPicker : PressStart(m)
  \/ PressTopUp \/ PressStop \/ Dismiss \/ PollSent
  \/ \E r \in requests :
       \/ Signs(r) \/ NotSigned(r)
       \/ NodeOpens(r) \/ NodeBanks(r) \/ NodeStops(r) \/ NodeRefunds(r)
       \/ OpenAnswered(r) \/ ActionAnswered(r) \/ PollAnswered(r) \/ PollRead(r)
       \/ PollReadGone(r) \/ AnswerLost(r)
  \/ EntryExpires \/ NodeMeters \/ NodeEnds \/ NodeFrees

Spec == Init /\ [][Next]_vars

\* The interval fires, the node can be reached and answers polls, which the page
\* gets to read, and it frees the slot of a session that is over.  Nothing is assumed
\* of the renter, the wallet, the meter, or the answers to anything but a poll.
FairSpec ==
  /\ Spec
  /\ WF_vars(NodeFrees)
  /\ WF_vars(PollSent)
  /\ WF_vars(\E r \in requests : PollAnswered(r) \/ PollRead(r))

---------------------------------------------------------------------------
(* Properties *)

\* A page may use a session it shows: the id and the token are of one session.
HandleTo(v, i) == v # None /\ v.id = i /\ v.token = i

\* A session whose opening reached a page, and was saved, can be topped up and stopped
\* for as long as it runs, reloads, navigation, lost answers, failed saves and polls of
\* earlier sessions included: the browser has stored its handle, and SessionFlow shows
\* it wherever it is mounted.  Left out is what the code leaves open: a page that is a
\* notice, the answer to a top-up or a stop of an earlier session, laid over this one,
\* and an entry a day old.
HandleKept ==
  \A i \in kept :
    slot = i /\ ~ IsSessionTerminal(sessions[i].status)
    => HandleTo(stored, i) /\ (Loaded => HandleTo(View, i))

\* A page has one top-up in flight at a time, its own and its polls' together; so a
\* session is sold past its length only when it is topped up while one is under way
\* whose page is gone, or whose answer was lost.
OneTopUpAtATime ==
  /\ Cardinality({r \in requests : r.kind = "topup" /\ r.waits}) <= 1
  /\ \A i \in Ids : sessions[i] # None /\ i \notin doubled => sessions[i].bought <= sessions[i].length

\* A page that tells its renter a session is running, as far as it was told.
BelievesRunning ==
  Shows /\ Headline(View) \in {"time remaining", "frozen"} /\ ~ View.ended_remotely

\* In the end the page agrees with the node: one that shows a session as running shows
\* the session the node runs, whatever order the answers came in.  A page that was
\* told of the ending is left out: a later answer can undo it, for good.
EventuallyHonest == <>[](BelievesRunning => slot = View.id)
=============================================================================
