------------------------------- MODULE FlowProofs -------------------------------
(***************************************************************************)
(* What the rent page's guard on top-ups gives, for any offer, any number  *)
(* of sessions and polls, and however answers are delayed, lost or left    *)
(* behind by a reload or a link: one top-up of a page is in flight at a    *)
(* time, and no session is sold past its length unless it was topped up    *)
(* while an abandoned one was under way.  And what the page's handling of  *)
(* answers gives: the handle of a session that runs stays in the browser,  *)
(* and SessionFlow shows it wherever it is mounted.                        *)
(***************************************************************************)
EXTENDS SessionFlow, FiniteSetTheorems, TLAPS

---------------------------------------------------------------------------
(* The inductive invariant *)

\* What the browser keeps.
PageOK ==
  /\ page \in Page \cup {None}
  /\ notice \in BOOLEAN
  /\ stored \in StoredSession \cup {None}
  /\ remembered \in BOOLEAN
  /\ kept \subseteq Ids /\ doubled \subseteq Ids
  /\ faults \in 0..MaxFaults

\* What the node keeps: its slot holds a session it opened, and one nobody paid
\* for twice at once is sold no further than its length.
NodeOK ==
  /\ slot \in Ids \cup {None}
  /\ sessions \in [Ids -> Session \cup {None}]
  /\ slot # None => sessions[slot] # None
  /\ \A i \in Ids : sessions[i] # None /\ i \notin doubled => sessions[i].bought <= sessions[i].length

\* What a request in flight carries.  What nobody waits for is still to be signed, is
\* with the node, or is a poll whose body is arriving; a page that waits for a top-up knows it; and a top-up on its way fits.
Carries(r) ==
  /\ r.waits => page # None
  /\ ~ r.waits => r.stage \in {"pricing", "sent"} \/ (r.kind = "poll" /\ r.stage = "reading")
  /\ r.kind = "poll" => r.id \in Ids /\ r.token \in Ids /\ (r.stage = "reading" => r.reply # None)
  /\ r.stage = "reading" => r.kind = "poll"
  /\ r.kind = "stop" /\ r.stage = "ending" => r.id \in Ids /\ sessions[r.id] # None
  /\ r.kind = "topup" =>
       /\ r.id \in Ids
       /\ r.waits => page.toppingUp
       /\ r.stage # "pricing" => sessions[r.id] # None
       /\ r.stage = "sent" /\ r.id \notin doubled =>
            sessions[r.id].bought + r.amount <= sessions[r.id].length

\* Two top-ups that a page waits for, or that are for one session nobody paid for
\* twice at once, are the same.
Alone(q, r) ==
  /\ q.kind = "topup" /\ r.kind = "topup"
  /\ (q.waits /\ r.waits) \/ (q.id = r.id /\ q.id \notin doubled)
  => q = r

\* Requests carry what they should, and one top-up at most is under way for a session.
RequestsOK ==
  /\ requests \subseteq Request
  /\ \A r \in requests : Carries(r)
  /\ \A q, r \in requests : Alone(q, r)

\* The inductive invariant: the page, the node and what is between them.
FlowInv == PageOK /\ NodeOK /\ RequestsOK

---------------------------------------------------------------------------
(* Values *)

LEMMA OfferType ==
  /\ DefaultMinutes \in MinMinutes..MaxMinutes
  /\ MinutesPicker = MinMinutes..MaxMinutes
  /\ MinMinutes..MaxMinutes \subseteq Nat
BY OfferAssumption DEF DefaultMinutes, MinutesPicker, PickerMax, Least, Most

\* The first chunk of a session of m minutes is no more than m.
LEMMA FirstPaymentFits ==
  ASSUME NEW m \in Nat
  PROVE  FirstPayment(m) \in Nat /\ FirstPayment(m) <= m
BY OfferAssumption DEF FirstPayment, Least

\* The next chunk of a session is no more than what is left of it.
LEMMA NextChunkFits ==
  ASSUME NEW i \in Ids, sessions[i] \in Session
  PROVE  sessions[i].bought + NextChunk(i) <= sessions[i].length
<1>1. sessions[i].bought \in Nat /\ sessions[i].length \in Nat
  BY DEF Session
<1> QED
  BY <1>1, OfferAssumption DEF NextChunk, Unpaid, Least

LEMMA ReportType ==
  ASSUME NEW i \in Ids, NEW s \in Session, NEW settled \in BOOLEAN
  PROVE  Report(i, s) \in SessionState /\ [Report(i, s) EXCEPT !.settled = settled] \in SessionState
<1> DEFINE R(b, c) == [id |-> i, status |-> s.status, full |-> b, settled |-> c]
<1>1. s.status \in Status /\ (s.bought >= s.length) \in BOOLEAN
  BY DEF Session
<1>2. \A b, c \in BOOLEAN : R(b, c) \in SessionState /\ [R(b, FALSE) EXCEPT !.settled = c] = R(b, c)
  BY <1>1 DEF SessionState
<1>3. Report(i, s) = R(s.bought >= s.length, FALSE)
  BY DEF Report
<1> HIDE DEF R
<1> QED
  BY <1>1, <1>2, <1>3

LEMMA SerialType ==
  ASSUME NEW kind
  PROVE  Serial(kind) \in 0..MaxAlike
<1> DEFINE free == {n \in 0..MaxAlike : \A q \in requests : q.kind = kind => q.serial # n}
<1>1. Serial(kind) = IF free = {} THEN MaxAlike ELSE CHOOSE n \in free : TRUE
  BY DEF Serial
<1>2. MaxAlike \in 0..MaxAlike /\ free \subseteq 0..MaxAlike
  BY BoundAssumption
<1> HIDE DEF free
<1> QED
  BY <1>1, <1>2

LEMMA AsksType ==
  ASSUME NEW kind \in {"open", "topup", "stop", "poll"}, NEW i \in Ids \cup {None},
         NEW token \in Ids \cup {None}, NEW amount \in Nat,
         NEW stage \in {"pricing", "sent", "ending", "answered", "reading"}
  PROVE  LET r == Asks(kind, i, token, amount, stage)
         IN  /\ r \in Request /\ r.waits /\ r.kind = kind /\ r.id = i /\ r.token = token
             /\ r.amount = amount /\ r.stage = stage
BY SerialType DEF Asks, Request, Payer

\* A page that is done with an answer is busy no more.
LEMMA FinishedType ==
  ASSUME NEW p \in Page, NEW kind
  PROVE  /\ Finished(p, kind) \in Page /\ Finished(p, kind).session = p.session
         /\ kind # "topup" => Finished(p, kind).toppingUp = p.toppingUp
BY DEF Finished, Page

LEMMA ToppingUpType ==
  ASSUME NEW p \in Page
  PROVE  ToppingUp(p) \in Page /\ ToppingUp(p).session = p.session /\ ToppingUp(p).toppingUp
BY DEF ToppingUp, Page

LEMMA MergedType ==
  ASSUME NEW v \in StoredSession, NEW s \in SessionState
  PROVE  Merged(v, s) \in StoredSession
BY DEF Merged, StoredSession, SessionState

\* A page given another session keeps its flags.
LEMMA ShowsType ==
  ASSUME NEW p \in Page, NEW v \in StoredSession \cup {None}
  PROVE  LET q == [p EXCEPT !.session = v]
         IN  q \in Page /\ q.session = v /\ q.toppingUp = p.toppingUp
BY DEF Page

---------------------------------------------------------------------------
(* What a step does to the requests *)

LEMMA SetPageEffect ==
  ASSUME NEW p, NEW rs, SetPage(p, rs)
  PROVE  page' = p /\ requests' \subseteq rs
BY DEF SetPage, Cancelled

\* A page's session and the browser's entry, set together.
LEMMA SetSessionEffect ==
  ASSUME PageOK, NEW p \in Page, p.session \in StoredSession, NEW rs, SetSession(p, rs)
  PROVE  /\ page' = p /\ requests' \subseteq rs
         /\ stored' \in StoredSession \cup {None} /\ kept' \subseteq Ids
         /\ notice' = notice /\ faults' \in 0..MaxFaults
<1>1. page' = p /\ requests' \subseteq rs
  BY SetPageEffect DEF SetSession
<1>2. p.session.id \in Ids
  BY DEF StoredSession
<1>3. kept' \subseteq Ids
  BY <1>2 DEF SetSession, PageOK
<1>4. stored' \in StoredSession \cup {None}
  BY DEF SetSession, SaveSession, PageOK
<1>5. faults' \in 0..MaxFaults
  BY BoundAssumption DEF SetSession, Fault, PageOK
<1> QED
  BY <1>1, <1>3, <1>4, <1>5 DEF SetSession

\* A session's length and what was paid of it stay.
SameTime(i) ==
  sessions[i] # None =>
    /\ sessions'[i] # None
    /\ sessions'[i].bought = sessions[i].bought /\ sessions'[i].length = sessions[i].length

\* A request that the step leaves alone.
LEMMA StillCarries ==
  ASSUME FlowInv, NEW x \in requests, doubled \subseteq doubled',
         x.waits => page' # None /\ (x.kind = "topup" => page'.toppingUp),
         x.id \in Ids => SameTime(x.id)
  PROVE  Carries(x)'
<1>1. Carries(x)
  BY DEF FlowInv, RequestsOK
<1>2. CASE x.kind = "topup"
  BY <1>1, <1>2 DEF Carries, SameTime
<1>3. CASE x.kind # "topup"
  BY <1>1, <1>3 DEF Carries, SameTime
<1> QED
  BY <1>2, <1>3

\* One request gone, or changed into another of its kind that waits no more than it did.
LEMMA Replaced ==
  ASSUME FlowInv, NEW r \in requests, NEW x \in Request,
         x.kind = r.kind, x.id = r.id, x.waits => r.waits,
         requests' \subseteq (requests \ {r}) \cup {x}, doubled \subseteq doubled',
         x \in requests' => Carries(x)',
         \A q \in requests \ {r} : Carries(q)'
  PROVE  RequestsOK'
<1>1. requests' \subseteq Request /\ \A q \in requests' : Carries(q)'
  BY DEF FlowInv, RequestsOK
<1>2. ASSUME NEW q \in requests', NEW s \in requests' PROVE Alone(q, s)'
  <2>1. CASE q \in requests \ {r} /\ s \in requests \ {r}
    <3>1. Alone(q, s)
      BY <2>1 DEF FlowInv, RequestsOK
    <3> QED
      BY <3>1 DEF Alone
  <2>2. CASE q = x /\ s = x
    BY <2>2 DEF Alone
  <2>3. CASE q = x /\ s \in requests \ {r}
    <3>1. Alone(r, s) /\ r # s
      BY <2>3 DEF FlowInv, RequestsOK
    <3> QED
      BY <2>3, <3>1 DEF Alone
  <2>4. CASE q \in requests \ {r} /\ s = x
    <3>1. Alone(q, r) /\ r # q
      BY <2>4 DEF FlowInv, RequestsOK
    <3> QED
      BY <2>4, <3>1 DEF Alone
  <2> QED
    BY <2>1, <2>2, <2>3, <2>4
<1> QED
  BY <1>1, <1>2 DEF RequestsOK

\* One request gone.
LEMMA Removed ==
  ASSUME FlowInv, NEW r \in requests, requests' \subseteq requests \ {r}, doubled \subseteq doubled',
         \A q \in requests \ {r} : Carries(q)'
  PROVE  RequestsOK'
<1>1. r \in Request
  BY DEF FlowInv, RequestsOK
<1> QED
  BY <1>1, Replaced

\* A request more; a top-up only while no page waits for one, and the sessions of
\* those nobody waits for are written down.
LEMMA Added ==
  ASSUME FlowInv, NEW x \in Request, requests' \subseteq requests \cup {x}, doubled \subseteq doubled',
         x \in requests' => Carries(x)',
         x.kind = "topup" =>
           \A q \in requests :
             q.kind = "topup" => (x.waits => ~ q.waits) /\ (q.id = x.id => x.id \in doubled'),
         \A q \in requests \cap requests' : Carries(q)'
  PROVE  RequestsOK'
<1>1. requests' \subseteq Request /\ \A q \in requests' : Carries(q)'
  BY DEF FlowInv, RequestsOK
<1>2. ASSUME NEW q \in requests', NEW s \in requests' PROVE Alone(q, s)'
  <2>1. CASE q \in requests /\ s \in requests
    <3>1. Alone(q, s)
      BY <2>1 DEF FlowInv, RequestsOK
    <3> QED
      BY <3>1 DEF Alone
  <2>2. CASE q = x /\ s = x
    BY <2>2 DEF Alone
  <2>3. CASE q = x /\ s \in requests
    BY <2>3 DEF Alone
  <2>4. CASE q \in requests /\ s = x
    BY <2>4 DEF Alone
  <2> QED
    BY <2>1, <2>2, <2>3, <2>4
<1> QED
  BY <1>1, <1>2 DEF RequestsOK

\* The page is done with one answer; the others it waits for are no top-ups, or it is
\* still topping up.
LEMMA FinishedFlags ==
  ASSUME FlowInv, NEW r \in requests, r.waits, NEW x \in requests \ {r}, x.waits, x.kind = "topup"
  PROVE  Finished(page, r.kind).toppingUp
<1>1. page \in Page /\ page.toppingUp
  BY DEF FlowInv, RequestsOK, Carries, PageOK
<1>2. r.kind # "topup"
  BY DEF FlowInv, RequestsOK, Alone
<1> QED
  BY <1>1, <1>2, FinishedType

\* A page step that is done with r: the rest are as they were.
LEMMA OthersCarry ==
  ASSUME FlowInv, NEW r \in requests, r.waits, UNCHANGED <<sessions, doubled>>,
         page' # None, page'.toppingUp = Finished(page, r.kind).toppingUp
  PROVE  \A q \in requests \ {r} : Carries(q)'
<1> SUFFICES ASSUME NEW q \in requests \ {r} PROVE Carries(q)'
  OBVIOUS
<1>1. q.waits => page' # None /\ (q.kind = "topup" => page'.toppingUp)
  BY FinishedFlags
<1>2. q.id \in Ids => SameTime(q.id)
  BY DEF SameTime
<1> QED
  BY <1>1, <1>2, StillCarries

---------------------------------------------------------------------------
(* Loading a page, and the wallet *)

\* The sessions, the page's flags and the requests are as they were.
LEMMA SameRequests ==
  ASSUME FlowInv, UNCHANGED <<sessions, doubled>>, requests' \subseteq requests,
         page' # None,
         page # None => (page.toppingUp => page'.toppingUp)
  PROVE  RequestsOK'
<1>1. ASSUME NEW x \in requests PROVE Carries(x)'
  <2>1. x.waits => page' # None /\ (x.kind = "topup" => page'.toppingUp)
    BY DEF FlowInv, RequestsOK, Carries
  <2> QED
    BY <2>1, StillCarries DEF SameTime
<1>2. \A q, r \in requests : Alone(q, r)'
  BY DEF FlowInv, RequestsOK, Alone
<1> QED
  BY <1>1, <1>2 DEF FlowInv, RequestsOK

\* Each action of the page, the network and the node keeps the invariant, one lemma each.
LEMMA LoadPageInv ==
  ASSUME FlowInv, LoadPage
  PROVE  FlowInv'
<1>1. page' \in Page
  BY OfferType DEF LoadPage, LoadSession, FlowInv, PageOK, Page, Wallet
<1>2. page = None /\ page' # None
  BY <1>1, RecordAssumption DEF LoadPage, Loaded
<1>3. UNCHANGED <<slot, sessions, stored, kept, requests, remembered, doubled, faults>> /\ notice' = FALSE
  BY DEF LoadPage, Shop, Node
<1>4. RequestsOK'
  BY <1>2, <1>3, SameRequests
<1> QED
  BY <1>1, <1>3, <1>4 DEF FlowInv, PageOK, NodeOK

LEMMA LoadNoticeInv ==
  ASSUME FlowInv, LoadNotice
  PROVE  FlowInv'
<1>1. /\ UNCHANGED <<slot, sessions, page, stored, kept, requests, doubled, faults>>
      /\ notice' = TRUE /\ remembered' \in BOOLEAN
  BY DEF LoadNotice, Node, FlowInv, PageOK
<1> QED
  BY <1>1 DEF FlowInv, PageOK, NodeOK, RequestsOK, Carries, Alone

LEMMA EntryExpiresInv ==
  ASSUME FlowInv, EntryExpires
  PROVE  FlowInv'
<1>1. stored' = None /\ kept' \subseteq kept /\ UNCHANGED <<page, notice, requests, remembered, doubled, faults, slot, sessions>>
  BY DEF EntryExpires, Shop, Node
<1> QED
  BY <1>1 DEF FlowInv, PageOK, NodeOK, RequestsOK, Carries, Alone

\* What a page leaves behind goes on with nobody to wait for it.
LEMMA LeftBehind ==
  ASSUME FlowInv, NEW rs \in SUBSET requests, page' = None, notice' = FALSE,
         UNCHANGED <<slot, sessions, stored, kept, remembered, doubled>>, faults' \in 0..MaxFaults,
         requests' = Orphaned(rs),
         \A q \in rs : q.stage \in {"pricing", "sent"} \/ (q.kind = "poll" /\ q.stage = "reading")
  PROVE  FlowInv'
<1> DEFINE Left(q) == [q EXCEPT !.waits = FALSE]
<1>1. requests \subseteq Request /\ (\A q \in requests : Carries(q)) /\ \A q, s \in requests : Alone(q, s)
  BY DEF FlowInv, RequestsOK
<1>2. ASSUME NEW x \in requests' PROVE \E q \in rs : x = Left(q)
  BY DEF Orphaned
<1>3. ASSUME NEW q \in requests
      PROVE  /\ Left(q) \in Request /\ ~ Left(q).waits /\ Left(q).kind = q.kind /\ Left(q).id = q.id
             /\ Left(q).stage = q.stage /\ Left(q).amount = q.amount /\ Left(q).token = q.token
             /\ Left(q).reply = q.reply
  BY <1>1 DEF Request
<1> HIDE DEF Left
<1>4. ASSUME NEW x \in requests' PROVE x \in Request /\ Carries(x)'
  <2>1. PICK q \in rs : x = Left(q)
    BY <1>2
  <2>2. q \in requests /\ Carries(q) /\ x \in Request
    BY <1>1, <1>3, <2>1
  <2> QED
    BY <1>3, <2>1, <2>2 DEF Carries
<1>5. ASSUME NEW x \in requests', NEW y \in requests' PROVE Alone(x, y)'
  <2>1. PICK q \in rs : x = Left(q)
    BY <1>2
  <2>2. PICK s \in rs : y = Left(s)
    BY <1>2
  <2>3. q \in requests /\ s \in requests /\ Alone(q, s)
    BY <1>1
  <2> QED
    BY <1>3, <2>1, <2>2, <2>3 DEF Alone
<1>6. RequestsOK'
  BY <1>4, <1>5 DEF RequestsOK
<1> QED
  BY <1>6 DEF FlowInv, PageOK, NodeOK

LEMMA LeavePageInv ==
  ASSUME FlowInv, LeavePage \/ NavigateAway
  PROVE  FlowInv'
<1>1. /\ page' = None /\ notice' = FALSE /\ faults' = faults + 1 /\ faults < MaxFaults
      /\ UNCHANGED <<slot, sessions, stored, kept, remembered, doubled>>
  BY DEF LeavePage, NavigateAway, Fault, Shop, Node
<1>2. faults' \in 0..MaxFaults
  BY <1>1, BoundAssumption DEF FlowInv, PageOK
<1>3. CASE LeavePage
  <2> DEFINE rs == {r \in requests : r.stage = "sent"}
  <2>1. requests' = Orphaned(rs) /\ rs \in SUBSET requests /\ \A q \in rs : q.stage = "sent"
    BY <1>3 DEF LeavePage
  <2> HIDE DEF rs
  <2> QED
    BY <1>1, <1>2, <2>1, LeftBehind
<1>4. CASE NavigateAway
  <2> DEFINE rs == {r \in requests : ~ r.waits \/ r.stage \in {"pricing", "sent", "reading"}}
  <2>1. \A q \in rs : q.stage \in {"pricing", "sent"} \/ (q.kind = "poll" /\ q.stage = "reading")
    BY DEF FlowInv, RequestsOK, Carries
  <2> QED
    BY <1>1, <1>2, <1>4, <2>1, LeftBehind DEF NavigateAway
<1> QED
  BY <1>3, <1>4

LEMMA WalletInv ==
  ASSUME FlowInv, Connect \/ Disconnect \/ RestoreAnswered
  PROVE  FlowInv'
<1>1. PICK from, to \in Wallet : WalletStep(from, to) /\ remembered' \in BOOLEAN
  <2>1. CASE Connect
    <3>1. PICK answer \in ConnectorAnswers : WalletStep("disconnected", answer)
      BY <2>1 DEF Connect
    <3>2. remembered' \in BOOLEAN
      BY <2>1 DEF Connect
    <3>3. answer \in Wallet
      BY DEF ConnectorAnswers, Wallet
    <3> QED
      BY <3>1, <3>2, <3>3 DEF Wallet
  <2>2. CASE Disconnect
    BY <2>2 DEF Disconnect, Wallet
  <2>3. CASE RestoreAnswered
    <3>1. PICK answer \in ConnectorAnswers : WalletStep("restoring", answer) /\ remembered' = (answer = "connected")
      BY <2>3 DEF RestoreAnswered
    <3>2. answer \in Wallet
      BY DEF ConnectorAnswers, Wallet
    <3> QED
      BY <3>1, <3>2 DEF Wallet
  <2> QED
    BY <2>1, <2>2, <2>3
<1>2. page \in Page /\ page # None
  BY <1>1 DEF WalletStep, Loaded, FlowInv, PageOK
<1>3. page' = [page EXCEPT !.wallet = to] /\ requests' \subseteq requests
  BY <1>1, SetPageEffect DEF WalletStep
<1>4. page' \in Page /\ page'.toppingUp = page.toppingUp
  BY <1>2, <1>3 DEF Page
<1>5. UNCHANGED <<slot, sessions, notice, stored, kept, doubled, faults>>
  BY <1>1 DEF WalletStep, Stays, Shop, Node
<1>6. RequestsOK'
  BY <1>3, <1>4, <1>5, RecordAssumption, SameRequests
<1> QED
  BY <1>1, <1>4, <1>5, <1>6 DEF FlowInv, PageOK, NodeOK

---------------------------------------------------------------------------
(* What the renter does *)

\* A page that begins to wait for something it had not asked for before.
LEMMA PageAsks ==
  ASSUME FlowInv, page # None, NEW p \in Page, NEW x \in Request, Carries(x)',
         page' = p, page.toppingUp => p.toppingUp, requests' \subseteq requests \cup {x},
         sessions' = sessions, doubled \subseteq doubled',
         x.kind = "topup" =>
           \A q \in requests : q.kind = "topup" => ~ q.waits /\ (q.id = x.id => x.id \in doubled')
  PROVE  RequestsOK'
<1>1. ASSUME NEW q \in requests PROVE Carries(q)'
  <2>1. q.waits => page' # None /\ (q.kind = "topup" => page'.toppingUp)
    BY RecordAssumption DEF FlowInv, RequestsOK, Carries
  <2> QED
    BY <2>1, StillCarries DEF SameTime
<1> QED
  BY <1>1, Added

LEMMA PressStartInv ==
  ASSUME FlowInv, NEW m \in MinutesPicker, PressStart(m)
  PROVE  FlowInv'
<1> DEFINE p == [page EXCEPT !.minutes = m, !.busy = TRUE]
<1>0. PICK x : x = Asks("open", None, None, m, "pricing")
  OBVIOUS
<1>1. page \in Page /\ page # None /\ m \in Nat /\ m \in MinMinutes..MaxMinutes
  BY OfferType DEF PressStart, Loaded, FlowInv, PageOK
<1>2. p \in Page /\ p.toppingUp = page.toppingUp
  BY <1>1 DEF Page
<1>3. x \in Request /\ x.waits /\ x.kind = "open" /\ x.stage = "pricing"
  BY <1>0, <1>1, AsksType
<1>4. page' = p /\ requests' \subseteq requests \cup {x}
  BY <1>0, SetPageEffect DEF PressStart
<1>5. UNCHANGED <<slot, sessions, notice, stored, kept, remembered, doubled, faults>>
  BY DEF PressStart, Stays, Shop, Node
<1> HIDE DEF p
<1>6. Carries(x)'
  BY <1>2, <1>3, <1>4, RecordAssumption DEF Carries
<1>7. RequestsOK'
  BY <1>1, <1>2, <1>3, <1>4, <1>5, <1>6, PageAsks
<1> QED
  BY <1>2, <1>4, <1>5, <1>7 DEF FlowInv, PageOK, NodeOK

\* A page that is not topping up waits for no top-up, and one it left behind is
\* written down when its session is topped up again.
LEMMA TopUpAsked ==
  ASSUME FlowInv, page # None, TopUpIdle, NEW i \in Ids, NEW token \in Ids, NEW m \in Nat,
         doubled' = doubled \cup DoubledBy(i)
  PROVE  /\ TopUpRequest(i, token, m) \in Request /\ TopUpRequest(i, token, m).kind = "topup"
         /\ TopUpRequest(i, token, m).id = i /\ TopUpRequest(i, token, m).waits
         /\ TopUpRequest(i, token, m).stage = "pricing"
         /\ \A q \in requests : q.kind = "topup" => ~ q.waits /\ (q.id = i => i \in doubled')
         /\ doubled \subseteq doubled' /\ doubled' \subseteq Ids
<1>1. /\ TopUpRequest(i, token, m) \in Request /\ TopUpRequest(i, token, m).kind = "topup"
      /\ TopUpRequest(i, token, m).id = i /\ TopUpRequest(i, token, m).waits
      /\ TopUpRequest(i, token, m).stage = "pricing"
  BY AsksType DEF TopUpRequest
<1>2. \A q \in requests : q.kind = "topup" => ~ q.waits
  BY DEF FlowInv, RequestsOK, Carries, TopUpIdle
<1>3. \A q \in requests : q.kind = "topup" /\ q.id = i => i \in doubled'
  BY <1>2 DEF DoubledBy
<1>4. doubled' \subseteq Ids
  BY DEF DoubledBy, FlowInv, PageOK
<1> QED
  BY <1>1, <1>2, <1>3, <1>4

LEMMA PressTopUpInv ==
  ASSUME FlowInv, PressTopUp
  PROVE  FlowInv'
<1> DEFINE p == ToppingUp(page)
<1>0. PICK x : x = TopUpRequest(View.id, View.token, page.minutes)
  OBVIOUS
<1>1. page \in Page /\ page # None /\ page.session \in StoredSession
  BY DEF PressTopUp, Shows, Loaded, View, FlowInv, PageOK, Page
<1>2. View.id \in Ids /\ View.token \in Ids /\ page.minutes \in Nat
  BY <1>1, OfferType DEF View, StoredSession, Page
<1>3. p \in Page /\ p.toppingUp
  BY <1>1, ToppingUpType
<1>4. doubled' = doubled \cup DoubledBy(View.id) /\ TopUpIdle
  BY DEF PressTopUp
<1>5. /\ x \in Request /\ x.kind = "topup" /\ x.id \in Ids /\ x.waits /\ x.stage = "pricing"
      /\ \A q \in requests : q.kind = "topup" => ~ q.waits /\ (q.id = x.id => x.id \in doubled')
      /\ doubled \subseteq doubled' /\ doubled' \subseteq Ids
  BY <1>0, <1>1, <1>2, <1>4, TopUpAsked
<1>6. page' = p /\ requests' \subseteq requests \cup {x}
  BY <1>0, SetPageEffect DEF PressTopUp
<1>7. UNCHANGED <<slot, sessions, notice, stored, kept, remembered, faults>>
  BY DEF PressTopUp, Stays, Shop, Node
<1> HIDE DEF p
<1>8. Carries(x)'
  BY <1>3, <1>5, <1>6, RecordAssumption DEF Carries
<1>9. RequestsOK'
  BY <1>1, <1>3, <1>5, <1>6, <1>7, <1>8, PageAsks
<1> QED
  BY <1>3, <1>5, <1>6, <1>7, <1>9 DEF FlowInv, PageOK, NodeOK

LEMMA PressStopInv ==
  ASSUME FlowInv, PressStop
  PROVE  FlowInv'
<1> DEFINE p == [page EXCEPT !.busy = TRUE]
<1>0. PICK x : x = Asks("stop", View.id, View.token, 0, "sent")
  OBVIOUS
<1>1. page \in Page /\ page # None /\ page.session \in StoredSession
  BY DEF PressStop, Shows, Loaded, View, FlowInv, PageOK, Page
<1>2. View.id \in Ids /\ View.token \in Ids /\ 0 \in Nat
  BY <1>1 DEF View, StoredSession
<1>3. p \in Page /\ p.toppingUp = page.toppingUp
  BY <1>1 DEF Page
<1>4. x \in Request /\ x.waits /\ x.kind = "stop" /\ x.stage = "sent"
  BY <1>0, <1>2, AsksType
<1>5. page' = p /\ requests' \subseteq requests \cup {x}
  BY <1>0, SetPageEffect DEF PressStop
<1>6. UNCHANGED <<slot, sessions, notice, stored, kept, remembered, doubled, faults>>
  BY DEF PressStop, Stays, Shop, Node
<1> HIDE DEF p
<1>7. Carries(x)'
  BY <1>3, <1>4, <1>5, RecordAssumption DEF Carries
<1>8. RequestsOK'
  BY <1>1, <1>3, <1>4, <1>5, <1>6, <1>7, PageAsks
<1> QED
  BY <1>3, <1>5, <1>6, <1>8 DEF FlowInv, PageOK, NodeOK

LEMMA DismissInv ==
  ASSUME FlowInv, Dismiss
  PROVE  FlowInv'
<1>1. page \in Page /\ page # None
  BY DEF Dismiss, Shows, Loaded, FlowInv, PageOK
<1>2. page' = [page EXCEPT !.session = None] /\ requests' \subseteq requests
  BY SetPageEffect DEF Dismiss
<1>3. page' \in Page /\ page'.toppingUp = page.toppingUp
  BY <1>1, <1>2, ShowsType
<1>4. stored' = None /\ kept' \subseteq kept /\ UNCHANGED <<slot, sessions, notice, remembered, doubled, faults>>
  BY DEF Dismiss, Shop, Node
<1>5. RequestsOK'
  BY <1>2, <1>3, <1>4, RecordAssumption, SameRequests
<1> QED
  BY <1>3, <1>4, <1>5 DEF FlowInv, PageOK, NodeOK

---------------------------------------------------------------------------
(* Paying, and the node *)

\* A step of the node, or of the wallet, leaves the requests it does not serve alone.
LEMMA NodeLeaves ==
  ASSUME FlowInv, NEW r \in requests, NEW x \in Request,
         x.kind = r.kind, x.id = r.id, x.waits => r.waits,
         requests' \subseteq (requests \ {r}) \cup {x}, UNCHANGED <<page, doubled>>,
         x \in requests' => Carries(x)',
         \A q \in requests \ {r} : q.id \in Ids => SameTime(q.id)
  PROVE  RequestsOK'
<1>1. ASSUME NEW q \in requests \ {r} PROVE Carries(q)'
  <2>1. q.waits => page' # None /\ (q.kind = "topup" => page'.toppingUp)
    BY DEF FlowInv, RequestsOK, Carries
  <2> QED
    BY <1>1, <2>1, StillCarries
<1> QED
  BY <1>1, Replaced

\* The session a request is served for.
LEMMA ServedSession ==
  ASSUME FlowInv, NEW r, Serves(r)
  PROVE  r.id \in Ids /\ slot = r.id /\ sessions[r.id] \in Session /\ sessions[r.id] # None
BY DEF Serves, FlowInv, NodeOK

LEMMA SignsInv ==
  ASSUME FlowInv, NEW r \in requests, Signs(r)
  PROVE  FlowInv'
<1>1. PICK amount \in 1..MaxMinutes :
        /\ Quotes(r, amount)
        /\ requests' = (requests \ {r}) \cup
             {[r EXCEPT !.stage = "sent", !.amount = IF r.kind = "open" THEN r.amount ELSE amount]}
  BY DEF Signs
<1>2. r.stage = "pricing" /\ UNCHANGED <<page, slot, sessions, notice, stored, kept, remembered, doubled, faults>>
  BY DEF Signs, Stays, Shop, Node
<1> DEFINE n == IF r.kind = "open" THEN r.amount ELSE amount
           x == [r EXCEPT !.stage = "sent", !.amount = n]
<1>3. r \in Request /\ Carries(r) /\ amount \in Nat
  BY OfferAssumption DEF FlowInv, RequestsOK
<1>4. n \in Nat
  BY <1>3 DEF Request
<1> HIDE DEF n
<1>5. /\ x \in Request /\ x.kind = r.kind /\ x.id = r.id /\ x.waits = r.waits /\ x.stage = "sent"
      /\ x.amount = n /\ x.token = r.token /\ x.reply = r.reply
  BY <1>3, <1>4 DEF Request
<1>6. requests' = (requests \ {r}) \cup {x}
  BY <1>1 DEF n
<1> HIDE DEF x
<1>7. Carries(x)'
  <2>1. CASE r.kind = "open"
    BY <1>2, <1>3, <1>5, <2>1 DEF Carries
  <2>2. CASE r.kind = "topup"
    <3>1. r.id \in Ids /\ sessions[r.id] \in Session /\ sessions[r.id] # None /\ amount = NextChunk(r.id)
      BY <1>1, <2>2, ServedSession DEF Quotes
    <3>2. sessions[r.id].bought + n <= sessions[r.id].length
      BY <2>2, <3>1, NextChunkFits DEF n
    <3> QED
      BY <1>2, <1>3, <1>5, <2>2, <3>1, <3>2 DEF Carries
  <2> QED
    BY <1>1, <2>1, <2>2 DEF Quotes
<1>8. RequestsOK'
  BY <1>2, <1>5, <1>6, <1>7, NodeLeaves DEF SameTime
<1> QED
  BY <1>2, <1>8 DEF FlowInv, PageOK, NodeOK

LEMMA NotSignedInv ==
  ASSUME FlowInv, NEW r \in requests, NotSigned(r)
  PROVE  FlowInv'
<1>1. UNCHANGED <<slot, sessions, notice, stored, kept, remembered, doubled, faults>>
  BY DEF NotSigned, Stays, Shop, Node
<1>2. CASE r.waits
  <2>1. page \in Page /\ page # None
    BY <1>2 DEF FlowInv, RequestsOK, Carries, PageOK
  <2>2. page' = Finished(page, r.kind) /\ requests' \subseteq requests \ {r}
    BY <1>2, SetPageEffect DEF NotSigned
  <2>3. page' \in Page
    BY <2>1, <2>2, FinishedType
  <2>4. \A q \in requests \ {r} : Carries(q)'
    BY <1>1, <1>2, <2>2, <2>3, RecordAssumption, OthersCarry
  <2>5. RequestsOK'
    BY <1>1, <2>2, <2>4, Removed
  <2> QED
    BY <1>1, <2>3, <2>5 DEF FlowInv, PageOK, NodeOK
<1>3. CASE ~ r.waits
  <2>1. page' = page /\ requests' = requests \ {r}
    BY <1>3 DEF NotSigned
  <2> QED
    BY <1>1, <2>1 DEF FlowInv, PageOK, NodeOK, RequestsOK, Carries, Alone
<1> QED
  BY <1>2, <1>3

\* An answer, if somebody waits for it.
LEMMA AnswersEffect ==
  ASSUME FlowInv, NEW r \in requests, NEW reply \in SessionState \cup {None}, Answers(r, reply),
         r.kind \in {"open", "topup", "stop"}, UNCHANGED <<page, doubled>>,
         r.kind = "topup" => sessions'[r.id] # None,
         \A q \in requests \ {r} : q.id \in Ids => SameTime(q.id)
  PROVE  RequestsOK'
<1> DEFINE x == [r EXCEPT !.stage = "answered", !.reply = reply]
<1>1. r \in Request /\ Carries(r)
  BY DEF FlowInv, RequestsOK
<1>2. /\ x \in Request /\ x.kind = r.kind /\ x.id = r.id /\ x.waits = r.waits /\ x.stage = "answered"
  BY <1>1 DEF Request
<1>3. requests' = (requests \ {r}) \cup {q \in {x} : q.waits}
  BY DEF Answers
<1> HIDE DEF x
<1>4. requests' \subseteq (requests \ {r}) \cup {x} /\ (x \in requests' => x.waits \/ x \in requests \ {r})
  BY <1>3
<1>5. ASSUME x \in requests' PROVE Carries(x)'
  <2>1. x.waits
    BY <1>2, <1>4, <1>5 DEF FlowInv, RequestsOK, Carries
  <2> QED
    BY <1>1, <1>2, <2>1 DEF Carries
<1> QED
  BY <1>2, <1>4, <1>5, NodeLeaves

LEMMA NodeOpensInv ==
  ASSUME FlowInv, NEW r \in requests, NodeOpens(r)
  PROVE  FlowInv'
<1>1. r.kind = "open" /\ UNCHANGED <<page, notice, stored, kept, remembered, doubled, faults>>
  BY DEF NodeOpens, NodeSide, Stays, Shop
<1>2. CASE Answers(r, None) /\ UNCHANGED Node
  <2>1. UNCHANGED <<slot, sessions>>
    BY <1>2 DEF Node
  <2>2. RequestsOK'
    BY <1>1, <1>2, <2>1, AnswersEffect DEF SameTime
  <2> QED
    BY <1>1, <2>1, <2>2 DEF FlowInv, PageOK, NodeOK
<1>3. CASE \E i \in Ids :
             LET s == [status |-> "active", length |-> r.amount, bought |-> FirstPayment(r.amount)]
             IN  /\ sessions[i] = None /\ slot' = i
                 /\ sessions' = [sessions EXCEPT ![i] = s] /\ Answers(r, Report(i, s))
  <2> DEFINE s == [status |-> "active", length |-> r.amount, bought |-> FirstPayment(r.amount)]
  <2>1. PICK i \in Ids : /\ sessions[i] = None /\ slot' = i
                         /\ sessions' = [sessions EXCEPT ![i] = s] /\ Answers(r, Report(i, s))
    BY <1>3
  <2>2. s \in Session /\ s.length = r.amount /\ s.bought = FirstPayment(r.amount) /\ s.bought <= s.length
    <3>1. r.amount \in Nat
      BY DEF FlowInv, RequestsOK, Request
    <3>2. FirstPayment(r.amount) \in Nat /\ FirstPayment(r.amount) <= r.amount
      BY <3>1, FirstPaymentFits
    <3> QED
      BY <3>1, <3>2 DEF Session, Status
  <2> HIDE DEF s
  <2>3. sessions \in [Ids -> Session \cup {None}]
    BY DEF FlowInv, NodeOK
  <2>4. \A j \in Ids : sessions'[j] = IF j = i THEN s ELSE sessions[j]
    BY <2>1, <2>3
  <2>5. Report(i, s) \in SessionState
    BY <2>2, ReportType
  <2>6. \A j \in Ids : SameTime(j)
    BY <2>1, <2>4 DEF SameTime
  <2>7. RequestsOK'
    BY <1>1, <2>1, <2>5, <2>6, AnswersEffect
  <2>8. s # None
    BY <2>2, RecordAssumption
  <2>9. NodeOK'
    BY <1>1, <2>1, <2>2, <2>3, <2>4, <2>8 DEF FlowInv, NodeOK
  <2> QED
    BY <1>1, <2>7, <2>9 DEF FlowInv, PageOK
<1> QED
  <2> DEFINE free == {i \in Ids : sessions[i] = None}
  <2>1. free # {} => (CHOOSE j \in free : TRUE) \in free
    OBVIOUS
  <2> QED
    BY <1>2, <1>3, <2>1 DEF NodeOpens

LEMMA NodeBanksInv ==
  ASSUME FlowInv, NEW r \in requests, NodeBanks(r)
  PROVE  FlowInv'
<1>1. /\ r.kind = "topup" /\ r.stage = "sent"
      /\ UNCHANGED <<slot, page, notice, stored, kept, remembered, doubled, faults>>
  BY DEF NodeBanks, NodeSide, Stays, Shop
<1>2. /\ r \in Request /\ Carries(r) /\ r.id \in Ids /\ sessions[r.id] # None
      /\ sessions \in [Ids -> Session \cup {None}] /\ sessions[r.id] \in Session /\ r.amount \in Nat
  BY <1>1 DEF FlowInv, RequestsOK, Carries, NodeOK, Request
<1>3. CASE Answers(r, None) /\ UNCHANGED sessions
  <2>1. RequestsOK'
    BY <1>1, <1>2, <1>3, AnswersEffect DEF SameTime
  <2> QED
    BY <1>1, <1>3, <2>1 DEF FlowInv, PageOK, NodeOK
<1>4. CASE LET s == [sessions[r.id] EXCEPT !.bought = @ + r.amount,
                                         !.status = IF IsSessionTerminal(@) THEN @ ELSE "active"]
           IN  sessions' = [sessions EXCEPT ![r.id] = s] /\ Answers(r, Report(r.id, s))
  <2> DEFINE old == sessions[r.id]
             s == [old EXCEPT !.bought = @ + r.amount,
                              !.status = IF IsSessionTerminal(@) THEN @ ELSE "active"]
  <2>1. sessions' = [sessions EXCEPT ![r.id] = s] /\ Answers(r, Report(r.id, s))
    BY <1>4
  <2>2. s \in Session /\ s.bought = old.bought + r.amount /\ s.length = old.length
    <3>1. old \in Session /\ old.bought + r.amount \in Nat
      BY <1>2 DEF Session
    <3>2. ASSUME NEW n \in Nat, NEW status \in Status
          PROVE  LET t == [old EXCEPT !.bought = n, !.status = status]
                 IN  t \in Session /\ t.bought = n /\ t.length = old.length
      BY <3>1 DEF Session
    <3>3. (IF IsSessionTerminal(old.status) THEN old.status ELSE "active") \in Status
      BY <3>1 DEF Session, Status
    <3> HIDE DEF old
    <3> QED
      BY <3>1, <3>2, <3>3
  <2>3. r.id \notin doubled => old.bought + r.amount <= old.length
    BY <1>1, <1>2 DEF Carries
  <2> HIDE DEF s
  <2>4. \A j \in Ids : sessions'[j] = IF j = r.id THEN s ELSE sessions[j]
    BY <1>2, <2>1
  <2>5. s # None
    BY <2>2, RecordAssumption
  <2>6. NodeOK'
    BY <1>1, <1>2, <2>1, <2>2, <2>3, <2>4, <2>5 DEF FlowInv, NodeOK
  <2>7. RequestsOK'
    <3>0. PICK x : x = [r EXCEPT !.stage = "answered", !.reply = Report(r.id, s)]
      OBVIOUS
    <3>1. Report(r.id, s) \in SessionState
      BY <1>2, <2>2, ReportType
    <3>2. x \in Request /\ x.kind = r.kind /\ x.id = r.id /\ x.waits = r.waits /\ x.stage = "answered"
      BY <1>2, <3>0, <3>1 DEF Request
    <3>3. requests' = (requests \ {r}) \cup {q \in {x} : q.waits}
      BY <2>1, <3>0 DEF Answers
    <3>4. requests' \subseteq (requests \ {r}) \cup {x}
      BY <3>3
    <3>5. ASSUME NEW q \in requests \ {r} PROVE Carries(q)'
      <4>1. Carries(q) /\ Alone(q, r)
        BY DEF FlowInv, RequestsOK
      <4>2. CASE q.kind = "topup"
        <5>1. q.id = r.id => q.id \in doubled
          BY <1>1, <4>1, <4>2 DEF Alone
        <5> QED
          BY <1>1, <2>4, <2>5, <4>1, <4>2, <5>1 DEF Carries
      <4>3. CASE q.kind # "topup"
        BY <1>1, <2>4, <2>5, <4>1, <4>3 DEF Carries
      <4> QED
        BY <4>2, <4>3
    <3>6. ASSUME x \in requests' PROVE Carries(x)'
      <4>1. x.waits
        BY <3>2, <3>3, <3>6 DEF FlowInv, RequestsOK, Carries
      <4> QED
        BY <1>1, <1>2, <2>4, <2>5, <3>2, <4>1 DEF Carries
    <3> QED
      BY <1>1, <3>2, <3>4, <3>5, <3>6, Replaced
  <2> QED
    BY <1>1, <2>6, <2>7 DEF FlowInv, PageOK
<1> QED
  BY <1>3, <1>4 DEF NodeBanks

\* One session takes another status.
LEMMA StatusOnly ==
  ASSUME FlowInv, NEW i \in Ids, sessions[i] \in Session, NEW status \in Status,
         sessions' = [sessions EXCEPT ![i].status = status], UNCHANGED <<slot, doubled>>
  PROVE  NodeOK' /\ (\A j \in Ids : SameTime(j)) /\ sessions'[i] # None
<1> DEFINE s == [sessions[i] EXCEPT !.status = status]
<1>1. s \in Session /\ s.bought = sessions[i].bought /\ s.length = sessions[i].length
  BY DEF Session
<1>2. sessions \in [Ids -> Session \cup {None}]
  BY DEF FlowInv, NodeOK
<1>3. sessions' = [sessions EXCEPT ![i] = s]
  OBVIOUS
<1> HIDE DEF s
<1>4. \A j \in Ids : sessions'[j] = IF j = i THEN s ELSE sessions[j]
  BY <1>2, <1>3
<1>5. s # None /\ sessions[i] # None
  BY <1>1, RecordAssumption
<1>6. \A j \in Ids : SameTime(j)
  BY <1>1, <1>4, <1>5 DEF SameTime
<1>7. NodeOK'
  BY <1>1, <1>2, <1>3, <1>4, <1>5 DEF FlowInv, NodeOK
<1> QED
  BY <1>4, <1>5, <1>6, <1>7

LEMMA NodeStopsInv ==
  ASSUME FlowInv, NEW r \in requests, NodeStops(r)
  PROVE  FlowInv'
<1>1. /\ r.kind = "stop" /\ UNCHANGED <<slot, page, notice, stored, kept, remembered, doubled, faults>>
  BY DEF NodeStops, NodeSide, Stays, Shop
<1>2. CASE ~ Serves(r)
  <2>1. Answers(r, None) /\ UNCHANGED sessions
    BY <1>2 DEF NodeStops
  <2>2. RequestsOK'
    BY <1>1, <2>1, AnswersEffect DEF SameTime
  <2> QED
    BY <1>1, <2>1, <2>2 DEF FlowInv, PageOK, NodeOK
<1>3. CASE Serves(r)
  <2> DEFINE x == [r EXCEPT !.stage = "ending"]
  <2>1. r.id \in Ids /\ sessions[r.id] \in Session
    BY <1>3, ServedSession
  <2>2. sessions' = [sessions EXCEPT ![r.id].status = "over"]
    BY <1>3 DEF NodeStops
  <2>3. requests' = (requests \ {r}) \cup {q \in {x} : q.waits}
    BY <1>3 DEF NodeStops
  <2>4. "over" \in Status
    BY DEF Status
  <2>5. NodeOK' /\ (\A j \in Ids : SameTime(j)) /\ sessions'[r.id] # None
    BY <1>1, <2>1, <2>2, <2>4, StatusOnly
  <2>6. r \in Request /\ Carries(r)
    BY DEF FlowInv, RequestsOK
  <2>7. x \in Request /\ x.kind = r.kind /\ x.id = r.id /\ x.waits = r.waits /\ x.stage = "ending"
    BY <2>6 DEF Request
  <2> HIDE DEF x
  <2>8. ASSUME x \in requests' PROVE Carries(x)'
    <3>1. x.waits
      BY <2>3, <2>7, <2>8 DEF FlowInv, RequestsOK, Carries
    <3> QED
      BY <1>1, <2>1, <2>5, <2>6, <2>7, <3>1 DEF Carries
  <2>9. requests' \subseteq (requests \ {r}) \cup {x}
    BY <2>3
  <2>10. RequestsOK'
    BY <1>1, <2>5, <2>7, <2>8, <2>9, NodeLeaves
  <2> QED
    BY <1>1, <2>5, <2>10 DEF FlowInv, PageOK
<1> QED
  BY <1>2, <1>3

LEMMA NodeRefundsInv ==
  ASSUME FlowInv, NEW r \in requests, NodeRefunds(r)
  PROVE  FlowInv'
<1>1. /\ r.kind = "stop" /\ r.stage = "ending"
      /\ UNCHANGED <<slot, sessions, page, notice, stored, kept, remembered, doubled, faults>>
  BY DEF NodeRefunds, NodeSide, Stays, Shop, Node
<1>2. r.id \in Ids /\ sessions[r.id] \in Session
  BY <1>1 DEF FlowInv, RequestsOK, Carries, NodeOK
<1>3. \E reply \in SessionState : Answers(r, reply)
  BY <1>2, ReportType DEF NodeRefunds
<1>4. RequestsOK'
  BY <1>1, <1>3, AnswersEffect DEF SameTime
<1> QED
  BY <1>1, <1>4 DEF FlowInv, PageOK, NodeOK

LEMMA NodeAloneInv ==
  ASSUME FlowInv, NodeMeters \/ NodeEnds \/ NodeFrees
  PROVE  FlowInv'
<1>1. /\ slot # None /\ slot \in Ids /\ sessions[slot] \in Session
      /\ UNCHANGED <<requests, page, notice, stored, kept, remembered, doubled, faults>>
  BY DEF NodeMeters, NodeEnds, NodeFrees, NodeSide, Stays, Shop, FlowInv, NodeOK
<1>2. CASE NodeFrees
  <2>1. slot' = None /\ UNCHANGED sessions
    BY <1>2 DEF NodeFrees
  <2>2. NodeOK'
    BY <1>1, <2>1 DEF FlowInv, NodeOK
  <2>3. RequestsOK'
    BY <1>1, <2>1 DEF FlowInv, RequestsOK, Carries, Alone
  <2> QED
    BY <1>1, <2>2, <2>3 DEF FlowInv, PageOK
<1>3. CASE \E status \in Status : sessions' = [sessions EXCEPT ![slot].status = status] /\ UNCHANGED slot
  <2>1. NodeOK' /\ \A j \in Ids : SameTime(j)
    BY <1>1, <1>3, StatusOnly
  <2>2. ASSUME NEW q \in requests PROVE Carries(q)'
    <3>1. q.waits => page' # None /\ (q.kind = "topup" => page'.toppingUp)
      BY <1>1 DEF FlowInv, RequestsOK, Carries
    <3> QED
      BY <1>1, <2>1, <3>1, StillCarries
  <2>3. RequestsOK'
    BY <1>1, <2>2 DEF FlowInv, RequestsOK, Alone
  <2> QED
    BY <1>1, <2>1, <2>3 DEF FlowInv, PageOK
<1>4. CASE NodeMeters
  <2> DEFINE status == IF Unpaid(slot) <= 0 THEN "over"
                       ELSE IF sessions[slot].status = "active" THEN "low" ELSE "paused"
  <2>1. status \in Status
    BY DEF Status
  <2>2. sessions' = [sessions EXCEPT ![slot].status = status] /\ UNCHANGED slot
    BY <1>4 DEF NodeMeters
  <2> QED
    BY <1>3, <2>1, <2>2
<1>5. CASE NodeEnds
  BY <1>3, <1>5 DEF NodeEnds, Status
<1> QED
  BY <1>2, <1>4, <1>5

---------------------------------------------------------------------------
(* The page reads an answer *)

\* A page that takes an answer, and shows a session for it or not.
LEMMA AnswerTaken ==
  ASSUME FlowInv, NEW r \in requests, r.waits, UNCHANGED <<slot, sessions, notice, remembered, doubled>>,
         faults' \in 0..MaxFaults, NEW p \in Page, page' = p, p.toppingUp = Finished(page, r.kind).toppingUp,
         requests' \subseteq requests \ {r},
         stored' \in StoredSession \cup {None}, kept' \subseteq Ids
  PROVE  FlowInv'
<1>1. \A q \in requests \ {r} : Carries(q)'
  BY RecordAssumption, OthersCarry
<1>2. RequestsOK'
  BY <1>1, Removed
<1> QED
  BY <1>2 DEF FlowInv, PageOK, NodeOK

\* A request that comes to nothing leaves the page without it.
LEMMA FruitlessInv ==
  ASSUME FlowInv, NEW r \in requests, r.waits, Fruitless(r),
         UNCHANGED <<slot, sessions, remembered, doubled>>
  PROVE  FlowInv'
<1>1. page \in Page
  BY DEF FlowInv, RequestsOK, Carries, PageOK
<1>2. page' = Finished(page, r.kind) /\ requests' \subseteq requests \ {r}
  BY SetPageEffect DEF Fruitless
<1>3. UNCHANGED <<notice, stored, kept, faults>>
  BY DEF Fruitless, Stays
<1>4. stored' \in StoredSession \cup {None} /\ kept' \subseteq Ids /\ faults' \in 0..MaxFaults
  BY <1>3 DEF FlowInv, PageOK
<1>5. Finished(page, r.kind) \in Page
  BY <1>1, FinishedType
<1> QED
  BY <1>2, <1>3, <1>4, <1>5, AnswerTaken

LEMMA OpenAnsweredInv ==
  ASSUME FlowInv, NEW r \in requests, OpenAnswered(r)
  PROVE  FlowInv'
<1>1. /\ r.waits /\ r.kind = "open" /\ UNCHANGED <<slot, sessions, remembered, doubled>>
  BY DEF OpenAnswered, Waits, Shop, Node
<1>2. page \in Page /\ r \in Request /\ PageOK
  BY <1>1 DEF FlowInv, RequestsOK, Carries, PageOK
<1>3. CASE Fruitless(r)
  BY <1>1, <1>3, FruitlessInv
<1>4. CASE r.reply # None
  <2> DEFINE v == [id |-> r.reply.id, status |-> r.reply.status, full |-> r.reply.full,
                   settled |-> r.reply.settled, token |-> r.reply.id, ended_remotely |-> FALSE]
             p == [Finished(page, "open") EXCEPT !.session = v]
  <2>1. CASE SetSession(p, requests \ {r})
    <3>1. r.reply \in SessionState
      BY <1>2, <1>4 DEF Request
    <3>2. v \in StoredSession
      BY <3>1 DEF SessionState, StoredSession
    <3> HIDE DEF v
    <3>3. /\ p \in Page /\ p.session \in StoredSession
          /\ p.toppingUp = Finished(page, r.kind).toppingUp
      BY <1>1, <1>2, <3>2, FinishedType, ShowsType
    <3> HIDE DEF p
    <3>4. /\ page' = p /\ requests' \subseteq requests \ {r}
          /\ stored' \in StoredSession \cup {None} /\ kept' \subseteq Ids
          /\ notice' = notice /\ faults' \in 0..MaxFaults
      BY <1>2, <2>1, <3>3, SetSessionEffect
    <3> QED
      BY <1>1, <3>3, <3>4, AnswerTaken
  <2> QED
    BY <1>3, <1>4, <2>1 DEF OpenAnswered
<1> QED
  BY <1>3, <1>4 DEF OpenAnswered

LEMMA ActionAnsweredInv ==
  ASSUME FlowInv, NEW r \in requests, ActionAnswered(r)
  PROVE  FlowInv'
<1>1. r.waits /\ UNCHANGED <<slot, sessions, remembered, doubled>>
  BY DEF ActionAnswered, Waits, Shop, Node
<1>2. page \in Page /\ r \in Request /\ PageOK
  BY <1>1 DEF FlowInv, RequestsOK, Carries, PageOK
<1>3. CASE Fruitless(r)
  BY <1>1, <1>3, FruitlessInv
<1> DEFINE f == Finished(page, r.kind)
           p == [f EXCEPT !.session = Merged(@, r.reply)]
<1>4. CASE r.reply # None /\ View # None /\ SetSession(p, requests \ {r})
  <2>1. r.reply \in SessionState /\ page.session \in StoredSession
    BY <1>2, <1>4 DEF Request, Page, View
  <2>2. f \in Page /\ f.session = page.session
    BY <1>2, FinishedType
  <2> HIDE DEF f
  <2>3. Merged(f.session, r.reply) \in StoredSession
    BY <2>1, <2>2, MergedType
  <2>4. p \in Page /\ p.session \in StoredSession /\ p.toppingUp = f.toppingUp
    BY <2>2, <2>3, ShowsType
  <2> HIDE DEF p
  <2>5. /\ page' = p /\ requests' \subseteq requests \ {r}
        /\ stored' \in StoredSession \cup {None} /\ kept' \subseteq Ids
          /\ notice' = notice /\ faults' \in 0..MaxFaults
    BY <1>2, <1>4, <2>4, SetSessionEffect
  <2> QED
    BY <1>1, <2>4, <2>5, AnswerTaken DEF f
<1> QED
  BY <1>3, <1>4 DEF ActionAnswered

LEMMA PollSentInv ==
  ASSUME FlowInv, PollSent
  PROVE  FlowInv'
<1> DEFINE r == Asks("poll", View.id, View.token, page.minutes, "answered")
           reply == IF Serves(r) THEN Report(r.id, sessions[r.id]) ELSE None
<1>0. PICK x : x = [r EXCEPT !.reply = reply]
  OBVIOUS
<1>1. /\ page # None /\ page.session \in StoredSession
      /\ UNCHANGED <<slot, sessions, page, notice, stored, kept, remembered, doubled, faults>>
  BY DEF PollSent, Shows, Loaded, View, FlowInv, PageOK, Page, Stays, Shop, Node
<1>2. View.id \in Ids /\ View.token \in Ids /\ page.minutes \in Nat
  BY <1>1, OfferType DEF View, StoredSession, FlowInv, PageOK, Page
<1>3. /\ r \in Request /\ r.waits /\ r.kind = "poll" /\ r.id \in Ids /\ r.token \in Ids
      /\ r.stage = "answered"
  BY <1>2, AsksType
<1>4. requests' = requests \cup {x}
  BY <1>0 DEF PollSent
<1> HIDE DEF r
<1>5. reply \in SessionState \cup {None}
  BY ServedSession, ReportType
<1> HIDE DEF reply
<1>6. /\ x \in Request /\ x.waits /\ x.kind = "poll" /\ x.id \in Ids /\ x.token \in Ids
      /\ x.stage = "answered"
  BY <1>0, <1>3, <1>5 DEF Request
<1>7. Carries(x)'
  BY <1>1, <1>6 DEF Carries
<1>8. page \in Page
  BY <1>1 DEF FlowInv, PageOK
<1>9. RequestsOK'
  BY <1>1, <1>4, <1>6, <1>7, <1>8, PageAsks
<1> QED
  BY <1>1, <1>9 DEF FlowInv, PageOK, NodeOK

LEMMA PollAnsweredInv ==
  ASSUME FlowInv, NEW r \in requests, PollAnswered(r)
  PROVE  FlowInv'
<1>1. /\ r.waits /\ r.kind = "poll" /\ UNCHANGED <<slot, sessions, remembered, doubled>>
  BY DEF PollAnswered, Waits, Shop, Node
<1>2. page \in Page /\ page # None /\ r \in Request /\ Carries(r) /\ PageOK
  BY <1>1 DEF FlowInv, RequestsOK, Carries, PageOK
<1>3. page.toppingUp = Finished(page, r.kind).toppingUp
  BY <1>1, <1>2, FinishedType
<1>4. CASE /\ r.reply # None
           /\ requests' = (requests \ {r}) \cup {[r EXCEPT !.stage = "reading"]}
           /\ UNCHANGED <<page, Stays>>
  <2> DEFINE x == [r EXCEPT !.stage = "reading"]
  <2>1. /\ x \in Request /\ x.kind = r.kind /\ x.id = r.id /\ x.token = r.token
        /\ x.waits = r.waits /\ x.reply = r.reply
    BY <1>2 DEF Request
  <2>2. requests' = (requests \ {r}) \cup {x} /\ UNCHANGED <<page, notice, stored, kept, faults>>
    BY <1>4 DEF Stays
  <2> HIDE DEF x
  <2>3. Carries(x)'
    BY <1>1, <1>2, <1>4, <2>1, <2>2 DEF Carries
  <2>4. RequestsOK'
    BY <1>1, <2>1, <2>2, <2>3, NodeLeaves DEF SameTime
  <2> QED
    BY <1>1, <2>2, <2>4 DEF FlowInv, PageOK, NodeOK
<1>5. CASE View # None /\ SetSession([page EXCEPT !.session = EndedRemotely(@)], requests \ {r})
  <2> DEFINE p == [page EXCEPT !.session = EndedRemotely(@)]
  <2>1. page.session \in StoredSession
    BY <1>2, <1>5 DEF Page, View
  <2>2. EndedRemotely(page.session) \in StoredSession
    BY <2>1 DEF EndedRemotely, StoredSession, Status
  <2>3. p \in Page /\ p.session \in StoredSession /\ p.toppingUp = page.toppingUp
    BY <1>2, <2>2, ShowsType
  <2> HIDE DEF p
  <2>4. /\ page' = p /\ requests' \subseteq requests \ {r}
        /\ stored' \in StoredSession \cup {None} /\ kept' \subseteq Ids
          /\ notice' = notice /\ faults' \in 0..MaxFaults
    BY <1>2, <1>5, <2>3, SetSessionEffect DEF p
  <2> QED
    BY <1>1, <1>3, <2>3, <2>4, AnswerTaken
<1>6. CASE requests' = requests \ {r} /\ UNCHANGED <<page, Stays>>
  <2>1. UNCHANGED <<page, notice, stored, kept, faults>>
    BY <1>6 DEF Stays
  <2> QED
    BY <1>1, <1>2, <1>3, <1>6, <2>1, AnswerTaken DEF PageOK
<1> QED
  BY <1>4, <1>5, <1>6 DEF PollAnswered

LEMMA PollReadInv ==
  ASSUME FlowInv, NEW r \in requests, PollRead(r)
  PROVE  FlowInv'
<1>0. PICK x : x = TopUpRequest(r.id, r.token, r.amount)
  OBVIOUS
<1> DEFINE p == IF AutoTopUp(r) THEN ToppingUp(page) ELSE page
           rs == (requests \ {r}) \cup {q \in {x} : AutoTopUp(r)}
           shown == View # None /\ View.id = r.id
<1>1. /\ r.waits /\ r.kind = "poll" /\ r.stage = "reading"
      /\ UNCHANGED <<slot, sessions, remembered>>
  BY DEF PollRead, Waits, Node
<1>2. page \in Page /\ page # None /\ r \in Request /\ Carries(r) /\ PageOK
  BY <1>1 DEF FlowInv, RequestsOK, Carries, PageOK
<1>3. r.id \in Ids /\ r.token \in Ids /\ r.reply \in SessionState
  BY <1>1, <1>2 DEF Carries, Request
<1>4. doubled' = IF AutoTopUp(r) THEN doubled \cup DoubledBy(r.id) ELSE doubled
  BY DEF PollRead
<1>5. p \in Page /\ p.session = page.session /\ (page.toppingUp => p.toppingUp)
      /\ (AutoTopUp(r) => p.toppingUp)
  BY <1>2, ToppingUpType
<1>6. \/ shown /\ SetSession([p EXCEPT !.session = Merged(@, r.reply)], rs)
      \/ SetPage(p, rs) /\ UNCHANGED Stays
  BY <1>0 DEF PollRead
<1> HIDE DEF p, rs
<1>7. /\ page' \in Page /\ page'.toppingUp = p.toppingUp /\ requests' \subseteq rs
      /\ stored' \in StoredSession \cup {None} /\ kept' \subseteq Ids
      /\ notice' = notice /\ faults' \in 0..MaxFaults
  <2>1. CASE SetPage(p, rs) /\ UNCHANGED Stays
    <3>1. page' = p /\ requests' \subseteq rs /\ UNCHANGED <<notice, stored, kept, faults>>
      BY <2>1, SetPageEffect DEF Stays
    <3> QED
      BY <1>2, <1>5, <3>1 DEF PageOK
  <2>2. CASE shown /\ SetSession([p EXCEPT !.session = Merged(@, r.reply)], rs)
    <3> DEFINE z == [p EXCEPT !.session = Merged(@, r.reply)]
    <3>1. page.session \in StoredSession
      BY <1>2, <2>2 DEF Page, View
    <3>2. Merged(p.session, r.reply) \in StoredSession
      BY <1>3, <1>5, <3>1, MergedType
    <3>3. z \in Page /\ z.session \in StoredSession /\ z.toppingUp = p.toppingUp
      BY <1>5, <3>2, ShowsType
    <3>4. SetSession(z, rs)
      BY <2>2
    <3> HIDE DEF z
    <3>5. /\ page' = z /\ requests' \subseteq rs
          /\ stored' \in StoredSession \cup {None} /\ kept' \subseteq Ids
          /\ notice' = notice /\ faults' \in 0..MaxFaults
      BY <1>2, <3>3, <3>4, SetSessionEffect
    <3> QED
      BY <3>3, <3>5
  <2> QED
    BY <1>6, <2>1, <2>2
<1> HIDE DEF shown
<1>8. CASE ~ AutoTopUp(r)
  <2>1. requests' \subseteq requests \ {r} /\ page'.toppingUp = Finished(page, r.kind).toppingUp
        /\ doubled' = doubled
    BY <1>1, <1>2, <1>4, <1>7, <1>8, FinishedType DEF p, rs
  <2> QED
    BY <1>1, <1>7, <2>1, AnswerTaken
<1>9. CASE AutoTopUp(r)
  <2>1. TopUpIdle /\ doubled' = doubled \cup DoubledBy(r.id)
    BY <1>4, <1>9 DEF AutoTopUp
  <2>0. r.amount \in Nat
    BY <1>2 DEF Request
  <2>2. /\ x \in Request /\ x.kind = "topup" /\ x.id \in Ids /\ x.waits /\ x.stage = "pricing"
        /\ \A q \in requests : q.kind = "topup" => ~ q.waits /\ (q.id = x.id => x.id \in doubled')
        /\ doubled \subseteq doubled' /\ doubled' \subseteq Ids
    BY <1>0, <1>2, <2>0, <1>3, <2>1, TopUpAsked
  <2>3. requests' \subseteq requests \cup {x}
    BY <1>7 DEF rs
  <2>4. Carries(x)'
    BY <1>5, <1>7, <1>9, <2>2, RecordAssumption DEF Carries
  <2>5. page.toppingUp => page'.toppingUp
    BY <1>5, <1>7
  <2>6. RequestsOK'
    BY <1>1, <1>2, <1>7, <2>2, <2>3, <2>4, <2>5, PageAsks
  <2> QED
    BY <1>1, <1>7, <2>2, <2>6 DEF FlowInv, PageOK, NodeOK
<1> QED
  BY <1>8, <1>9

\* A top-up asked for by a poll whose page is gone: the session is written down when
\* there is another.
LEMMA PollReadGoneInv ==
  ASSUME FlowInv, NEW r \in requests, PollReadGone(r)
  PROVE  FlowInv'
<1>1. /\ r.kind = "poll" /\ UNCHANGED <<slot, sessions, page, notice, stored, kept, remembered, faults>>
  BY DEF PollReadGone, Stays, Node
<1>2. r \in Request /\ Carries(r) /\ r.id \in Ids /\ r.token \in Ids /\ r.amount \in Nat
  BY <1>1 DEF FlowInv, RequestsOK, Carries, Request
<1>3. CASE requests' = requests \ {r} /\ UNCHANGED doubled
  BY <1>1, <1>3 DEF FlowInv, PageOK, NodeOK, RequestsOK, Carries, Alone
<1>4. CASE /\ requests' = (requests \ {r}) \cup Orphaned({TopUpRequest(r.id, r.token, r.amount)})
           /\ doubled' = doubled \cup ({r.id} \cap {q.id : q \in {t \in requests : t.kind = "topup"}})
  <2>1. PICK z : z = TopUpRequest(r.id, r.token, r.amount)
    OBVIOUS
  <2>2. PICK x : x = [z EXCEPT !.waits = FALSE]
    OBVIOUS
  <2>3. z \in Request /\ z.kind = "topup" /\ z.id = r.id /\ z.stage = "pricing"
    BY <1>2, <2>1, AsksType DEF TopUpRequest
  <2>4. x \in Request /\ x.kind = "topup" /\ x.id = r.id /\ x.stage = "pricing" /\ ~ x.waits
    BY <2>2, <2>3 DEF Request
  <2>5. requests' = (requests \ {r}) \cup {x}
    BY <1>4, <2>1, <2>2 DEF Orphaned
  <2>6. /\ doubled \subseteq doubled' /\ doubled' \subseteq Ids
        /\ \A q \in requests : q.kind = "topup" /\ q.id = r.id => r.id \in doubled'
    BY <1>2, <1>4 DEF FlowInv, PageOK
  <2>7. Carries(x)'
    BY <1>2, <2>4 DEF Carries
  <2>8. ASSUME NEW q \in requests PROVE Carries(q)'
    <3>1. q.waits => page' # None /\ (q.kind = "topup" => page'.toppingUp)
      BY <1>1 DEF FlowInv, RequestsOK, Carries
    <3> QED
      BY <1>1, <2>6, <3>1, StillCarries DEF SameTime
  <2>9. RequestsOK'
    BY <2>4, <2>5, <2>6, <2>7, <2>8, Added
  <2>10. NodeOK'
    BY <1>1, <2>6 DEF FlowInv, NodeOK
  <2> QED
    BY <1>1, <2>6, <2>9, <2>10 DEF FlowInv, PageOK
<1> QED
  BY <1>3, <1>4 DEF PollReadGone

LEMMA AnswerLostInv ==
  ASSUME FlowInv, NEW r \in requests, AnswerLost(r)
  PROVE  FlowInv'
<1> DEFINE x == [r EXCEPT !.waits = FALSE]
<1>1. /\ r.waits /\ r.kind # "poll" /\ faults < MaxFaults /\ faults' = faults + 1
      /\ UNCHANGED <<slot, sessions, notice, stored, kept, remembered, doubled>>
  BY DEF AnswerLost, Fault, Stays, Shop, Node
<1>2. page \in Page /\ page # None /\ r \in Request /\ Carries(r)
  BY <1>1 DEF FlowInv, RequestsOK, Carries, PageOK
<1>3. /\ page' = Finished(page, r.kind)
      /\ requests' \subseteq (requests \ {r}) \cup {q \in {x} : r.stage = "sent"}
  BY SetPageEffect DEF AnswerLost
<1>4. page' \in Page /\ page' # None
  BY <1>2, <1>3, FinishedType, RecordAssumption
<1>5. /\ x \in Request /\ x.kind = r.kind /\ x.id = r.id /\ ~ x.waits /\ x.stage = r.stage
      /\ x.amount = r.amount
  BY <1>2 DEF Request
<1> HIDE DEF x
<1>6. \A q \in requests \ {r} : Carries(q)'
  BY <1>1, <1>3, <1>4, OthersCarry
<1>7. ASSUME x \in requests' PROVE Carries(x)'
  <2>1. CASE x \in requests \ {r}
    BY <1>6, <2>1
  <2>2. CASE r.stage = "sent"
    BY <1>1, <1>2, <1>5, <2>2 DEF Carries
  <2> QED
    BY <1>3, <1>7, <2>1, <2>2
<1>8. requests' \subseteq (requests \ {r}) \cup {x}
  BY <1>3
<1>9. RequestsOK'
  BY <1>1, <1>5, <1>6, <1>7, <1>8, Replaced
<1>10. faults' \in 0..MaxFaults
  BY <1>1, BoundAssumption DEF FlowInv, PageOK
<1> QED
  BY <1>1, <1>4, <1>9, <1>10 DEF FlowInv, PageOK, NodeOK

---------------------------------------------------------------------------
(* The theorems *)

LEMMA StepInv == FlowInv /\ [Next]_vars => FlowInv'
<1> SUFFICES ASSUME FlowInv, [Next]_vars PROVE FlowInv'
  OBVIOUS
<1>1. CASE UNCHANGED vars
  BY <1>1 DEF vars, FlowInv, PageOK, NodeOK, RequestsOK, Carries, Alone
<1>2. CASE LoadPage \/ LoadNotice \/ LeavePage \/ NavigateAway \/ Connect \/ Disconnect \/ RestoreAnswered
  BY <1>2, LoadPageInv, LoadNoticeInv, LeavePageInv, WalletInv
<1>3. CASE \E m \in MinutesPicker : PressStart(m)
  BY <1>3, PressStartInv
<1>4. CASE PressTopUp \/ PressStop \/ Dismiss \/ PollSent
  BY <1>4, PressTopUpInv, PressStopInv, DismissInv, PollSentInv
<1>5. ASSUME NEW r \in requests,
             \/ Signs(r) \/ NotSigned(r)
             \/ NodeOpens(r) \/ NodeBanks(r) \/ NodeStops(r) \/ NodeRefunds(r)
             \/ OpenAnswered(r) \/ ActionAnswered(r) \/ PollAnswered(r) \/ PollRead(r)
             \/ PollReadGone(r) \/ AnswerLost(r)
      PROVE  FlowInv'
  BY <1>5, SignsInv, NotSignedInv, NodeOpensInv, NodeBanksInv, NodeStopsInv, NodeRefundsInv,
     OpenAnsweredInv, ActionAnsweredInv, PollAnsweredInv, PollReadInv, PollReadGoneInv, AnswerLostInv
<1>6. CASE EntryExpires \/ NodeMeters \/ NodeEnds \/ NodeFrees
  BY <1>6, EntryExpiresInv, NodeAloneInv
<1> QED
  BY <1>1, <1>2, <1>3, <1>4, <1>5, <1>6 DEF Next

\* What a page, its requests and the node have in hand, in every order of answers,
\* reloads and losses.
THEOREM FlowInvHolds == Spec => []FlowInv
<1>1. Init => FlowInv
  <2> SUFFICES ASSUME Init PROVE FlowInv
    OBVIOUS
  <2>1. 0 \in 0..MaxFaults
    BY BoundAssumption
  <2>2. PageOK
    BY <2>1 DEF Init, PageOK
  <2>3. NodeOK
    BY DEF Init, NodeOK
  <2>4. RequestsOK
    BY DEF Init, RequestsOK
  <2> QED
    BY <2>2, <2>3, <2>4 DEF FlowInv
<1> QED
  BY <1>1, StepInv, PTL DEF Spec

\* The page, what the browser stored, the node's sessions and every request keep
\* their types.
THEOREM FlowTypeCorrect == Spec => []TypeOK
<1>1. FlowInv => TypeOK
  BY DEF FlowInv, PageOK, NodeOK, RequestsOK, TypeOK
<1> QED
  BY <1>1, FlowInvHolds, PTL

\* A page has one top-up in flight at a time, and a session is sold past its length
\* only after a second top-up while one that nobody waits for was under way: being
\* signed for a page that is gone, or at the node (session-flow.tsx).
THEOREM OneTopUpAtATimeHolds == Spec => []OneTopUpAtATime
<1>1. FlowInv => OneTopUpAtATime
  <2> SUFFICES ASSUME FlowInv PROVE OneTopUpAtATime
    OBVIOUS
  <2> DEFINE waiting == {r \in requests : r.kind = "topup" /\ r.waits}
  <2>1. \A q, r \in waiting : q = r
    BY DEF FlowInv, RequestsOK, Alone
  <2>2. waiting = {} \/ \E r : waiting = {r}
    BY <2>1
  <2> HIDE DEF waiting
  <2>3. Cardinality(waiting) <= 1
    <3>1. CASE waiting = {}
      <4>1. Cardinality(waiting) = 0
        BY <3>1, FS_EmptySet
      <4> QED
        BY <4>1
    <3>2. CASE \E r : waiting = {r}
      <4>1. Cardinality(waiting) = 1
        BY <3>2, FS_Singleton
      <4> QED
        BY <4>1
    <3> QED
      BY <2>2, <3>1, <3>2
  <2> QED
    BY <2>3 DEF waiting, OneTopUpAtATime, FlowInv, NodeOK
<1> QED
  BY <1>1, FlowInvHolds, PTL

---------------------------------------------------------------------------
(* The handle of a session that runs is kept.  What could lose it is an entry *)
(* or an ending that is not this session's: so every id that goes round the   *)
(* page is followed back to the one answer that first named it.               *)

\* The node runs session i.
Alive(i) == sessions[i] # None /\ ~ IsSessionTerminal(sessions[i].status)

\* Ids the page knows, or has asked the node about.
Heard(i) ==
  \/ stored # None /\ stored.id = i
  \/ page # None /\ page.session # None /\ page.session.id = i
  \/ i \in kept
  \/ \E q \in requests : q.id = i

\* A session the browser holds: the node opened it, and it is not shown as over while
\* it runs and is kept.
HandleOK(v) ==
  v # None => /\ sessions[v.id] # None
              /\ IsSessionTerminal(v.status) => ~ (v.id \in kept /\ Alive(v.id))

\* What is stored and what is shown is held rightly, and a kept session that runs is both.
BrowserOK ==
  /\ HandleOK(stored)
  /\ page # None => HandleOK(page.session)
  /\ \A i \in kept :
       /\ sessions[i] # None
       /\ Alive(i) => HandleTo(stored, i) /\ (page # None => HandleTo(page.session, i))

\* What an answer says was so: its session is the one that was asked about, one told
\* to be over is, and a 404 is not about a session that runs and is kept.
AnswerOK(r) ==
  /\ r.stage \in {"answered", "reading"} \/ r.reply = None
  /\ r.id # None => sessions[r.id] # None
  /\ r.kind = "open" => r.id = None
  /\ r.kind = "poll" /\ r.reply = None => ~ (r.id \in kept /\ Alive(r.id))
  /\ r.reply # None =>
       /\ sessions[r.reply.id] # None
       /\ r.kind # "open" => r.reply.id = r.id
       /\ IsSessionTerminal(r.reply.status) => ~ Alive(r.reply.id)

\* The answer that names a new session; nobody has heard of it, and it is the only one.
Names(r) == r.kind = "open" /\ r.reply # None

\* A session's id reaches the browser by one answer, which nobody has run ahead of.
UnheardOK ==
  \A r \in requests : Names(r) =>
    /\ ~ Heard(r.reply.id)
    /\ \A q \in requests : Names(q) /\ q.reply.id = r.reply.id => q = r

\* Why a handle is kept, beside what the page and the node owe each other.
KeptInv ==
  /\ FlowInv
  /\ \A i \in Ids : Alive(i) => slot = i
  /\ BrowserOK
  /\ \A r \in requests : AnswerOK(r)
  /\ UnheardOK

\* Nobody opens a session, and none comes back to life.
NoneRevived ==
  \A i \in Ids : /\ sessions[i] # None => sessions'[i] # None
                 /\ Alive(i)' => Alive(i)

\* What is shown, stored, asked and answered has an id.
LEMMA KeptTypes ==
  ASSUME FlowInv
  PROVE  /\ page # None => page \in Page /\ page.session \in StoredSession \cup {None}
         /\ stored # None => stored \in StoredSession /\ stored.id \in Ids
         /\ kept \subseteq Ids
         /\ \A r \in requests :
              /\ r \in Request /\ r.id \in Ids \cup {None}
              /\ r.reply # None => r.reply \in SessionState /\ r.reply.id \in Ids
         /\ \A v \in StoredSession : v.id \in Ids
BY DEF FlowInv, PageOK, RequestsOK, Page, StoredSession, Request, SessionState

\* Requests the step only leaves, and what else it sends, when nothing is opened or
\* heard of for the first time.
LEMMA AnswersKept ==
  ASSUME KeptInv, NoneRevived, kept' \subseteq kept, \A i \in Ids : Heard(i)' => Heard(i),
         \A q \in requests' \ requests : AnswerOK(q)' /\ ~ Names(q)
  PROVE  (\A r \in requests' : AnswerOK(r)') /\ UnheardOK'
<1>1. ASSUME NEW r \in requests' \cap requests PROVE AnswerOK(r)'
  <2>1. AnswerOK(r) /\ r.id \in Ids \cup {None} /\ (r.reply # None => r.reply.id \in Ids)
    BY <1>1, KeptTypes DEF KeptInv
  <2>2. r.kind = "poll" => r.id \in Ids
    BY <1>1 DEF KeptInv, FlowInv, RequestsOK, Carries
  <2> QED
    BY <2>1, <2>2 DEF AnswerOK, NoneRevived
<1>2. ASSUME NEW r \in requests', Names(r)
      PROVE  /\ ~ Heard(r.reply.id)'
             /\ \A q \in requests' : Names(q) /\ q.reply.id = r.reply.id => q = r
  <2>1. r \in requests /\ r.reply.id \in Ids
    BY <1>2, KeptTypes DEF KeptInv, Names
  <2>2. /\ ~ Heard(r.reply.id)
        /\ \A q \in requests : Names(q) /\ q.reply.id = r.reply.id => q = r
    BY <1>2, <2>1 DEF KeptInv, UnheardOK
  <2> QED
    BY <2>1, <2>2
<1> QED
  BY <1>1, <1>2 DEF UnheardOK, Names

\* What a page has, and what the browser stored, once no session has come to life
\* and nothing was stored.
LEMMA BrowserKept ==
  ASSUME KeptInv, NoneRevived, UNCHANGED <<stored, kept>>,
         page' # None => page'.session = IF page = None THEN stored ELSE page.session
  PROVE  BrowserOK'
<1>1. ASSUME NEW v \in StoredSession \cup {None}, HandleOK(v) PROVE HandleOK(v)'
  BY <1>1, KeptTypes DEF KeptInv, HandleOK, NoneRevived
<1>2. HandleOK(stored)'
  <2>1. PICK v : v = stored
    OBVIOUS
  <2>2. v \in StoredSession \cup {None} /\ HandleOK(v)
    BY <2>1 DEF KeptInv, BrowserOK, FlowInv, PageOK, HandleOK
  <2>3. HandleOK(v)'
    BY <1>1, <2>2
  <2> QED
    BY <2>1, <2>3 DEF HandleOK
<1>3. page' # None => HandleOK(page.session)'
  <2> SUFFICES ASSUME page' # None PROVE HandleOK(page.session)'
    OBVIOUS
  <2>1. PICK v : v = page'.session
    OBVIOUS
  <2>2. v \in StoredSession \cup {None} /\ HandleOK(v)
    BY <2>1, KeptTypes DEF KeptInv, BrowserOK, FlowInv, PageOK, HandleOK
  <2>3. HandleOK(v)'
    BY <1>1, <2>2
  <2> QED
    BY <2>1, <2>3 DEF HandleOK
<1>4. ASSUME NEW i \in kept'
      PROVE  /\ sessions'[i] # None
             /\ Alive(i)' => HandleTo(stored', i) /\ (page' # None => HandleTo(page'.session, i))
  <2>1. i \in kept /\ i \in Ids /\ sessions[i] # None /\ (Alive(i)' => Alive(i))
    BY <1>4, KeptTypes DEF KeptInv, BrowserOK, NoneRevived
  <2>2. Alive(i) => HandleTo(stored, i) /\ (page # None => HandleTo(page.session, i))
    BY <2>1 DEF KeptInv, BrowserOK
  <2>3. sessions'[i] # None
    BY <2>1 DEF NoneRevived
  <2> QED
    BY <2>1, <2>2, <2>3 DEF HandleTo
<1>5. \A i \in kept' :
        /\ sessions'[i] # None
        /\ Alive(i)' => HandleTo(stored, i)' /\ (page' # None => HandleTo(page.session, i)')
  BY <1>4 DEF HandleTo
<1> QED
  BY <1>2, <1>3, <1>5 DEF BrowserOK

\* A step that gives the browser no other handle, and asks only for what was heard of.
LEMMA QuietStep ==
  ASSUME KeptInv, FlowInv', NoneRevived, UNCHANGED <<stored, kept>>,
         page' # None => page'.session = IF page = None THEN stored ELSE page.session,
         \A i \in Ids : Alive(i)' => slot' = i,
         \A q \in requests' \ requests : AnswerOK(q)' /\ ~ Names(q) /\ (q.id = None \/ Heard(q.id))
  PROVE  KeptInv'
<1>1. BrowserOK'
  BY BrowserKept
<1>2. \A i \in Ids : Heard(i)' => Heard(i)
  BY KeptTypes, NameAssumption DEF KeptInv, Heard
<1>3. (\A r \in requests' : AnswerOK(r)') /\ UnheardOK'
  BY <1>2, AnswersKept
<1> QED
  BY <1>1, <1>3 DEF KeptInv

\* As when the node is left alone as well.
LEMMA PageStep ==
  ASSUME KeptInv, FlowInv', UNCHANGED <<slot, sessions, stored, kept>>,
         page' # None => page'.session = IF page = None THEN stored ELSE page.session,
         \A q \in requests' \ requests : AnswerOK(q)' /\ ~ Names(q) /\ (q.id = None \/ Heard(q.id))
  PROVE  KeptInv'
<1>1. NoneRevived /\ \A i \in Ids : Alive(i)' => slot' = i
  BY DEF NoneRevived, Alive, KeptInv
<1> QED
  BY <1>1, QuietStep

\* A page lays what it was told of over the session it shows, and stores it.
LEMMA HandleLaid ==
  ASSUME KeptInv, FlowInv', UNCHANGED <<slot, sessions>>, page # None, page.session # None,
         NEW p \in Page, p.session # None, sessions[p.session.id] # None, Heard(p.session.id),
         NEW rs, SetSession(p, rs),
         p.session.id \in kept /\ Alive(p.session.id) =>
           p.session.token = p.session.id /\ ~ IsSessionTerminal(p.session.status),
         \A q \in requests' \ requests : AnswerOK(q)' /\ ~ Names(q) /\ (q.id = None \/ Heard(q.id))
  PROVE  KeptInv'
<1>1. PICK v \in StoredSession : v = p.session
  BY KeptTypes DEF Page
<1>2. /\ page' = p /\ stored' \in {v, stored} /\ v.id \in Ids /\ v # None
      /\ kept' = kept \ Displaced(v.id)
  BY <1>1, KeptTypes DEF SetSession, SetPage, SaveSession, View, KeptInv
<1>3. \A i \in Ids : (Alive(i)' <=> Alive(i)) /\ sessions'[i] = sessions[i]
  BY DEF Alive
<1>4. HandleOK(v)'
  BY <1>1, <1>2, <1>3 DEF HandleOK
<1>5. HandleOK(stored)'
  <2>1. PICK w : w = stored'
    OBVIOUS
  <2>2. CASE w = v
    BY <1>4, <2>1, <2>2 DEF HandleOK
  <2>3. CASE w = stored
    <3>1. HandleOK(w) /\ (w # None => w.id \in Ids)
      BY <2>3, KeptTypes DEF KeptInv, BrowserOK, HandleOK
    <3> QED
      BY <1>2, <1>3, <2>1, <3>1 DEF HandleOK
  <2> QED
    BY <1>2, <2>1, <2>2, <2>3
<1>6. ASSUME NEW i \in kept'
      PROVE  sessions'[i] # None /\ (Alive(i)' => HandleTo(v, i) /\ HandleTo(stored', i))
  <2>1. i \in kept /\ i \in Ids /\ i \notin Displaced(v.id)
    BY <1>2, <1>6, KeptTypes DEF KeptInv
  <2>2. sessions[i] # None /\ (Alive(i) => HandleTo(stored, i) /\ stored # None /\ stored.id = i)
    BY <2>1 DEF KeptInv, BrowserOK, HandleTo
  <2>3. Alive(i) => i = v.id
    BY <2>1, <2>2 DEF Displaced
  <2>4. Alive(i) => HandleTo(v, i)
    BY <1>1, <1>2, <2>1, <2>3 DEF HandleTo
  <2> QED
    BY <1>2, <1>3, <2>1, <2>2, <2>4
<1>9. BrowserOK'
  <2>1. page' # None => HandleOK(page.session)'
    BY <1>1, <1>2, <1>4 DEF HandleOK
  <2>2. \A i \in kept' :
          sessions'[i] # None /\ (Alive(i)' => HandleTo(stored, i)' /\ (page' # None => HandleTo(page.session, i)'))
    BY <1>1, <1>2, <1>6 DEF HandleTo
  <2> QED
    BY <1>5, <2>1, <2>2 DEF BrowserOK
<1>7. NoneRevived /\ kept' \subseteq kept /\ \A i \in Ids : Alive(i)' => slot' = i
  BY <1>2, <1>3 DEF NoneRevived, KeptInv
<1>8. \A i \in Ids : Heard(i)' => Heard(i)
  BY <1>1, <1>2, <1>7, KeptTypes, NameAssumption DEF KeptInv, Heard
<1>10. (\A r \in requests' : AnswerOK(r)') /\ UnheardOK'
  BY <1>7, <1>8, AnswersKept
<1> QED
  BY <1>9, <1>7, <1>10 DEF KeptInv

\* What is asked of the node is about a session the page was shown.
LEMMA AskOK ==
  ASSUME NEW kind \in {"open", "topup", "stop"}, NEW i \in Ids \cup {None},
         NEW token, NEW amount, NEW stage \in {"pricing", "sent", "ending"},
         kind = "open" => i = None, i # None => sessions'[i] # None,
         NEW q, q = Asks(kind, i, token, amount, stage)
  PROVE  AnswerOK(q)' /\ ~ Names(q) /\ q.id = i
BY DEF Asks, AnswerOK, Names

\* The same request, its answer not begun.
LEMMA StillUnanswered ==
  ASSUME KeptInv, UNCHANGED <<sessions, kept>>, NEW r \in requests, r.stage \notin {"answered", "reading"},
         NEW q \in Request, q.kind = r.kind, q.id = r.id, q.reply = r.reply, q.kind # "poll"
  PROVE  AnswerOK(q)' /\ ~ Names(q) /\ (q.id = None \/ Heard(q.id))
<1>1. AnswerOK(r) /\ r.reply = None
  BY DEF KeptInv, AnswerOK
<1> QED
  BY <1>1 DEF AnswerOK, Names, Heard

\* Each action keeps it, one lemma for each kind.
LEMMA LoadKept ==
  ASSUME KeptInv, FlowInv', LoadPage \/ Connect \/ Disconnect \/ RestoreAnswered
  PROVE  KeptInv'
<1>1. CASE LoadPage
  <2>1. /\ UNCHANGED <<slot, sessions, stored, kept, requests>> /\ page = None
        /\ page'.session = stored
    BY <1>1 DEF LoadPage, LoadSession, Loaded, Stays, Shop, Node
  <2> QED
    BY <2>1, PageStep
<1>2. CASE Connect \/ Disconnect \/ RestoreAnswered
  <2>1. PICK to : \E from : WalletStep(from, to)
    BY <1>2 DEF Connect, Disconnect, RestoreAnswered
  <2>2. /\ UNCHANGED <<slot, sessions, stored, kept>> /\ page # None
        /\ page' = [page EXCEPT !.wallet = to] /\ requests' \subseteq requests
    BY <2>1, SetPageEffect DEF WalletStep, Loaded, Stays, Shop, Node
  <2>3. page'.session = page.session
    BY <2>2, KeptTypes DEF KeptInv, Page
  <2> QED
    BY <2>2, <2>3, PageStep
<1> QED
  BY <1>1, <1>2

LEMMA NoticeKept ==
  ASSUME KeptInv, FlowInv', LoadNotice
  PROVE  KeptInv'
<1>1. UNCHANGED <<slot, sessions, stored, kept, page, requests>>
  BY DEF LoadNotice, Node
<1>2. page' # None => page'.session = IF page = None THEN stored ELSE page.session
  BY <1>1
<1> QED
  BY <1>1, <1>2, PageStep

LEMMA LeaveKept ==
  ASSUME KeptInv, FlowInv', LeavePage \/ NavigateAway
  PROVE  KeptInv'
<1>1. UNCHANGED <<slot, sessions, stored, kept>> /\ page' = None
  BY DEF LeavePage, NavigateAway, Node
<1>2. \A q \in requests' :
        \E r \in requests : q = [r EXCEPT !.waits = FALSE] /\ r.stage \in {"pricing", "sent", "reading"}
  <2>1. \A r \in requests : ~ r.waits => r.stage \in {"pricing", "sent", "reading"}
    BY DEF KeptInv, FlowInv, RequestsOK, Carries
  <2> QED
    BY <2>1 DEF LeavePage, NavigateAway, Orphaned
<1>3. ASSUME NEW q \in requests' \ requests
      PROVE  AnswerOK(q)' /\ ~ Names(q) /\ (q.id = None \/ Heard(q.id))
  <2>1. PICK r \in requests : q = [r EXCEPT !.waits = FALSE] /\ r.stage \in {"pricing", "sent", "reading"}
    BY <1>2
  <2>2. q.kind = r.kind /\ q.id = r.id /\ q.reply = r.reply /\ q.stage = r.stage
    BY <2>1, KeptTypes DEF KeptInv, Request
  <2>3. AnswerOK(r) /\ (r.reply = None \/ r.kind = "poll")
    BY <2>1 DEF KeptInv, AnswerOK, FlowInv, RequestsOK, Carries
  <2> QED
    BY <1>1, <2>2, <2>3 DEF AnswerOK, Names, Heard, Alive
<1> QED
  BY <1>1, <1>3, PageStep

\* The entry is dropped with the page closed: no session that runs was kept by it.
LEMMA ExpiresKept ==
  ASSUME KeptInv, FlowInv', EntryExpires
  PROVE  KeptInv'
<1>1. /\ UNCHANGED <<slot, sessions, requests>> /\ page = None /\ page' = None
      /\ stored # None /\ stored' = None /\ kept' = kept \ {stored.id}
  BY DEF EntryExpires, Loaded, Node
<1>2. NoneRevived /\ kept' \subseteq kept /\ (\A i \in Ids : Alive(i)' => slot' = i)
      /\ \A i \in Ids : Heard(i)' => Heard(i)
  BY <1>1 DEF NoneRevived, KeptInv, Alive, Heard
<1>3. ASSUME NEW i \in kept' PROVE sessions'[i] # None /\ ~ Alive(i)'
  BY <1>1, <1>3 DEF KeptInv, BrowserOK, HandleTo, Alive
<1>4. BrowserOK'
  BY <1>1, <1>3 DEF BrowserOK, HandleOK
<1>5. (\A r \in requests' : AnswerOK(r)') /\ UnheardOK'
  BY <1>1, <1>2, AnswersKept
<1> QED
  BY <1>2, <1>4, <1>5 DEF KeptInv

\* A session is dismissed when it is shown as over: it does not run.
LEMMA DismissKept ==
  ASSUME KeptInv, FlowInv', Dismiss
  PROVE  KeptInv'
<1>1. /\ UNCHANGED <<slot, sessions>> /\ page # None /\ page.session # None
      /\ IsSessionTerminal(page.session.status) /\ page' = [page EXCEPT !.session = None]
      /\ requests' \subseteq requests /\ stored' = None
      /\ kept' = kept \ Displaced(page.session.id)
  BY SetPageEffect DEF Dismiss, Shows, Loaded, View, SessionPanel, Node
<1>2. page'.session = None
  BY <1>1, KeptTypes DEF KeptInv, Page
<1>3. NoneRevived /\ kept' \subseteq kept /\ (\A i \in Ids : Alive(i)' => slot' = i)
      /\ \A i \in Ids : Heard(i)' => Heard(i)
  BY <1>1, <1>2 DEF NoneRevived, KeptInv, Alive, Heard
<1>4. ASSUME NEW i \in kept' PROVE sessions'[i] # None /\ ~ Alive(i)'
  BY <1>1, <1>4 DEF KeptInv, BrowserOK, HandleOK, HandleTo, Alive
<1>5. BrowserOK'
  BY <1>1, <1>2, <1>4 DEF BrowserOK, HandleOK
<1>6. (\A r \in requests' : AnswerOK(r)') /\ UnheardOK'
  BY <1>1, <1>3, AnswersKept
<1> QED
  BY <1>3, <1>5, <1>6 DEF KeptInv

LEMMA PressKept ==
  ASSUME KeptInv, FlowInv', (\E m \in MinutesPicker : PressStart(m)) \/ PressTopUp \/ PressStop
  PROVE  KeptInv'
<1>1. PICK kind \in {"open", "topup", "stop"}, i \in Ids \cup {None}, token \in Ids \cup {None}, amount \in Nat,
           stage \in {"pricing", "sent"} :
        /\ requests' \subseteq requests \cup {Asks(kind, i, token, amount, stage)}
        /\ kind = "open" => i = None
        /\ i # None => page.session # None /\ i = page.session.id
  <2>1. CASE \E m \in MinutesPicker : PressStart(m)
    <3>1. PICK m \in MinutesPicker : requests' \subseteq requests \cup {Asks("open", None, None, m, "pricing")}
      BY <2>1, SetPageEffect DEF PressStart
    <3>2. m \in Nat
      BY OfferType
    <3> QED
      BY <3>1, <3>2
  <2>2. CASE PressTopUp \/ PressStop
    <3>0. page # None /\ page.session # None
      BY <2>2 DEF PressTopUp, PressStop, Shows, Loaded, View
    <3>1. page.session.id \in Ids /\ page.session.token \in Ids /\ page.minutes \in Nat
      BY <3>0, OfferType, KeptTypes DEF Page, StoredSession, PressTopUp, PressStop, Shows, Loaded, View, KeptInv
    <3>2. \/ requests' \subseteq requests \cup {Asks("topup", page.session.id, page.session.token, page.minutes, "pricing")}
          \/ requests' \subseteq requests \cup {Asks("stop", page.session.id, page.session.token, 0, "sent")}
      BY <2>2, SetPageEffect DEF PressTopUp, PressStop, View, TopUpRequest
    <3> QED
      BY <3>0, <3>1, <3>2
  <2> QED
    BY <2>1, <2>2
<1>2. UNCHANGED <<slot, sessions, stored, kept>> /\ page # None /\ page'.session = page.session
  <2>1. UNCHANGED <<slot, sessions, stored, kept>> /\ page # None /\ page \in Page
    BY KeptTypes DEF PressStart, PressTopUp, PressStop, Shows, Loaded, Stays, Shop, Node, KeptInv
  <2>2. \/ page' = ToppingUp(page)
        \/ page' = [page EXCEPT !.busy = TRUE]
        \/ \E m : page' = [page EXCEPT !.minutes = m, !.busy = TRUE]
    BY SetPageEffect DEF PressStart, PressTopUp, PressStop
  <2> QED
    BY <2>1, <2>2, ToppingUpType DEF Page
<1>3. i # None => sessions'[i] # None /\ Heard(i)
  BY <1>1, <1>2 DEF KeptInv, BrowserOK, HandleOK, Heard
<1>4. ASSUME NEW q \in requests' \ requests
      PROVE  AnswerOK(q)' /\ ~ Names(q) /\ (q.id = None \/ Heard(q.id))
  <2>1. q = Asks(kind, i, token, amount, stage)
    BY <1>1, <1>4
  <2> QED
    BY <1>1, <1>3, <2>1, AskOK
<1> QED
  BY <1>2, <1>4, PageStep

LEMMA PayingKept ==
  ASSUME KeptInv, FlowInv', NEW r \in requests, Signs(r) \/ NotSigned(r)
  PROVE  KeptInv'
<1>1. r.stage = "pricing" /\ UNCHANGED <<slot, sessions, stored, kept>> /\ r \in Request /\ AnswerOK(r)
  BY KeptTypes DEF Signs, NotSigned, Stays, Shop, Node, KeptInv
<1>2. CASE NotSigned(r)
  <2>1. CASE r.waits
    <3>1. page' = Finished(page, r.kind) /\ requests' \subseteq requests
      BY <1>2, <2>1, SetPageEffect DEF NotSigned
    <3>2. page \in Page
      BY <2>1 DEF KeptInv, FlowInv, RequestsOK, Carries, PageOK
    <3>3. page # None
      BY <3>2, RecordAssumption
    <3> QED
      BY <1>1, <3>1, <3>2, <3>3, FinishedType, PageStep
  <2>2. CASE ~ r.waits
    <3>1. page' = page /\ requests' \subseteq requests
      BY <1>2, <2>2 DEF NotSigned
    <3>2. page' # None => page'.session = IF page = None THEN stored ELSE page.session
      BY <3>1
    <3> QED
      BY <1>1, <3>1, <3>2, PageStep
  <2> QED
    BY <2>1, <2>2
<1>3. CASE Signs(r)
  <2>1. PICK n : requests' = (requests \ {r}) \cup {[r EXCEPT !.stage = "sent", !.amount = n]}
    BY <1>3 DEF Signs
  <2>2. page' = page /\ r.kind # "poll"
    BY <1>3 DEF Signs, Quotes
  <2>3. ASSUME NEW q \in requests' \ requests
        PROVE  AnswerOK(q)' /\ ~ Names(q) /\ (q.id = None \/ Heard(q.id))
    <3>1. q = [r EXCEPT !.stage = "sent", !.amount = n]
      BY <2>1, <2>3
    <3>2. q.kind = r.kind /\ q.id = r.id /\ q.reply = r.reply /\ q.stage = "sent"
      BY <1>1, <3>1 DEF Request
    <3> QED
      BY <1>1, <2>2, <3>2 DEF AnswerOK, Names, Heard, Alive
  <2> QED
    BY <1>1, <2>2, <2>3, PageStep
<1> QED
  BY <1>2, <1>3

\* The node's answer to a request is about the session it was asked for.
LEMMA AnswerGiven ==
  ASSUME KeptInv, NoneRevived, kept' = kept, NEW r \in requests, r.kind # "poll",
         NEW reply \in SessionState \cup {None}, Answers(r, reply), r.kind = "open" => reply = None,
         reply # None =>
           /\ reply.id = r.id /\ r.id \in Ids
           /\ IsSessionTerminal(reply.status) => ~ Alive(r.id)'
  PROVE  \A q \in requests' \ requests : AnswerOK(q)' /\ ~ Names(q) /\ (q.id = None \/ Heard(q.id))
<1> SUFFICES ASSUME NEW q \in requests' \ requests
             PROVE  AnswerOK(q)' /\ ~ Names(q) /\ (q.id = None \/ Heard(q.id))
  OBVIOUS
<1>1. q = [r EXCEPT !.stage = "answered", !.reply = reply]
  BY DEF Answers
<1>2. q.kind = r.kind /\ q.id = r.id /\ q.reply = reply /\ q.stage = "answered"
  BY <1>1, KeptTypes DEF KeptInv, Request
<1>3. AnswerOK(r) /\ r.id \in Ids \cup {None}
  BY KeptTypes DEF KeptInv
<1>4. r.id # None => sessions'[r.id] # None
  BY <1>3 DEF AnswerOK, NoneRevived
<1>5. reply # None => reply.id = r.id /\ r.id # None
  BY NameAssumption
<1> QED
  BY <1>2, <1>3, <1>4, <1>5 DEF AnswerOK, Names, Heard

\* An id the node has not given out is new to everyone.
LEMMA Unheard ==
  ASSUME KeptInv, NEW i \in Ids, sessions[i] = None
  PROVE  ~ Heard(i) /\ (\A q \in requests : q.reply # None => q.reply.id # i)
BY NameAssumption DEF KeptInv, BrowserOK, HandleOK, AnswerOK, Heard

LEMMA OpensKept ==
  ASSUME KeptInv, FlowInv', NEW r \in requests, NodeOpens(r)
  PROVE  KeptInv'
<1>1. r.kind = "open" /\ UNCHANGED <<page, stored, kept>>
  BY DEF NodeOpens, NodeSide, Stays, Shop
<1>2. CASE Answers(r, None) /\ UNCHANGED Node
  <2>1. UNCHANGED <<slot, sessions>> /\ NoneRevived
    BY <1>2 DEF Node, NoneRevived, Alive
  <2>2. \A q \in requests' \ requests : AnswerOK(q)' /\ ~ Names(q) /\ (q.id = None \/ Heard(q.id))
    BY <1>1, <1>2, <2>1, AnswerGiven
  <2> QED
    BY <1>1, <2>1, <2>2, PageStep
<1>3. CASE \E i \in Ids :
             LET s == [status |-> "active", length |-> r.amount, bought |-> FirstPayment(r.amount)]
             IN  /\ slot = None /\ sessions[i] = None /\ slot' = i
                 /\ sessions' = [sessions EXCEPT ![i] = s] /\ Answers(r, Report(i, s))
  <2>0. PICK s : s = [status |-> "active", length |-> r.amount, bought |-> FirstPayment(r.amount)]
    OBVIOUS
  <2>1. PICK i \in Ids :
          /\ slot = None /\ sessions[i] = None /\ slot' = i /\ s.status = "active"
          /\ sessions' = [sessions EXCEPT ![i] = s] /\ Answers(r, Report(i, s))
    BY <1>3, <2>0
  <2>2. PICK x : x = [r EXCEPT !.stage = "answered", !.reply = Report(i, s)]
    OBVIOUS
  <2>3. /\ x.kind = "open" /\ x.id = None /\ x.stage = "answered"
        /\ x.reply.id = i /\ x.reply.status = "active"
        /\ requests' \subseteq (requests \ {r}) \cup {x}
    BY <1>1, <2>1, <2>2, KeptTypes DEF KeptInv, AnswerOK, Request, Report, Answers
  <2>4. \A j \in Ids \ {i} : sessions'[j] = sessions[j]
    BY <2>1 DEF KeptInv, FlowInv, NodeOK
  <2>5. sessions'[i] = s /\ s # None
    <3>1. sessions'[i] = s
      BY <2>1 DEF KeptInv, FlowInv, NodeOK
    <3> QED
      BY <2>1, <3>1, NameAssumption DEF FlowInv, NodeOK
  <2>6. ~ Heard(i) /\ (\A q \in requests : q.reply # None => q.reply.id # i)
    BY <2>1, Unheard
  <2>7. \A j \in Ids : ~ Alive(j)
    BY <2>1, NameAssumption DEF KeptInv
  <2>8. \A j \in Ids : Alive(j)' => slot' = j
    BY <2>1, <2>4, <2>7 DEF Alive
  <2>9. \A j \in Ids : Heard(j)' => Heard(j)
    BY <1>1, <2>3, NameAssumption DEF Heard
  <2>10. BrowserOK'
    <3>1. ASSUME NEW j \in Ids, Heard(j) PROVE sessions'[j] = sessions[j]
      BY <2>4, <2>6, <3>1
    <3>2. stored # None => Heard(stored.id) /\ stored.id \in Ids
      BY KeptTypes DEF KeptInv, Heard
    <3>3. page # None /\ page.session # None => Heard(page.session.id) /\ page.session.id \in Ids
      BY KeptTypes DEF KeptInv, Heard
    <3>4. \A j \in kept : Heard(j) /\ j \in Ids
      BY KeptTypes DEF KeptInv, Heard
    <3>5. HandleOK(stored)'
      BY <1>1, <3>1, <3>2 DEF KeptInv, BrowserOK, HandleOK, Alive
    <3>6. page # None => HandleOK(page.session)'
      BY <1>1, <3>1, <3>3 DEF KeptInv, BrowserOK, HandleOK, Alive
    <3>7. \A j \in kept : sessions'[j] # None /\ ~ Alive(j)'
      BY <2>7, <3>1, <3>4 DEF KeptInv, BrowserOK, Alive
    <3> QED
      BY <1>1, <3>5, <3>6, <3>7 DEF BrowserOK
  <2>11. ASSUME NEW q \in requests' PROVE AnswerOK(q)'
    <3>1. CASE q = x
      BY <2>1, <2>3, <2>5, <3>1 DEF AnswerOK, IsSessionTerminal
    <3>2. CASE q \in requests
      <4>1. AnswerOK(q) /\ q.id \in Ids \cup {None} /\ (q.reply # None => q.reply.id \in Ids /\ q.reply.id # i)
        BY <2>6, <3>2, KeptTypes DEF KeptInv
      <4>2. q.id # i /\ (q.kind = "poll" => q.id \in Ids)
        BY <2>6, <3>2 DEF Heard, KeptInv, FlowInv, RequestsOK, Carries
      <4> QED
        BY <1>1, <2>4, <2>7, <4>1, <4>2 DEF AnswerOK, Alive
    <3> QED
      BY <2>3, <3>1, <3>2
  <2>12. UnheardOK'
    <3>1. ASSUME NEW q \in requests', Names(q)
          PROVE  /\ ~ Heard(q.reply.id)'
                 /\ \A z \in requests' : Names(z) /\ z.reply.id = q.reply.id => z = q
      <4>1. CASE q = x
        BY <2>3, <2>6, <2>9, <3>1, <4>1 DEF Names
      <4>2. CASE q # x
        <5>1. q \in requests /\ q.reply.id \in Ids /\ q.reply.id # i
          BY <2>3, <2>6, <3>1, <4>2, KeptTypes DEF Names, KeptInv
        <5> QED
          BY <2>3, <2>9, <3>1, <5>1 DEF KeptInv, UnheardOK
      <4> QED
        BY <4>1, <4>2
    <3> QED
      BY <3>1 DEF UnheardOK, Names
  <2> QED
    BY <2>8, <2>10, <2>11, <2>12 DEF KeptInv
<1> QED
  <2> DEFINE free == {i \in Ids : sessions[i] = None}
  <2>1. free # {} => (CHOOSE j \in free : TRUE) \in free
    OBVIOUS
  <2> QED
    BY <1>2, <1>3, <2>1 DEF NodeOpens

\* A session takes another status, or is paid for: one that is over stays over.
LEMMA ServedKept ==
  ASSUME KeptInv, FlowInv', UNCHANGED <<page, stored, kept>>,
         NEW i \in Ids, slot' = slot \/ (slot' = None /\ ~ Alive(slot)),
         \A j \in Ids \ {i} : sessions'[j] = sessions[j],
         sessions[i] # None, sessions'[i] # None,
         IsSessionTerminal(sessions[i].status) => IsSessionTerminal(sessions'[i].status),
         \A q \in requests' \ requests : AnswerOK(q)' /\ ~ Names(q) /\ (q.id = None \/ Heard(q.id))
  PROVE  KeptInv'
<1>1. NoneRevived
  BY DEF NoneRevived, Alive
<1>2. ASSUME NEW j \in Ids, Alive(j)' PROVE slot' = j
  <2>1. Alive(j) /\ slot = j
    BY <1>1, <1>2 DEF NoneRevived, KeptInv
  <2> QED
    BY <2>1
<1> QED
  BY <1>1, <1>2, QuietStep

LEMMA BanksKept ==
  ASSUME KeptInv, FlowInv', NEW r \in requests, NodeBanks(r)
  PROVE  KeptInv'
<1>1. /\ r.kind = "topup" /\ r.stage = "sent" /\ UNCHANGED <<slot, page, stored, kept>>
  BY DEF NodeBanks, NodeSide, Stays, Shop
<1>2. /\ r.id \in Ids /\ sessions[r.id] # None /\ sessions[r.id] \in Session
      /\ sessions \in [Ids -> Session \cup {None}]
  BY <1>1 DEF KeptInv, FlowInv, RequestsOK, Carries, NodeOK
<1>3. CASE Answers(r, None) /\ UNCHANGED sessions
  <2>1. NoneRevived
    BY <1>3 DEF NoneRevived, Alive
  <2>2. \A q \in requests' \ requests : AnswerOK(q)' /\ ~ Names(q) /\ (q.id = None \/ Heard(q.id))
    BY <1>1, <1>3, <2>1, AnswerGiven
  <2> QED
    BY <1>1, <1>3, <2>2, PageStep
<1>4. CASE LET s == [sessions[r.id] EXCEPT !.bought = @ + r.amount,
                                         !.status = IF IsSessionTerminal(@) THEN @ ELSE "active"]
           IN  sessions' = [sessions EXCEPT ![r.id] = s] /\ Answers(r, Report(r.id, s))
  <2>1. PICK s : /\ s = [sessions[r.id] EXCEPT !.bought = @ + r.amount,
                                               !.status = IF IsSessionTerminal(@) THEN @ ELSE "active"]
                 /\ sessions' = [sessions EXCEPT ![r.id] = s] /\ Answers(r, Report(r.id, s))
    BY <1>4
  <2>2. /\ s.status = IF IsSessionTerminal(sessions[r.id].status) THEN sessions[r.id].status ELSE "active"
        /\ s \in Session
    <3>1. sessions[r.id].bought + r.amount \in Nat
      BY <1>2, KeptTypes DEF KeptInv, Session, Request
    <3> QED
      BY <1>2, <2>1, <3>1 DEF Session, Status
  <2>3. (\A j \in Ids \ {r.id} : sessions'[j] = sessions[j]) /\ sessions'[r.id] = s /\ s # None
    BY <1>2, <2>1, <2>2, RecordAssumption
  <2>4. NoneRevived
    BY <1>2, <2>2, <2>3 DEF NoneRevived, Alive
  <2>5. PICK reply : reply = Report(r.id, s)
    OBVIOUS
  <2>6. reply \in SessionState /\ reply.id = r.id /\ reply.status = s.status
    <3>1. reply \in SessionState
      BY <1>2, <2>2, <2>5, ReportType
    <3> QED
      BY <2>5, <3>1 DEF Report
  <2>7. IsSessionTerminal(reply.status) => ~ Alive(r.id)'
    BY <2>3, <2>6 DEF Alive
  <2>8. \A q \in requests' \ requests : AnswerOK(q)' /\ ~ Names(q) /\ (q.id = None \/ Heard(q.id))
    BY <1>1, <1>2, <2>1, <2>4, <2>5, <2>6, <2>7, AnswerGiven
  <2>9. IsSessionTerminal(sessions[r.id].status) => IsSessionTerminal(sessions'[r.id].status)
    BY <2>2, <2>3
  <2> QED
    BY <1>1, <1>2, <2>3, <2>8, <2>9, ServedKept
<1> QED
  BY <1>3, <1>4 DEF NodeBanks

LEMMA StopsKept ==
  ASSUME KeptInv, FlowInv', NEW r \in requests, NodeStops(r)
  PROVE  KeptInv'
<1>1. /\ r.kind = "stop" /\ r.stage = "sent" /\ UNCHANGED <<slot, page, stored, kept>>
  BY DEF NodeStops, NodeSide, Stays, Shop
<1>2. CASE ~ Serves(r)
  <2>1. Answers(r, None) /\ UNCHANGED sessions
    BY <1>2 DEF NodeStops
  <2>2. NoneRevived
    BY <2>1 DEF NoneRevived, Alive
  <2>3. \A q \in requests' \ requests : AnswerOK(q)' /\ ~ Names(q) /\ (q.id = None \/ Heard(q.id))
    BY <1>1, <2>1, <2>2, AnswerGiven
  <2> QED
    BY <1>1, <2>1, <2>3, PageStep
<1>3. CASE Serves(r)
  <2>1. r.id \in Ids /\ sessions[r.id] \in Session /\ sessions[r.id] # None
    BY <1>3, ServedSession DEF KeptInv
  <2>2. sessions' = [sessions EXCEPT ![r.id].status = "over"]
    BY <1>3 DEF NodeStops
  <2>3. (\A j \in Ids \ {r.id} : sessions'[j] = sessions[j]) /\ sessions'[r.id].status = "over"
    BY <2>1, <2>2 DEF KeptInv, FlowInv, NodeOK, Session
  <2>4. sessions'[r.id] # None
    BY <1>1, <1>3, <2>1 DEF Serves, FlowInv, NodeOK
  <2>5. ASSUME NEW q \in requests' \ requests
        PROVE  AnswerOK(q)' /\ ~ Names(q) /\ (q.id = None \/ Heard(q.id))
    <3>1. q = [r EXCEPT !.stage = "ending"]
      BY <1>3, <2>5 DEF NodeStops
    <3>2. q.kind = r.kind /\ q.id = r.id /\ q.reply = r.reply /\ q.stage = "ending"
      BY <3>1, KeptTypes DEF KeptInv, Request
    <3>3. r.reply = None
      BY <1>1 DEF KeptInv, AnswerOK
    <3> QED
      BY <1>1, <2>4, <3>2, <3>3 DEF AnswerOK, Names, Heard
  <2>6. IsSessionTerminal(sessions'[r.id].status)
    BY <2>3 DEF IsSessionTerminal
  <2> QED
    BY <1>1, <2>1, <2>3, <2>4, <2>5, <2>6, ServedKept
<1> QED
  BY <1>2, <1>3

\* A stopped session that has left the slot does not run.
LEMMA RefundsKept ==
  ASSUME KeptInv, FlowInv', NEW r \in requests, NodeRefunds(r)
  PROVE  KeptInv'
<1>1. /\ r.kind = "stop" /\ r.stage = "ending" /\ slot # r.id
      /\ UNCHANGED <<slot, sessions, page, stored, kept>>
  BY DEF NodeRefunds, NodeSide, Stays, Shop, Node
<1>2. r.id \in Ids /\ sessions[r.id] \in Session
  BY <1>1 DEF KeptInv, FlowInv, RequestsOK, Carries, NodeOK
<1>3. PICK reply \in SessionState : reply.id = r.id /\ Answers(r, reply)
  <2>1. PICK settled \in BOOLEAN : Answers(r, [Report(r.id, sessions[r.id]) EXCEPT !.settled = settled])
    BY DEF NodeRefunds
  <2>2. [Report(r.id, sessions[r.id]) EXCEPT !.settled = settled] \in SessionState
    BY <1>2, ReportType
  <2>3. [Report(r.id, sessions[r.id]) EXCEPT !.settled = settled].id = r.id
    BY DEF Report
  <2> QED
    BY <2>1, <2>2, <2>3
<1>4. NoneRevived /\ ~ Alive(r.id)'
  BY <1>1, <1>2 DEF NoneRevived, Alive, KeptInv
<1>5. \A q \in requests' \ requests : AnswerOK(q)' /\ ~ Names(q) /\ (q.id = None \/ Heard(q.id))
  BY <1>1, <1>2, <1>3, <1>4, AnswerGiven
<1> QED
  BY <1>1, <1>5, PageStep

LEMMA NodeAloneKept ==
  ASSUME KeptInv, FlowInv', NodeMeters \/ NodeEnds \/ NodeFrees
  PROVE  KeptInv'
<1>1. /\ UNCHANGED <<requests, page, stored, kept>> /\ slot \in Ids /\ slot # None
      /\ sessions[slot] \in Session /\ sessions[slot] # None
      /\ sessions \in [Ids -> Session \cup {None}]
  BY DEF NodeMeters, NodeEnds, NodeFrees, NodeSide, Stays, Shop, KeptInv, FlowInv, NodeOK
<1>2. PICK i \in Ids : i = slot
  BY <1>1
<1>3. CASE NodeMeters \/ NodeEnds
  <2>1. ~ IsSessionTerminal(sessions[i].status) /\ slot' = slot
        /\ \E status : sessions' = [sessions EXCEPT ![i].status = status]
    BY <1>2, <1>3 DEF NodeMeters, NodeEnds, IsSessionTerminal
  <2>2. (\A j \in Ids \ {i} : sessions'[j] = sessions[j]) /\ sessions'[i] # None
    BY <1>1, <1>2, <2>1 DEF FlowInv, NodeOK
  <2> QED
    BY <1>1, <1>2, <2>1, <2>2, ServedKept
<1>4. CASE NodeFrees
  BY <1>1, <1>2, <1>4, ServedKept DEF NodeFrees, Alive
<1> QED
  BY <1>3, <1>4

LEMMA FruitlessKept ==
  ASSUME KeptInv, FlowInv', NEW r \in requests, r.waits, Fruitless(r), UNCHANGED <<slot, sessions>>
  PROVE  KeptInv'
<1>1. page \in Page /\ page # None
  BY RecordAssumption DEF KeptInv, FlowInv, RequestsOK, Carries, PageOK
<1>2. page' = Finished(page, r.kind) /\ requests' \subseteq requests /\ UNCHANGED <<stored, kept>>
  BY SetPageEffect DEF Fruitless, Stays, Shop
<1> QED
  BY <1>1, <1>2, FinishedType, PageStep

\* The answer that names a new session gives the page its handle, and whatever other
\* session the entry held is displaced with it.
LEMMA OpenAnsweredKept ==
  ASSUME KeptInv, FlowInv', NEW r \in requests, OpenAnswered(r)
  PROVE  KeptInv'
<1>1. /\ r.waits /\ r.kind = "open" /\ UNCHANGED <<slot, sessions>>
  BY DEF OpenAnswered, Waits, Node
<1>2. page \in Page /\ page # None /\ r \in Request /\ r.reply \in SessionState \cup {None}
  BY <1>1, RecordAssumption, KeptTypes DEF KeptInv, FlowInv, RequestsOK, Carries, PageOK
<1>3. CASE Fruitless(r)
  BY <1>1, <1>3, FruitlessKept
<1>4. CASE /\ r.reply # None
           /\ SetSession(
                [Finished(page, "open") EXCEPT !.session =
                  [id |-> r.reply.id, status |-> r.reply.status, full |-> r.reply.full, settled |-> r.reply.settled,
                   token |-> r.reply.id, ended_remotely |-> FALSE]],
                requests \ {r})
  <2>1. PICK v : v = [id |-> r.reply.id, status |-> r.reply.status, full |-> r.reply.full,
                      settled |-> r.reply.settled, token |-> r.reply.id, ended_remotely |-> FALSE]
    OBVIOUS
  <2>2. v \in StoredSession /\ v.id = r.reply.id /\ v.token = v.id /\ v.status = r.reply.status /\ v.id \in Ids
    BY <1>2, <1>4, <2>1 DEF SessionState, StoredSession
  <2> DEFINE p == [Finished(page, "open") EXCEPT !.session = v]
  <2>3. p \in Page /\ p.session = v
    BY <1>2, <2>2, FinishedType, ShowsType
  <2>4. SetSession(p, requests \ {r})
    BY <1>4, <2>1
  <2> HIDE DEF p
  <2>5. /\ page' = p /\ page'.session = v /\ requests' \subseteq requests \ {r}
        /\ \/ stored' = v /\ kept' \subseteq (kept \ Displaced(v.id)) \cup {v.id}
           \/ stored' = stored /\ kept' \subseteq kept \ Displaced(v.id)
    BY <2>3, <2>4, SetPageEffect DEF SetSession, SaveSession
  <2>6. v # None
    BY <2>2, RecordAssumption
  <2>7. /\ ~ Heard(v.id) /\ sessions[v.id] # None
        /\ IsSessionTerminal(v.status) => ~ Alive(v.id)
        /\ \A q \in requests : Names(q) /\ q.reply.id = v.id => q = r
    BY <1>1, <1>4, <2>2 DEF KeptInv, UnheardOK, AnswerOK, Names
  <2>8. \A i \in Ids : (Alive(i)' <=> Alive(i)) /\ sessions'[i] = sessions[i]
    BY <1>1 DEF Alive
  <2>9. ASSUME NEW i \in kept'
        PROVE  sessions'[i] # None /\ (Alive(i)' => HandleTo(v, i) /\ stored' = v)
    <3>1. CASE i = v.id
      <4>1. v.id \notin kept
        BY <2>7 DEF Heard
      <4>2. stored' = v
        BY <2>5, <2>9, <3>1, <4>1
      <4> QED
        BY <1>1, <2>2, <2>6, <2>7, <3>1, <4>2 DEF HandleTo
    <3>2. CASE i # v.id
      <4>1. i \in kept /\ i \in Ids /\ i \notin Displaced(v.id)
        BY <2>5, <2>9, <3>2, KeptTypes DEF KeptInv
      <4>2. sessions[i] # None /\ (Alive(i) => stored # None /\ stored.id = i)
        BY <4>1 DEF KeptInv, BrowserOK, HandleTo
      <4> QED
        BY <2>8, <3>2, <4>1, <4>2 DEF Displaced
    <3> QED
      BY <3>1, <3>2
  <2>10. BrowserOK'
    <3>1. \A w \in {v, stored} : w # None =>
            /\ w.id \in Ids /\ sessions[w.id] # None
            /\ IsSessionTerminal(w.status) => ~ (w.id \in kept \cup {v.id} /\ Alive(w.id))
      <4>1. HandleOK(stored) /\ (stored # None => stored.id \in Ids /\ stored.id # v.id)
        BY <2>7, KeptTypes DEF KeptInv, BrowserOK, HandleOK, Heard
      <4> QED
        BY <2>2, <2>7, <4>1 DEF HandleOK
    <3>2. kept' \subseteq kept \cup {v.id} /\ stored' \in {v, stored}
      BY <2>5
    <3>3. HandleOK(stored)'
      BY <2>8, <3>1, <3>2 DEF HandleOK
    <3>4. HandleOK(page.session)'
      BY <2>5, <2>8, <3>1, <3>2 DEF HandleOK
    <3>5. \A i \in kept' :
            sessions'[i] # None /\ (Alive(i)' => HandleTo(stored, i)' /\ (page' # None => HandleTo(page.session, i)'))
      BY <2>5, <2>9 DEF HandleTo
    <3> QED
      BY <3>3, <3>4, <3>5 DEF BrowserOK
  <2>11. ASSUME NEW q \in requests' PROVE AnswerOK(q)'
    <3>1. q \in requests /\ AnswerOK(q) /\ q.id # v.id /\ (q.kind = "poll" => q.id \in Ids)
      BY <2>5, <2>7 DEF Heard, KeptInv, FlowInv, RequestsOK, Carries
    <3>2. q.id \in kept' => q.id \in kept
      BY <2>5, <3>1
    <3> QED
      BY <1>1, <3>1, <3>2 DEF AnswerOK, Alive
  <2>12. ASSUME NEW q \in requests', Names(q)
         PROVE  /\ ~ Heard(q.reply.id)'
                /\ \A z \in requests' : Names(z) /\ z.reply.id = q.reply.id => z = q
    <3>1. q \in requests /\ q # r /\ q.reply.id # v.id
      BY <2>5, <2>7, <2>12
    <3>2. ~ Heard(q.reply.id) /\ \A z \in requests : Names(z) /\ z.reply.id = q.reply.id => z = q
      BY <2>12, <3>1 DEF KeptInv, UnheardOK
    <3> QED
      BY <2>5, <3>1, <3>2 DEF Heard
  <2>13. UnheardOK'
    BY <2>12 DEF UnheardOK, Names
  <2>14. \A i \in Ids : Alive(i)' => slot' = i
    BY <1>1, <2>8 DEF KeptInv
  <2> QED
    BY <2>10, <2>11, <2>13, <2>14 DEF KeptInv
<1> QED
  BY <1>3, <1>4 DEF OpenAnswered

\* A report laid over the session shown leaves a handle that was kept as it is.
LEMMA MergedOK ==
  ASSUME KeptInv, page # None, page.session # None, NEW r \in requests, r.kind # "open", r.reply # None,
         NEW v, v = Merged(page.session, r.reply)
  PROVE  /\ v \in StoredSession /\ v # None /\ v.id = r.id /\ sessions[v.id] # None /\ Heard(v.id)
         /\ v.id \in kept /\ Alive(v.id) => v.token = v.id /\ ~ IsSessionTerminal(v.status)
<1>1. page.session \in StoredSession /\ r.reply \in SessionState
  BY KeptTypes DEF KeptInv
<1>2. v \in StoredSession
  BY <1>1, MergedType
<1>3. /\ v.id = r.reply.id /\ v.status = r.reply.status /\ v.token = page.session.token
  BY <1>1 DEF Merged, StoredSession
<1>4. AnswerOK(r)
  BY DEF KeptInv
<1>5. r.reply.id = r.id /\ sessions[r.reply.id] # None /\ Heard(r.id)
  BY <1>4 DEF AnswerOK, Heard
<1>6. v.id \in kept /\ Alive(v.id) => page.session.id = v.id /\ page.session.token = v.id
  BY DEF KeptInv, BrowserOK, HandleTo
<1>7. v # None
  BY <1>2, RecordAssumption
<1> QED
  BY <1>2, <1>3, <1>4, <1>5, <1>6, <1>7 DEF AnswerOK

LEMMA ActionAnsweredKept ==
  ASSUME KeptInv, FlowInv', NEW r \in requests, ActionAnswered(r)
  PROVE  KeptInv'
<1>1. r.waits /\ r.kind # "open" /\ UNCHANGED <<slot, sessions>>
  BY DEF ActionAnswered, Waits, Node
<1>2. page \in Page /\ page # None
  BY <1>1, RecordAssumption DEF KeptInv, FlowInv, RequestsOK, Carries, PageOK
<1>3. CASE Fruitless(r)
  BY <1>1, <1>3, FruitlessKept
<1>4. CASE /\ r.reply # None /\ View # None
           /\ SetSession([Finished(page, r.kind) EXCEPT !.session = Merged(@, r.reply)], requests \ {r})
  <2> DEFINE f == Finished(page, r.kind)
  <2>1. f \in Page /\ f.session = page.session
    BY <1>2, FinishedType
  <2> HIDE DEF f
  <2>2. PICK v : v = Merged(page.session, r.reply)
    OBVIOUS
  <2>3. PICK p : p = [f EXCEPT !.session = Merged(@, r.reply)]
    OBVIOUS
  <2>4. /\ v \in StoredSession /\ v # None /\ sessions[v.id] # None /\ Heard(v.id)
        /\ v.id \in kept /\ Alive(v.id) => v.token = v.id /\ ~ IsSessionTerminal(v.status)
    BY <1>1, <1>2, <1>4, <2>2, MergedOK DEF View
  <2>5. p \in Page /\ p.session = v /\ SetSession(p, requests \ {r})
    BY <1>4, <2>1, <2>2, <2>3, <2>4, ShowsType DEF f
  <2>6. requests' \subseteq requests
    BY <2>5, SetPageEffect DEF SetSession
  <2> QED
    BY <1>1, <1>2, <1>4, <2>4, <2>5, <2>6, HandleLaid DEF View
<1> QED
  BY <1>3, <1>4 DEF ActionAnswered

\* A poll of a session that runs and is kept finds it: the page has its token.
LEMMA PollSentKept ==
  ASSUME KeptInv, FlowInv', PollSent
  PROVE  KeptInv'
<1>1. /\ UNCHANGED <<slot, sessions, page, stored, kept>> /\ page # None /\ page.session # None
  BY DEF PollSent, Shows, Loaded, View, Stays, Shop, Node
<1>2. PICK v : v = page.session
  OBVIOUS
<1>3. v \in StoredSession /\ v.id \in Ids /\ v.token \in Ids /\ sessions[v.id] \in Session /\ sessions[v.id] # None
  BY <1>1, <1>2, KeptTypes DEF KeptInv, BrowserOK, HandleOK, StoredSession, FlowInv, NodeOK
<1>4. PICK r : r = Asks("poll", v.id, v.token, page.minutes, "answered")
  OBVIOUS
<1>5. r \in Request /\ r.kind = "poll" /\ r.id = v.id /\ r.token = v.token /\ r.stage = "answered"
  <2>1. page.minutes \in Nat
    BY <1>1, OfferType, KeptTypes DEF Page, KeptInv
  <2> QED
    BY <1>3, <1>4, <2>1, AsksType
<1>6. PICK reply : reply = IF Serves(r) THEN Report(r.id, sessions[r.id]) ELSE None
  OBVIOUS
<1>7. requests' = requests \cup {[r EXCEPT !.reply = reply]}
  BY <1>2, <1>4, <1>6 DEF PollSent, View
<1>8. /\ reply # None =>
           /\ reply.id = v.id
           /\ IsSessionTerminal(reply.status) => ~ Alive(v.id)
      /\ reply = None => ~ (v.id \in kept /\ Alive(v.id))
  <2>1. CASE Serves(r)
    <3>1. reply = Report(v.id, sessions[v.id])
      BY <1>5, <1>6, <2>1
    <3>2. reply \in SessionState /\ reply.id = v.id /\ reply.status = sessions[v.id].status
      BY <1>3, <3>1, ReportType DEF Report
    <3>3. reply # None
      BY <3>2, RecordAssumption
    <3> QED
      BY <3>2, <3>3 DEF Alive
  <2>2. CASE ~ Serves(r)
    <3>1. v.id \in kept /\ Alive(v.id) => slot = v.id /\ v.token = v.id
      BY <1>1, <1>2, <1>3 DEF KeptInv, BrowserOK, HandleTo
    <3> QED
      BY <1>3, <1>5, <1>6, <2>2, <3>1, NameAssumption DEF Serves
  <2> QED
    BY <2>1, <2>2
<1>9. ASSUME NEW q \in requests' \ requests
      PROVE  AnswerOK(q)' /\ ~ Names(q) /\ (q.id = None \/ Heard(q.id))
  <2>1. q = [r EXCEPT !.reply = reply]
    BY <1>7, <1>9
  <2>2. q.kind = "poll" /\ q.id = v.id /\ q.stage = "answered" /\ q.reply = reply
    BY <1>5, <2>1 DEF Request
  <2>3. Heard(v.id)
    BY <1>1, <1>2 DEF Heard
  <2> QED
    BY <1>1, <1>3, <1>8, <2>2, <2>3 DEF AnswerOK, Names, Alive
<1> QED
  BY <1>1, <1>9, PageStep

LEMMA PollAnsweredKept ==
  ASSUME KeptInv, FlowInv', NEW r \in requests, PollAnswered(r)
  PROVE  KeptInv'
<1>1. /\ r.waits /\ r.kind = "poll" /\ UNCHANGED <<slot, sessions>>
  BY DEF PollAnswered, Waits, Node
<1>2. page \in Page /\ page # None /\ r \in Request /\ AnswerOK(r)
  BY <1>1, RecordAssumption DEF KeptInv, FlowInv, RequestsOK, Carries, PageOK
<1>3. CASE /\ r.reply # None
           /\ requests' = (requests \ {r}) \cup {[r EXCEPT !.stage = "reading"]}
           /\ UNCHANGED <<page, Stays>>
  <2>1. UNCHANGED <<page, stored, kept>>
    BY <1>3 DEF Stays, Shop
  <2>2. ASSUME NEW q \in requests' \ requests
        PROVE  AnswerOK(q)' /\ ~ Names(q) /\ (q.id = None \/ Heard(q.id))
    <3>1. q = [r EXCEPT !.stage = "reading"]
      BY <1>3, <2>2
    <3>2. q.kind = r.kind /\ q.id = r.id /\ q.reply = r.reply /\ q.stage = "reading"
      BY <1>2, <3>1 DEF Request
    <3> QED
      BY <1>1, <1>2, <2>1, <3>2 DEF AnswerOK, Names, Heard, Alive
  <2> QED
    BY <1>1, <1>2, <2>1, <2>2, PageStep
<1>4. CASE /\ r.reply = None /\ View # None /\ View.id = r.id
           /\ SetSession([page EXCEPT !.session = EndedRemotely(@)], requests \ {r})
  <2>1. PICK v : v = EndedRemotely(page.session)
    OBVIOUS
  <2>2. PICK p : p = [page EXCEPT !.session = EndedRemotely(@)]
    OBVIOUS
  <2>3. page.session \in StoredSession /\ page.session # None
    BY <1>2, <1>4, KeptTypes DEF View, KeptInv
  <2>4. v \in StoredSession /\ v.id = r.id /\ v # None
    <3>1. v \in StoredSession /\ v.id = page.session.id
      BY <2>1, <2>3 DEF EndedRemotely, StoredSession, Status
    <3> QED
      BY <1>4, <3>1, RecordAssumption DEF View
  <2>5. p \in Page /\ p.session = v /\ SetSession(p, requests \ {r})
    BY <1>2, <1>4, <2>1, <2>2, <2>4, ShowsType
  <2>6. sessions[v.id] # None /\ Heard(v.id) /\ ~ (v.id \in kept /\ Alive(v.id))
    BY <1>1, <1>2, <1>4, <2>3, <2>4 DEF View, AnswerOK, KeptInv, BrowserOK, HandleOK, Heard
  <2>7. requests' \subseteq requests
    BY <2>5, SetPageEffect DEF SetSession
  <2> QED
    BY <1>1, <1>2, <2>3, <2>4, <2>5, <2>6, <2>7, HandleLaid
<1>5. CASE requests' = requests \ {r} /\ UNCHANGED <<page, Stays>>
  <2>1. UNCHANGED <<page, stored, kept>>
    BY <1>5 DEF Stays, Shop
  <2> QED
    BY <1>1, <1>2, <1>5, <2>1, PageStep
<1> QED
  BY <1>3, <1>4, <1>5 DEF PollAnswered

LEMMA PollReadKept ==
  ASSUME KeptInv, FlowInv', NEW r \in requests, PollRead(r)
  PROVE  KeptInv'
<1>1. /\ r.waits /\ r.kind = "poll" /\ r.stage = "reading" /\ UNCHANGED <<slot, sessions>>
  BY DEF PollRead, Waits, Node
<1>2. page \in Page /\ page # None /\ r \in Request /\ Carries(r) /\ AnswerOK(r)
  BY <1>1, RecordAssumption DEF KeptInv, FlowInv, RequestsOK, Carries, PageOK
<1>3. r.id \in Ids /\ r.token \in Ids /\ r.reply # None /\ sessions[r.id] # None
  BY <1>1, <1>2, NameAssumption DEF Carries, AnswerOK
<1>4. PICK x : x = TopUpRequest(r.id, r.token, r.amount)
  OBVIOUS
<1>5. PICK p : p = IF AutoTopUp(r) THEN ToppingUp(page) ELSE page
  OBVIOUS
<1>6. p \in Page /\ p.session = page.session
  BY <1>2, <1>5, ToppingUpType
<1> DEFINE rs == (requests \ {r}) \cup {q \in {x} : AutoTopUp(r)}
<1>7. \/ View # None /\ SetSession([p EXCEPT !.session = Merged(@, r.reply)], rs)
      \/ SetPage(p, rs) /\ UNCHANGED <<stored, kept>>
  BY <1>4, <1>5 DEF PollRead, Stays, Shop
<1>8. requests' \subseteq requests \cup {x}
  BY <1>7, SetPageEffect DEF SetSession
<1> HIDE DEF rs
<1>9. ASSUME NEW q \in requests' \ requests
      PROVE  AnswerOK(q)' /\ ~ Names(q) /\ (q.id = None \/ Heard(q.id))
  <2>1. q = Asks("topup", r.id, r.token, r.amount, "pricing")
    BY <1>4, <1>8, <1>9 DEF TopUpRequest
  <2> QED
    BY <1>1, <1>3, <2>1, AskOK DEF Heard
<1>10. CASE SetPage(p, rs) /\ UNCHANGED <<stored, kept>>
  <2>1. page' = p
    BY <1>10, SetPageEffect
  <2> QED
    BY <1>1, <1>2, <1>6, <1>9, <1>10, <2>1, PageStep
<1>11. CASE View # None /\ SetSession([p EXCEPT !.session = Merged(@, r.reply)], rs)
  <2>1. PICK v : v = Merged(page.session, r.reply)
    OBVIOUS
  <2>2. PICK z : z = [p EXCEPT !.session = Merged(@, r.reply)]
    OBVIOUS
  <2>3. /\ v \in StoredSession /\ v # None /\ sessions[v.id] # None /\ Heard(v.id)
        /\ v.id \in kept /\ Alive(v.id) => v.token = v.id /\ ~ IsSessionTerminal(v.status)
    BY <1>1, <1>2, <1>3, <1>11, <2>1, MergedOK DEF View
  <2>4. z \in Page /\ z.session = v /\ SetSession(z, rs)
    BY <1>6, <1>11, <2>1, <2>2, <2>3, ShowsType
  <2> QED
    BY <1>1, <1>2, <1>9, <1>11, <2>3, <2>4, HandleLaid DEF View
<1> QED
  BY <1>7, <1>10, <1>11

LEMMA PollReadGoneKept ==
  ASSUME KeptInv, FlowInv', NEW r \in requests, PollReadGone(r)
  PROVE  KeptInv'
<1>1. r.kind = "poll" /\ r.stage = "reading" /\ UNCHANGED <<slot, sessions, page, stored, kept>>
  BY DEF PollReadGone, Stays, Node
<1>2. r \in Request /\ r.id \in Ids /\ r.id # None /\ sessions[r.id] # None
  BY <1>1, NameAssumption DEF KeptInv, FlowInv, RequestsOK, Carries, AnswerOK
<1>3. PICK z : z = Asks("topup", r.id, r.token, r.amount, "pricing")
  OBVIOUS
<1>4. /\ z.kind = "topup" /\ z.id = r.id /\ z.stage = "pricing" /\ z.reply = None
      /\ [z EXCEPT !.waits = FALSE].kind = "topup" /\ [z EXCEPT !.waits = FALSE].id = r.id
      /\ [z EXCEPT !.waits = FALSE].stage = "pricing" /\ [z EXCEPT !.waits = FALSE].reply = None
  BY <1>3 DEF Asks
<1>5. requests' \subseteq requests \cup {[z EXCEPT !.waits = FALSE]}
  BY <1>3 DEF PollReadGone, Orphaned, TopUpRequest
<1>6. ASSUME NEW q \in requests' \ requests
      PROVE  AnswerOK(q)' /\ ~ Names(q) /\ (q.id = None \/ Heard(q.id))
  <2>1. q = [z EXCEPT !.waits = FALSE]
    BY <1>5, <1>6
  <2>2. q.kind = "topup" /\ q.id = r.id /\ q.stage = "pricing" /\ q.reply = None
    BY <1>4, <2>1
  <2> QED
    BY <1>1, <1>2, <2>2 DEF AnswerOK, Names, Heard
<1>7. page' # None => page'.session = IF page = None THEN stored ELSE page.session
  BY <1>1
<1> QED
  BY <1>1, <1>6, <1>7, PageStep

LEMMA AnswerLostKept ==
  ASSUME KeptInv, FlowInv', NEW r \in requests, AnswerLost(r)
  PROVE  KeptInv'
<1>1. /\ r.waits /\ r.kind # "poll" /\ UNCHANGED <<slot, sessions, stored, kept>>
  BY DEF AnswerLost, Stays, Shop, Node
<1>2. page \in Page /\ page # None /\ r \in Request /\ AnswerOK(r)
  BY <1>1, RecordAssumption DEF KeptInv, FlowInv, RequestsOK, Carries, PageOK
<1>3. /\ page' = Finished(page, r.kind)
      /\ requests' \subseteq (requests \ {r}) \cup {q \in {[r EXCEPT !.waits = FALSE]} : r.stage = "sent"}
  BY SetPageEffect DEF AnswerLost
<1>4. ASSUME NEW q \in requests' \ requests
      PROVE  AnswerOK(q)' /\ ~ Names(q) /\ (q.id = None \/ Heard(q.id))
  <2>1. q = [r EXCEPT !.waits = FALSE] /\ r.stage = "sent"
    BY <1>3, <1>4
  <2>2. q.kind = r.kind /\ q.id = r.id /\ q.reply = r.reply /\ q.stage = r.stage
    BY <1>2, <2>1 DEF Request
  <2>3. r.reply = None
    BY <1>2, <2>1 DEF AnswerOK
  <2> QED
    BY <1>1, <1>2, <2>2, <2>3 DEF AnswerOK, Names, Heard, Alive
<1> QED
  BY <1>1, <1>2, <1>3, <1>4, FinishedType, PageStep

LEMMA KeptStep == KeptInv /\ FlowInv' /\ [Next]_vars => KeptInv'
<1> SUFFICES ASSUME KeptInv, FlowInv', [Next]_vars PROVE KeptInv'
  OBVIOUS
<1>1. CASE UNCHANGED vars
  BY <1>1 DEF vars, KeptInv, BrowserOK, HandleOK, HandleTo, AnswerOK, UnheardOK, Names, Heard, Alive
<1>2. CASE LoadPage \/ LoadNotice \/ LeavePage \/ NavigateAway \/ Connect \/ Disconnect \/ RestoreAnswered
  BY <1>2, LoadKept, NoticeKept, LeaveKept
<1>3. CASE (\E m \in MinutesPicker : PressStart(m)) \/ PressTopUp \/ PressStop \/ Dismiss \/ PollSent
  BY <1>3, PressKept, DismissKept, PollSentKept
<1>4. ASSUME NEW r \in requests,
             \/ Signs(r) \/ NotSigned(r)
             \/ NodeOpens(r) \/ NodeBanks(r) \/ NodeStops(r) \/ NodeRefunds(r)
             \/ OpenAnswered(r) \/ ActionAnswered(r) \/ PollAnswered(r) \/ PollRead(r)
             \/ PollReadGone(r) \/ AnswerLost(r)
      PROVE  KeptInv'
  BY <1>4, PayingKept, OpensKept, BanksKept, StopsKept, RefundsKept,
     OpenAnsweredKept, ActionAnsweredKept, PollAnsweredKept, PollReadKept, PollReadGoneKept, AnswerLostKept
<1>5. CASE EntryExpires \/ NodeMeters \/ NodeEnds \/ NodeFrees
  BY <1>5, ExpiresKept, NodeAloneKept
<1> QED
  BY <1>1, <1>2, <1>3, <1>4, <1>5 DEF Next

\* A session whose opening reached a page, and was saved, keeps its handle for as long as
\* it runs, in every order of answers, polls, reloads, links followed, losses and saves
\* that fail: the browser's store has it, and SessionFlow shows it wherever it is mounted,
\* which is not on a page that is a notice (session-store.ts, session-flow.tsx).
THEOREM HandleKeptHolds == Spec => []HandleKept
<1>1. Init /\ FlowInv => KeptInv
  BY DEF Init, KeptInv, BrowserOK, HandleOK, UnheardOK, Alive
<1>2. KeptInv => HandleKept
  <2> SUFFICES ASSUME KeptInv, NEW i \in kept, slot = i, ~ IsSessionTerminal(sessions[i].status)
               PROVE  HandleTo(stored, i) /\ (Loaded => HandleTo(View, i))
    BY DEF HandleKept
  <2>1. Alive(i)
    BY DEF KeptInv, BrowserOK, Alive
  <2> QED
    BY <2>1 DEF KeptInv, BrowserOK, Loaded, View
<1> QED
  BY <1>1, <1>2, KeptStep, FlowInvHolds, PTL DEF Spec
=============================================================================
