----------------------------- MODULE InboxProofs -----------------------------
(***************************************************************************)
(* Proofs about Inbox, for any log of messages and any number of faults,   *)
(* drops, keys, claims and markers of other terminals: the interface's     *)
(* record is well formed, a conversation that says it is checking has a    *)
(* question or an answer under way, the relay's marker reaches no further  *)
(* than what was shown, unless a marker answer adopted a seed, and once    *)
(* everything was answered, without a fault, no message was missed.        *)
(***************************************************************************)
EXTENDS Inbox, FiniteSetTheorems, WellFoundedInduction, TLAPS
-----------------------------------------------------------------------------
(* The invariant.  Its parts are stated of a record u of the interface, of *)
(* a log 1 .. p, of the messages S shown so far and the second e others    *)
(* have read to, so that a lemma can speak of a handler's result.          *)

\* What the interface pushes to the command pump.
Outs == [type : {"LoadChannels", "OpenChannel", "Newest"}]
          \cup [type : {"ReadProgress"}, at : Second]
          \cup [type : {"CatchUp"}, since : Second]

\* What the command pump answers, about a log 1 .. p.
Answers(p) ==
    [type : {"Channels", "HistoryFailed"}]
      \cup [type : {"ReadState"}, complete : BOOLEAN, at : Second]
      \cup [type : {"CatchUp"}, complete : BOOLEAN, events : SUBSET (1 .. p)]
      \cup [type : {"Seed"}, complete : BOOLEAN, latest : 0 .. p]
      \cup [type : {"History"}, last : 0 .. p]

\* What the WebSocket pump reports of a log 1 .. p.
Reports(p) ==
    [type : {"Connected", "Disconnected", "InboxClosed"}]
      \cup [type : {"InboxTimeline", "Timeline"}, id : 1 .. p]

\* The fields of the interface, and how its rows bound its positions.
Uis(p) ==
    [ listed : BOOLEAN, openedOnce : BOOLEAN, selected : BOOLEAN,
      cover : {"none", "help", "reader", "thread"}, origin : 0 .. p,
      markerRead : BOOLEAN, markerComplete : BOOLEAN,
      inboxFailed : BOOLEAN, historyFailed : BOOLEAN, waiting : BOOLEAN,
      coverage : {"complete", "pending", "unknown", "failed"}, known : BOOLEAN,
      frontier : Second, marked : BOOLEAN,
      presented : SUBSET (1 .. p), unread : SUBSET ((1 .. p) \ Mine),
      loading : BOOLEAN, rows : SUBSET (1 .. p), live : SUBSET (1 .. p),
      focus : Nat, saved : 0 .. p, fallback : BOOLEAN, out : Seq(Outs) ]

WellFormed(u, p) ==
    /\ u \in Uis(p) /\ u.live \subseteq u.rows
    /\ u.focus \in 0 .. Cardinality(u.rows)
    /\ u.saved \in {0} \cup u.rows

\* A question about what was missed, or the answer to one.
Asked(q)    == \E i \in DOMAIN q : q[i].type \in {"CatchUp", "Newest"}
Answered(q) == \E i \in DOMAIN q : q[i].type \in {"CatchUp", "Seed"}

\* A pending conversation waits to ask, has asked, or some question is under way.
Pends(u, underWay) ==
    /\ u.coverage = "pending" => u.waiting \/ underWay \/ Asked(u.out)
    /\ ~u.listed => u.coverage # "pending"

\* A conversation is opened once it is listed, and only then.
Opened(q) == \E i \in DOMAIN q : q[i].type \in {"OpenChannel", "History", "HistoryFailed"}
Orderly(u) == ~u.listed => ~u.selected /\ ~Opened(u.out)

\* A second that was shown here, or read elsewhere.
Reaches(at, S, e) == at <= e \/ \E m \in S : At[m] >= at

\* So was each second a queue's records of one type name.
Told(q, type, S, e) ==
    \A i \in DOMAIN q : q[i].type = type => Reaches(q[i].at, S, e)

\* A marked frontier, and each one on its way out, was shown.
Honest(u, S, e) ==
    /\ u.marked => Reaches(u.frontier, S, e)
    /\ Told(u.out, "ReadProgress", S, e)

\* The messages shown once the interface is u.
Seen(u, S) == IF Visible(u) THEN S \cup u.rows ELSE S

Typed ==
    /\ posted \in 0 .. MaxMessage
    /\ WellFormed(ui, posted) /\ ui.out = <<>>
    /\ commands \in Seq(Outs) /\ answers \in Seq(Answers(posted))
    /\ feed \in Seq(Reports(posted))
    /\ link \in {"off", "up", "down"} /\ inbox \in {"none", "kept", "ended"}
    /\ timeline \in BOOLEAN /\ pending \in {NoRead} \cup Second
    /\ marker \in Second /\ elsewhere \in Second /\ elsewhere <= marker
    /\ shown \in SUBSET Message /\ adopted \in BOOLEAN /\ heads \in BOOLEAN
    /\ drops \in Nat /\ faults \in Nat /\ moves \in Nat /\ claims \in Nat /\ others \in Nat

\* A history answer holds every row that did not come from a feed, and what the
\* answers before it hold.
HistoriesGrow ==
    /\ \A i \in DOMAIN answers :
         answers[i].type = "History" => ui.rows \ ui.live \subseteq 1 .. answers[i].last
    /\ \A i, j \in DOMAIN answers :
         i < j /\ answers[i].type = "History" /\ answers[j].type = "History"
           => answers[i].last <= answers[j].last

PendingAsks == Pends(ui, Asked(commands) \/ Answered(answers))

ListedFirst ==
    Orderly(ui) /\ (~ui.listed => ~Opened(commands) /\ ~Opened(answers))

\* What the relay holds, and every claim and marker on its way, was shown.
ClaimsAreHonest ==
    /\ Honest(ui, shown, elsewhere)
    /\ Reaches(marker, shown, elsewhere)
    /\ pending # NoRead => Reaches(pending, shown, elsewhere)
    /\ Told(commands, "ReadProgress", shown, elsewhere)
    /\ Told(answers, "ReadState", shown, elsewhere)

IInv ==
    /\ Typed /\ HistoriesGrow /\ PendingAsks /\ ListedFirst
    /\ ~adopted => ClaimsAreHonest

-----------------------------------------------------------------------------
(* Seconds, sets of messages, and places among the rows.                   *)

LEMMA LeastNumber ==
  ASSUME NEW T, T \subseteq Nat, T # {}
  PROVE  \E x \in T : \A y \in T : x <= y
  <1> DEFINE R == OpToRel(<, Nat)
  <1>1. IsWellFoundedOn(R, Nat)
    BY NatLessThanWellFounded
  <1>2. \A x, y \in Nat : y < x => <<y, x>> \in R
    BY DEF OpToRel
  <1> HIDE DEF R
  <1>3. PICK x \in T : \A y \in T : ~(<<y, x>> \in R)
    BY <1>1, WFMin
  <1>4. ASSUME NEW y \in T
        PROVE  x <= y
    <2>1. x \in Nat /\ y \in Nat /\ ~(y < x)
      BY <1>2, <1>3
    <2> QED
      BY <2>1
  <1> QED
    BY <1>4

LEMMA Seconds ==
  /\ MaxMessage \in Nat
  /\ \A m \in Message : At[m] \in Nat \ {0}
  /\ \A m, n \in Message : m <= n => At[m] <= At[n]
  <1>1. At \in Seq(Nat \ {0})
    BY AtAssumption
  <1>2. MaxMessage \in Nat /\ Message = DOMAIN At
    BY <1>1 DEF MaxMessage, Message
  <1>3. \A m \in Message : At[m] \in Nat \ {0}
    BY <1>1, <1>2
  <1>4. ASSUME NEW m \in Message, NEW n \in Message, m <= n
        PROVE  At[m] <= At[n]
    <2>1. m \in Nat /\ n \in Nat
      BY <1>2 DEF Message
    <2>2. CASE m = n
      BY <2>2, <1>3
    <2>3. CASE m < n
      BY <2>3, AtAssumption
    <2> QED
      BY <1>4, <2>1, <2>2, <2>3
  <1> QED
    BY <1>2, <1>3, <1>4

LEMMA SecondsAreNumbers ==
  /\ Second \subseteq Nat
  /\ 0 \in Second
  /\ \A m \in Message : At[m] \in Second
  BY Seconds DEF Second

LEMMA LogIsMessages ==
  ASSUME NEW p \in 0 .. MaxMessage
  PROVE  p \in Nat /\ 1 .. p \subseteq Message
  BY Seconds DEF Message

LEMMA SomeMessages ==
  ASSUME NEW p \in Nat, NEW S \in SUBSET (1 .. p)
  PROVE  IsFiniteSet(S) /\ Cardinality(S) \in Nat
  <1>1. IsFiniteSet(1 .. p)
    BY FS_Interval
  <1>2. IsFiniteSet(S)
    BY <1>1, FS_Subset
  <1> QED
    BY <1>2, FS_CardinalityType

LEMMA FewerMessages ==
  ASSUME NEW p \in Nat, NEW S \in SUBSET (1 .. p), NEW T \in SUBSET S
  PROVE  Cardinality(T) <= Cardinality(S)
  BY SomeMessages, FS_Subset

LEMMA NewestOf ==
  ASSUME NEW p \in Nat, NEW S \in SUBSET (1 .. p), S # {}
  PROVE  \E m \in S : \A n \in S : n <= m
  <1> DEFINE T == {p - m : m \in S}
  <1>0. \A m \in S : m \in Nat /\ m <= p
    OBVIOUS
  <1>1. T \subseteq Nat /\ T # {}
    <2>1. \A m \in S : p - m \in Nat
      BY <1>0
    <2> QED
      BY <2>1, Zenon
  <1>2. PICK d \in T : \A t \in T : d <= t
    BY <1>1, LeastNumber
  <1>3. PICK m \in S : d = p - m
    OBVIOUS
  <1>4. ASSUME NEW n \in S
        PROVE  n <= m
    <2>1. p - m <= p - n
      BY <1>2, <1>3
    <2>2. m \in Nat /\ n \in Nat
      OBVIOUS
    <2> QED
      BY <2>1, <2>2
  <1> QED
    BY <1>4

LEMMA LatestIsShared ==
  ASSUME NEW p \in 0 .. MaxMessage, NEW S \in SUBSET (1 .. p), S # {}
  PROVE  /\ LatestOf(S) \in Second
         /\ \E m \in S : At[m] = LatestOf(S)
  <1>1. p \in Nat /\ S \subseteq Message
    BY LogIsMessages
  <1>2. PICK m \in S : \A n \in S : n <= m
    BY <1>1, NewestOf
  <1>3. \A n \in S : At[n] <= At[m]
    BY <1>1, <1>2, Seconds
  <1>4. At[m] \in {At[n] : n \in S} /\ \A n \in S : At[n] <= At[m]
    BY <1>3
  <1>5. LatestOf(S) \in {At[n] : n \in S}
    BY <1>4 DEF LatestOf
  <1> QED
    BY <1>1, <1>5, SecondsAreNumbers

LEMMA PlaceBounds ==
  ASSUME NEW p \in Nat, NEW S \in SUBSET (1 .. p), NEW m
  PROVE  Position(S, m) \in 0 .. Cardinality(S)
  <1> DEFINE T == {n \in S : n < m}
  <1>1. T \in SUBSET S /\ T \in SUBSET (1 .. p)
    OBVIOUS
  <1> HIDE DEF T
  <1>2. Cardinality(T) \in Nat /\ Cardinality(S) \in Nat /\ Cardinality(T) <= Cardinality(S)
    BY <1>1, SomeMessages, FewerMessages
  <1>3. Position(S, m) = Cardinality(T)
    BY DEF Position, T
  <1> QED
    BY <1>2, <1>3

\* Every place among the rows is some row's.
LEMMA PlaceIsTaken ==
  ASSUME NEW p \in Nat, NEW S \in SUBSET (1 .. p), NEW i \in Nat, i < Cardinality(S)
  PROVE  AtPosition(S, i) \in S
  <1> DEFINE Upto(b) == {n \in S : n <= b}
             B == {b \in 0 .. p : Cardinality(Upto(b)) > i}
  <1>0. \A n \in S : n \in Nat /\ 1 <= n /\ n <= p
    OBVIOUS
  <1>1. \A b : Upto(b) \in SUBSET S /\ Upto(b) \in SUBSET (1 .. p)
    OBVIOUS
  <1>2. Upto(p) = S
    BY <1>0, Zenon
  <1>3. Upto(0) = {}
    <2>1. \A n \in S : ~(n <= 0)
      BY <1>0
    <2> QED
      BY <2>1, Zenon
  <1>4. p \in B
    BY <1>2
  <1>5. B \subseteq Nat /\ B # {}
    <2>1. \A c \in 0 .. p : c \in Nat
      OBVIOUS
    <2> QED
      BY <1>4, <2>1, Zenon
  <1>6. PICK b \in B : \A c \in B : b <= c
    BY <1>5, LeastNumber
  <1>7. Cardinality(Upto(0)) = 0
    BY <1>3, FS_EmptySet
  <1>8. b \in 1 .. p /\ b - 1 \in 0 .. p
    BY <1>6, <1>7
  <1>9. b - 1 \notin B
    <2>1. ~(b <= b - 1)
      BY <1>8
    <2> QED
      BY <1>6, <2>1, Zenon
  <1>10. Cardinality(Upto(b)) > i /\ ~(Cardinality(Upto(b - 1)) > i)
    BY <1>6, <1>8, <1>9
  <1>11. Upto(b - 1) = {n \in S : n < b}
    <2>1. \A n \in S : n <= b - 1 <=> n < b
      BY <1>0, <1>8
    <2> QED
      BY <2>1, Zenon
  <1>12. IsFiniteSet(Upto(b - 1)) /\ Cardinality(Upto(b - 1)) \in Nat
    BY <1>1, SomeMessages
  <1>13. b \in S
    <2>1. ASSUME b \notin S
          PROVE  Upto(b) = Upto(b - 1)
      <3>1. \A n \in S : n <= b <=> n <= b - 1
        BY <1>0, <1>8, <2>1
      <3> QED
        BY <3>1, Zenon
    <2> QED
      BY <1>10, <2>1
  <1>14. Upto(b) = Upto(b - 1) \cup {b} /\ b \notin Upto(b - 1)
    <2>1. \A n \in S : n <= b <=> n <= b - 1 \/ n = b
      BY <1>0, <1>8
    <2>2. b \in S /\ ~(b <= b - 1)
      BY <1>8, <1>13
    <2> QED
      BY <2>1, <2>2, Zenon
  <1> HIDE DEF Upto, B
  <1>15. Cardinality(Upto(b)) = Cardinality(Upto(b - 1)) + 1
    BY <1>12, <1>14, FS_AddElement
  <1>16. Cardinality(Upto(b - 1)) = i
    BY <1>10, <1>12, <1>15
  <1>17. Position(S, b) = i
    BY <1>11, <1>16 DEF Position
  <1> QED
    BY <1>13, <1>17 DEF AtPosition
-----------------------------------------------------------------------------
(* Queues.                                                                 *)

LEMMA AtEnd ==
  ASSUME NEW S, NEW q \in Seq(S), NEW x
  PROVE  /\ x \in S => Append(q, x) \in Seq(S)
         /\ \A i \in DOMAIN q : i \in DOMAIN Append(q, x) /\ Append(q, x)[i] = q[i]
         /\ Len(q) + 1 \in DOMAIN Append(q, x) /\ Append(q, x)[Len(q) + 1] = x
         /\ \A i \in DOMAIN Append(q, x) : i \in DOMAIN q \/ Append(q, x)[i] = x
  <1>1. x \in S => Append(q, x) \in Seq(S)
    OBVIOUS
  <1>2. DOMAIN q = 1 .. Len(q) /\ Len(q) \in Nat
    OBVIOUS
  <1>3. DOMAIN Append(q, x) = 1 .. Len(q) + 1
    OBVIOUS
  <1>4. \A i \in 1 .. Len(q) : Append(q, x)[i] = q[i]
    OBVIOUS
  <1>5. Append(q, x)[Len(q) + 1] = x
    OBVIOUS
  <1>6. \A i \in 1 .. Len(q) + 1 : i \in 1 .. Len(q) \/ i = Len(q) + 1
    BY <1>2
  <1> QED
    BY <1>1, <1>2, <1>3, <1>4, <1>5, <1>6

LEMMA Joined ==
  ASSUME NEW S, NEW q \in Seq(S), NEW r \in Seq(S)
  PROVE  /\ q \o r \in Seq(S)
         /\ \A i \in DOMAIN q : i \in DOMAIN (q \o r) /\ (q \o r)[i] = q[i]
         /\ \A i \in DOMAIN r : /\ Len(q) + i \in DOMAIN (q \o r)
                                /\ (q \o r)[Len(q) + i] = r[i]
         /\ \A i \in DOMAIN (q \o r) :
              i \in DOMAIN q \/ (i - Len(q) \in DOMAIN r /\ (q \o r)[i] = r[i - Len(q)])
  <1>1. q \o r \in Seq(S)
    OBVIOUS
  <1>2. DOMAIN q = 1 .. Len(q) /\ Len(q) \in Nat /\ DOMAIN r = 1 .. Len(r) /\ Len(r) \in Nat
    OBVIOUS
  <1>3. DOMAIN (q \o r) = 1 .. Len(q) + Len(r)
    OBVIOUS
  <1>4. \A i \in 1 .. Len(q) + Len(r) :
          (q \o r)[i] = IF i <= Len(q) THEN q[i] ELSE r[i - Len(q)]
    OBVIOUS
  <1>5. \A i \in 1 .. Len(q) : i \in 1 .. Len(q) + Len(r) /\ i <= Len(q)
    BY <1>2
  <1>6. \A i \in 1 .. Len(r) : /\ Len(q) + i \in 1 .. Len(q) + Len(r)
                               /\ ~(Len(q) + i <= Len(q)) /\ (Len(q) + i) - Len(q) = i
    BY <1>2
  <1>7. \A i \in 1 .. Len(q) + Len(r) : i \in 1 .. Len(q)
                                        \/ (~(i <= Len(q)) /\ i - Len(q) \in 1 .. Len(r))
    BY <1>2
  <1>8. \A i \in DOMAIN q : i \in DOMAIN (q \o r) /\ (q \o r)[i] = q[i]
    BY <1>2, <1>3, <1>4, <1>5
  <1>9. \A i \in DOMAIN r : Len(q) + i \in DOMAIN (q \o r) /\ (q \o r)[Len(q) + i] = r[i]
    BY <1>2, <1>3, <1>4, <1>6
  <1>10. \A i \in DOMAIN (q \o r) :
           i \in DOMAIN q \/ (i - Len(q) \in DOMAIN r /\ (q \o r)[i] = r[i - Len(q)])
    BY <1>2, <1>3, <1>4, <1>7
  <1> QED
    BY <1>1, <1>8, <1>9, <1>10

LEMMA Taken ==
  ASSUME NEW S, NEW q \in Seq(S), q # <<>>
  PROVE  /\ Head(q) \in S /\ Tail(q) \in Seq(S)
         /\ 1 \in DOMAIN q /\ q[1] = Head(q)
         /\ \A i \in DOMAIN Tail(q) :
              i \in Nat \ {0} /\ i + 1 \in DOMAIN q /\ Tail(q)[i] = q[i + 1]
         /\ \A i \in DOMAIN q : i = 1 \/ (i - 1 \in DOMAIN Tail(q) /\ Tail(q)[i - 1] = q[i])
  <1>1. Len(q) \in Nat /\ DOMAIN q = 1 .. Len(q) /\ Len(q) # 0
    OBVIOUS
  <1>2. Head(q) = q[1] /\ 1 \in DOMAIN q /\ Head(q) \in S
    BY <1>1
  <1>3. Tail(q) \in Seq(S) /\ DOMAIN Tail(q) = 1 .. Len(q) - 1
    BY <1>1
  <1>4. \A i \in 1 .. Len(q) - 1 : Tail(q)[i] = q[i + 1]
    BY <1>1
  <1>5. \A i \in 1 .. Len(q) - 1 : i \in Nat \ {0} /\ i + 1 \in 1 .. Len(q)
    BY <1>1
  <1>6. \A i \in 1 .. Len(q) : i = 1 \/ (i - 1 \in 1 .. Len(q) - 1 /\ (i - 1) + 1 = i)
    BY <1>1
  <1>7. \A i \in DOMAIN q : i = 1 \/ (i - 1 \in DOMAIN Tail(q) /\ Tail(q)[i - 1] = q[i])
    BY <1>1, <1>3, <1>4, <1>6
  <1> QED
    BY <1>1, <1>2, <1>3, <1>4, <1>5, <1>7

\* What a queue asks, answers and tells, as it grows at one end and shrinks at
\* the other.
LEMMA AskedGrows ==
  ASSUME NEW S, NEW q \in Seq(S), NEW x
  PROVE  /\ Asked(q) => Asked(Append(q, x))
         /\ x.type \in {"CatchUp", "Newest"} => Asked(Append(q, x))
  BY AtEnd DEF Asked

LEMMA AskedJoins ==
  ASSUME NEW S, NEW q \in Seq(S), NEW r \in Seq(S)
  PROVE  /\ Asked(q) \/ Asked(r) => Asked(q \o r)
         /\ Answered(q) \/ Answered(r) => Answered(q \o r)
  <1>1. \A i \in DOMAIN q : i \in DOMAIN (q \o r) /\ (q \o r)[i] = q[i]
    BY Joined
  <1>2. \A i \in DOMAIN r : Len(q) + i \in DOMAIN (q \o r) /\ (q \o r)[Len(q) + i] = r[i]
    BY Joined
  <1>3. Asked(q) \/ Asked(r) => Asked(q \o r)
    BY <1>1, <1>2 DEF Asked
  <1>4. Answered(q) \/ Answered(r) => Answered(q \o r)
    BY <1>1, <1>2 DEF Answered
  <1> QED
    BY <1>3, <1>4

LEMMA AskedStays ==
  ASSUME NEW S, NEW q \in Seq(S), q # <<>>
  PROVE  /\ Asked(q) => Asked(Tail(q)) \/ Head(q).type \in {"CatchUp", "Newest"}
         /\ Answered(q) => Answered(Tail(q)) \/ Head(q).type \in {"CatchUp", "Seed"}
  <1>1. \A i \in DOMAIN q : \/ q[i] = Head(q)
                            \/ \E j \in DOMAIN Tail(q) : Tail(q)[j] = q[i]
    BY Taken
  <1> QED
    BY <1>1 DEF Asked, Answered

LEMMA OpenedGrows ==
  ASSUME NEW S, NEW q \in Seq(S), NEW x,
         x.type \notin {"OpenChannel", "History", "HistoryFailed"}
  PROVE  Opened(Append(q, x)) => Opened(q)
  BY AtEnd DEF Opened

LEMMA OpenedJoins ==
  ASSUME NEW S, NEW q \in Seq(S), NEW r \in Seq(S)
  PROVE  Opened(q \o r) => Opened(q) \/ Opened(r)
  BY Joined DEF Opened

LEMMA OpenedStays ==
  ASSUME NEW S, NEW q \in Seq(S), q # <<>>
  PROVE  /\ Opened(Tail(q)) => Opened(q)
         /\ Head(q).type \in {"OpenChannel", "History", "HistoryFailed"} => Opened(q)
  BY Taken DEF Opened

LEMMA ReachesMore ==
  ASSUME NEW at, NEW S, NEW T, S \subseteq T, NEW e, Reaches(at, S, e)
  PROVE  Reaches(at, T, e)
  BY DEF Reaches

LEMMA ReachesFurther ==
  ASSUME NEW at \in Nat, NEW S, NEW e \in Nat, NEW f \in Nat, e <= f, Reaches(at, S, e)
  PROVE  Reaches(at, S, f)
  BY DEF Reaches

LEMMA ReachesLess ==
  ASSUME NEW at \in Nat, NEW to \in Nat, to <= at, NEW S \in SUBSET Message, NEW e \in Nat,
         Reaches(at, S, e)
  PROVE  Reaches(to, S, e)
  BY Seconds DEF Reaches

LEMMA ToldMore ==
  ASSUME NEW q, NEW type, NEW S, NEW T, S \subseteq T, NEW e, Told(q, type, S, e)
  PROVE  Told(q, type, T, e)
  BY ReachesMore DEF Told

LEMMA ToldGrows ==
  ASSUME NEW V, NEW q \in Seq(V), NEW x, NEW type, NEW S, NEW e,
         Told(q, type, S, e), x.type = type => Reaches(x.at, S, e)
  PROVE  Told(Append(q, x), type, S, e)
  BY AtEnd DEF Told

LEMMA ToldJoins ==
  ASSUME NEW V, NEW q \in Seq(V), NEW r \in Seq(V), NEW type, NEW S, NEW e,
         Told(q, type, S, e), Told(r, type, S, e)
  PROVE  Told(q \o r, type, S, e)
  BY Joined DEF Told

LEMMA ToldStays ==
  ASSUME NEW V, NEW q \in Seq(V), q # <<>>, NEW type, NEW S, NEW e, Told(q, type, S, e)
  PROVE  /\ Told(Tail(q), type, S, e)
         /\ Head(q).type = type => Reaches(Head(q).at, S, e)
  BY Taken DEF Told
-----------------------------------------------------------------------------
(* note_presented: a claim moves the read state and nothing else, and what *)
(* it publishes reaches no further than the newest row on screen, or than  *)
(* a marked frontier did.                                                  *)

\* All but the read state and what is pushed.
SameView(v, u) ==
    /\ v.listed = u.listed /\ v.openedOnce = u.openedOnce /\ v.selected = u.selected
    /\ v.cover = u.cover /\ v.origin = u.origin
    /\ v.markerRead = u.markerRead /\ v.markerComplete = u.markerComplete
    /\ v.inboxFailed = u.inboxFailed /\ v.historyFailed = u.historyFailed
    /\ v.waiting = u.waiting /\ v.coverage = u.coverage /\ v.known = u.known
    /\ v.loading = u.loading /\ v.rows = u.rows /\ v.live = u.live
    /\ v.focus = u.focus /\ v.saved = u.saved /\ v.fallback = u.fallback

Claim(at) == [type |-> "ReadProgress", at |-> at]

LEMMA ClaimsOrNot ==
  ASSUME NEW p \in 0 .. MaxMessage, NEW u \in Uis(p), NEW v, v = NotePresented(u)
  PROVE  /\ v \in Uis(p) /\ SameView(v, u)
         /\ \/ v = u
            \/ /\ MayClaim(u) /\ v.marked
               /\ v.out = Append(u.out, Claim(v.frontier))
               /\ v.frontier <= LatestOf(u.rows) \/ (u.marked /\ v.frontier = u.frontier)
  <1> DEFINE latest == LatestOf(u.rows)
             moved  == ClaimedFrontier(u, latest)
             kept   == IF latest > u.frontier THEN {} ELSE u.presented
             now    == [u EXCEPT !.frontier = moved, !.presented = kept, !.marked = TRUE]
             newest == {m \in u.rows : At[m] = latest /\ UnreadAt(now, m)}
             claim  == [now EXCEPT !.presented = kept \cup newest]
             left   == [claim EXCEPT !.unread = {m \in @ : UnreadAt(claim, m)}]
  <1>1. CASE v = u
    BY <1>1 DEF SameView
  <1>2. CASE v # u
    <2>1. MayClaim(u) /\ v = RequestPublish(left)
      BY <1>2 DEF NotePresented
    <2>2. u.rows # {} /\ u.rows \in SUBSET (1 .. p)
      BY <2>1 DEF MayClaim, Uis
    <2>3. latest \in Second /\ u.frontier \in Second /\ Second \subseteq Nat
      BY <2>2, LatestIsShared, SecondsAreNumbers DEF Uis
    <2> HIDE DEF latest
    <2>4. moved \in Second
      BY <2>3 DEF ClaimedFrontier, Earlier
    <2>5. moved <= latest \/ (u.marked /\ moved = u.frontier)
      BY <2>3 DEF ClaimedFrontier, Earlier
    <2> HIDE DEF moved
    <2>6. kept \in SUBSET (1 .. p)
      BY DEF Uis
    <2> HIDE DEF kept
    <2>7. now \in Uis(p) /\ SameView(now, u)
      BY <2>4, <2>6 DEF Uis, SameView
    <2>8. now.frontier = moved /\ now.marked /\ now.out = u.out /\ now.presented = kept
      BY DEF Uis
    <2> HIDE DEF now
    <2>9. newest \in SUBSET (1 .. p)
      BY <2>2
    <2> HIDE DEF newest
    <2>10. kept \cup newest \in SUBSET (1 .. p)
      BY <2>6, <2>9
    <2>11. claim \in Uis(p) /\ SameView(claim, now)
      BY <2>7, <2>10 DEF Uis, SameView
    <2>12. claim.frontier = moved /\ claim.marked /\ claim.out = u.out
      BY <2>7, <2>8 DEF Uis
    <2> HIDE DEF claim
    <2>13. {m \in claim.unread : UnreadAt(claim, m)} \in SUBSET ((1 .. p) \ Mine)
      BY <2>11 DEF Uis
    <2>14. left \in Uis(p) /\ SameView(left, claim)
      BY <2>11, <2>13 DEF Uis, SameView
    <2>15. left.frontier = moved /\ left.marked /\ left.out = u.out
      BY <2>11, <2>12 DEF Uis
    <2> HIDE DEF left
    <2>16. v = [left EXCEPT !.out = Append(@, Claim(moved))]
      BY <2>1, <2>15 DEF RequestPublish, Push, Claim
    <2>17. Claim(moved) \in Outs
      BY <2>4 DEF Claim, Outs
    <2>18. Append(left.out, Claim(moved)) \in Seq(Outs)
      BY <2>14, <2>17 DEF Uis
    <2>19. v \in Uis(p) /\ SameView(v, left)
      BY <2>14, <2>16, <2>18 DEF Uis, SameView
    <2>20. v.frontier = moved /\ v.marked /\ v.out = Append(u.out, Claim(moved))
      BY <2>14, <2>15, <2>16 DEF Uis
    <2>21. SameView(v, u)
      BY <2>7, <2>11, <2>14, <2>19 DEF SameView
    <2> QED
      BY <2>1, <2>5, <2>19, <2>20, <2>21 DEF latest
  <1> QED
    BY <1>1, <1>2

-----------------------------------------------------------------------------
(* What every handler keeps of the interface: Good.  honest says that no   *)
(* seed was adopted.                                                       *)

Good(u, p, underWay, S, e, honest) ==
    /\ WellFormed(u, p)
    /\ Pends(u, underWay) /\ Orderly(u)
    /\ honest => Honest(u, S, e)

\* The rows that came from a history answer.
Fetched(u) == u.rows \ u.live

\* They only grow by an answer, and a conversation stays listed.
Follows(v, u) == Fetched(v) \subseteq Fetched(u) /\ (u.listed => v.listed)

LEMMA GoodMore ==
  ASSUME NEW p, NEW u, NEW w, NEW S, NEW T, S \subseteq T, NEW e, NEW h,
         Good(u, p, w, S, e, h)
  PROVE  Good(u, p, w, T, e, h)
  BY ReachesMore, ToldMore DEF Good, Honest

LEMMA SeenMore ==
  ASSUME NEW u, NEW S
  PROVE  S \subseteq Seen(u, S)
  BY DEF Seen

LEMMA SeenIsMessages ==
  ASSUME NEW p \in 0 .. MaxMessage, NEW u \in Uis(p), NEW S \in SUBSET Message
  PROVE  Seen(u, S) \in SUBSET Message
  <1>1. u.rows \in SUBSET Message
    BY LogIsMessages DEF Uis
  <1> QED
    BY <1>1 DEF Seen

LEMMA GoodSeen ==
  ASSUME NEW p, NEW u, NEW w, NEW S, NEW e, NEW h, Good(u, p, w, S, e, h)
  PROVE  Good(u, p, w, Seen(u, S), e, h)
  BY GoodMore, SeenMore

\* A change of what is on screen leaves the read state alone.
LEMMA GoodView ==
  ASSUME NEW p, NEW u, NEW v, NEW w, NEW S, NEW e, NEW h,
         Good(u, p, w, S, e, h), WellFormed(v, p),
         v.frontier = u.frontier, v.marked = u.marked, v.out = u.out,
         v.coverage = u.coverage, v.waiting = u.waiting, v.listed = u.listed,
         v.selected = u.selected \/ u.listed
  PROVE  Good(v, p, w, S, e, h)
  BY DEF Good, Pends, Orderly, Honest

LEMMA GoodPush ==
  ASSUME NEW p, NEW u, NEW w, NEW S, NEW e, NEW h, Good(u, p, w, S, e, h),
         NEW c \in Outs, h /\ c.type = "ReadProgress" => Reaches(c.at, S, e),
         c.type = "OpenChannel" => u.listed,
         NEW v, v = Push(u, c)
  PROVE  /\ Good(v, p, w, S, e, h)
         /\ SameView(v, u) /\ v.frontier = u.frontier /\ v.marked = u.marked
         /\ v.presented = u.presented /\ v.unread = u.unread
         /\ v.out = Append(u.out, c)
  <1>1. u \in Uis(p) /\ u.out \in Seq(Outs)
    BY DEF Good, WellFormed, Uis
  <1>2. v = [u EXCEPT !.out = Append(@, c)] /\ Append(u.out, c) \in Seq(Outs)
    BY <1>1 DEF Push
  <1>3. v \in Uis(p) /\ SameView(v, u)
    BY <1>1, <1>2 DEF Uis, SameView
  <1>4. /\ v.frontier = u.frontier /\ v.marked = u.marked
        /\ v.presented = u.presented /\ v.unread = u.unread
        /\ v.out = Append(u.out, c)
    BY <1>1, <1>2 DEF Uis
  <1>5. WellFormed(v, p)
    BY <1>3 DEF Good, WellFormed, SameView
  <1>6. Pends(v, w)
    <2>1. Asked(u.out) => Asked(v.out)
      BY <1>1, <1>4, AskedGrows
    <2> QED
      BY <1>3, <2>1 DEF Good, Pends, SameView
  <1>61. Orderly(v)
    <2>1. CASE u.listed
      BY <1>3, <2>1 DEF Orderly, SameView
    <2>2. CASE ~u.listed
      <3>1. c.type \notin {"OpenChannel", "History", "HistoryFailed"}
        BY <2>2 DEF Outs
      <3>2. Opened(v.out) => Opened(u.out)
        BY <1>1, <1>4, <3>1, OpenedGrows
      <3> QED
        BY <1>3, <3>2 DEF Good, Orderly, SameView
    <2> QED
      BY <2>1, <2>2
  <1>7. h => Honest(v, S, e)
    <2>1. h => Told(v.out, "ReadProgress", S, e)
      BY <1>1, <1>4, ToldGrows DEF Good, Honest
    <2> QED
      BY <1>4, <2>1 DEF Good, Honest
  <1> QED
    BY <1>3, <1>4, <1>5, <1>6, <1>61, <1>7 DEF Good

LEMMA Presents ==
  ASSUME NEW p \in 0 .. MaxMessage, NEW u, NEW w, NEW S \in SUBSET Message, NEW e \in Nat, NEW h,
         Good(u, p, w, S, e, h), NEW v, v = NotePresented(u)
  PROVE  Good(v, p, w, Seen(v, S), e, h) /\ SameView(v, u)
  <1>1. u \in Uis(p)
    BY DEF Good, WellFormed
  <1>2. v \in Uis(p) /\ SameView(v, u)
    BY <1>1, ClaimsOrNot
  <1>3. CASE v = u
    BY <1>2, <1>3, GoodSeen
  <1>4. CASE v # u
    <2>1. /\ MayClaim(u) /\ v.marked
          /\ v.out = Append(u.out, Claim(v.frontier))
          /\ v.frontier <= LatestOf(u.rows) \/ (u.marked /\ v.frontier = u.frontier)
      BY <1>1, <1>4, ClaimsOrNot
    <2>2. WellFormed(v, p)
      BY <1>2 DEF Good, WellFormed, SameView
    <2>3. u.out \in Seq(Outs) /\ v.frontier \in Second /\ v.frontier \in Nat
      BY <1>1, <1>2, SecondsAreNumbers DEF Uis
    <2>4. Claim(v.frontier) \in Outs
      BY <2>3 DEF Claim, Outs
    <2>5. Pends(v, w)
      <3>1. Asked(u.out) => Asked(v.out)
        BY <2>1, <2>3, AskedGrows
      <3> QED
        BY <1>2, <3>1 DEF Good, Pends, SameView
    <2>51. Orderly(v)
      <3>1. Claim(v.frontier).type \notin {"OpenChannel", "History", "HistoryFailed"}
        BY DEF Claim
      <3>2. Opened(v.out) => Opened(u.out)
        BY <2>1, <2>3, <3>1, OpenedGrows
      <3> QED
        BY <1>2, <3>2 DEF Good, Orderly, SameView
    <2>6. ASSUME h
          PROVE  Honest(v, Seen(v, S), e)
      <3>1. Honest(u, Seen(v, S), e)
        BY <2>6, SeenMore, ReachesMore, ToldMore DEF Good, Honest
      <3>2. Seen(v, S) = S \cup u.rows
        BY <1>2, <2>1 DEF Seen, Visible, MayClaim, SameView, AtBottom
      <3>3. Reaches(v.frontier, Seen(v, S), e)
        <4>1. CASE v.frontier <= LatestOf(u.rows)
          <5>1. u.rows \in SUBSET (1 .. p) /\ u.rows # {}
            BY <1>1, <2>1 DEF Uis, MayClaim
          <5>2. PICK m \in u.rows : At[m] = LatestOf(u.rows)
            BY <5>1, LatestIsShared
          <5>3. LatestOf(u.rows) \in Nat
            BY <5>1, LatestIsShared, SecondsAreNumbers
          <5>4. At[m] >= v.frontier /\ m \in Seen(v, S)
            BY <2>3, <3>2, <4>1, <5>2, <5>3
          <5> QED
            BY <5>4 DEF Reaches
        <4>2. CASE u.marked /\ v.frontier = u.frontier
          BY <3>1, <4>2 DEF Honest
        <4> QED
          BY <2>1, <4>1, <4>2
      <3>4. Told(v.out, "ReadProgress", Seen(v, S), e)
        <4>1. Told(u.out, "ReadProgress", Seen(v, S), e)
          BY <3>1 DEF Honest
        <4>2. Claim(v.frontier).at = v.frontier
          BY DEF Claim
        <4> QED
          BY <2>1, <2>3, <3>3, <4>1, <4>2, ToldGrows
      <3> QED
        BY <3>3, <3>4 DEF Honest
    <2> QED
      BY <1>2, <2>2, <2>5, <2>51, <2>6 DEF Good
  <1> QED
    BY <1>3, <1>4

\* What a second handler adds without touching what is on screen.
LEMMA SeenSame ==
  ASSUME NEW u, NEW v, NEW S,
         v.selected = u.selected, v.cover = u.cover, v.loading = u.loading,
         v.rows = u.rows, v.focus = u.focus
  PROVE  Seen(v, S) = Seen(u, S)
  BY DEF Seen, Visible, AtBottom

\* Same rows, same roster, same hold on the queues: what moving about leaves.
SameRows(v, u) ==
    /\ v.rows = u.rows /\ v.live = u.live /\ v.loading = u.loading
    /\ v.listed = u.listed /\ v.selected = u.selected /\ v.cover = u.cover
    /\ v.historyFailed = u.historyFailed

LEMMA Focuses ==
  ASSUME NEW p \in 0 .. MaxMessage, NEW u, NEW w, NEW S \in SUBSET Message, NEW e \in Nat, NEW h,
         Good(u, p, w, S, e, h), NEW i \in Nat, NEW v, v = SetFocus(u, i)
  PROVE  Good(v, p, w, Seen(v, S), e, h) /\ SameRows(v, u)
  <1>1. CASE v = u
    BY <1>1, GoodSeen DEF SameRows
  <1>2. CASE v # u
    <2> DEFINE to == IF u.rows = {} THEN 0 ELSE Earlier(Cardinality(u.rows) - 1, i)
               at == [u EXCEPT !.focus = to, !.fallback = FALSE]
    <2>1. v = NotePresented(at)
      BY <1>2 DEF SetFocus
    <2>2. u \in Uis(p) /\ u.rows \in SUBSET (1 .. p) /\ p \in Nat
      BY LogIsMessages DEF Good, WellFormed, Uis
    <2>3. IsFiniteSet(u.rows) /\ Cardinality(u.rows) \in Nat
      BY <2>2, SomeMessages
    <2>4. u.rows # {} => Cardinality(u.rows) # 0
      BY <2>3, FS_EmptySet
    <2>5. to \in 0 .. Cardinality(u.rows)
      BY <2>3, <2>4 DEF Earlier
    <2>51. to \in Nat
      BY <2>3, <2>5
    <2> HIDE DEF to
    <2>6. at \in Uis(p)
      BY <2>2, <2>51 DEF Uis
    <2>7. /\ at.rows = u.rows /\ at.live = u.live /\ at.loading = u.loading
          /\ at.listed = u.listed /\ at.selected = u.selected /\ at.cover = u.cover
          /\ at.historyFailed = u.historyFailed /\ at.focus = to /\ at.saved = u.saved
          /\ at.frontier = u.frontier /\ at.marked = u.marked /\ at.out = u.out
          /\ at.coverage = u.coverage /\ at.waiting = u.waiting
      BY <2>2 DEF Uis
    <2> HIDE DEF at
    <2>8. WellFormed(at, p)
      BY <2>5, <2>6, <2>7 DEF Good, WellFormed
    <2>9. Good(at, p, w, S, e, h)
      BY <2>7, <2>8, GoodView DEF SameRows
    <2>10. Good(v, p, w, Seen(v, S), e, h) /\ SameView(v, at)
      BY <2>1, <2>9, Presents
    <2> QED
      BY <2>7, <2>10 DEF SameView, SameRows
  <1> QED
    BY <1>1, <1>2

LEMMA Restores ==
  ASSUME NEW p \in 0 .. MaxMessage, NEW u, NEW w, NEW S \in SUBSET Message, NEW e \in Nat, NEW h,
         Good(u, p, w, S, e, h), NEW v, v = RestorePosition(u)
  PROVE  Good(v, p, w, Seen(v, S), e, h) /\ SameRows(v, u)
  <1> DEFINE free == [u EXCEPT !.saved = 0]
  <1>1. u \in Uis(p) /\ u.rows \in SUBSET (1 .. p) /\ p \in Nat /\ 0 \in 0 .. p
    BY LogIsMessages DEF Good, WellFormed, Uis
  <1>2. free \in Uis(p) /\ free.saved = 0
    BY <1>1 DEF Uis
  <1>3. /\ free.rows = u.rows /\ free.live = u.live /\ free.loading = u.loading
        /\ free.listed = u.listed /\ free.selected = u.selected /\ free.cover = u.cover
        /\ free.historyFailed = u.historyFailed /\ free.focus = u.focus
        /\ free.frontier = u.frontier /\ free.marked = u.marked /\ free.out = u.out
        /\ free.coverage = u.coverage /\ free.waiting = u.waiting
    BY <1>1 DEF Uis
  <1>4. v = IF u.saved \in u.rows THEN SetFocus(free, Position(u.rows, u.saved))
            ELSE [SetFocus(free, Newest) EXCEPT !.fallback = TRUE]
    BY DEF RestorePosition
  <1> HIDE DEF free
  <1>5. WellFormed(free, p)
    BY <1>2, <1>3 DEF Good, WellFormed
  <1>6. Good(free, p, w, S, e, h)
    BY <1>3, <1>5, GoodView DEF SameRows
  <1>7. CASE u.saved \in u.rows
    <2>1. Cardinality(u.rows) \in Nat
      BY <1>1, SomeMessages
    <2>2. Position(u.rows, u.saved) \in 0 .. Cardinality(u.rows)
      BY <1>1, PlaceBounds
    <2>3. Position(u.rows, u.saved) \in Nat
      BY <2>1, <2>2
    <2>4. v = SetFocus(free, Position(u.rows, u.saved))
      BY <1>4, <1>7
    <2>5. Good(v, p, w, Seen(v, S), e, h) /\ SameRows(v, free)
      BY <1>6, <2>3, <2>4, Focuses
    <2> QED
      BY <1>3, <2>5 DEF SameRows
  <1>8. CASE u.saved \notin u.rows
    <2> DEFINE set == SetFocus(free, Newest)
    <2>1. Newest \in Nat
      BY Seconds DEF Newest
    <2>2. Good(set, p, w, Seen(set, S), e, h) /\ SameRows(set, free)
      BY <1>6, <2>1, Focuses
    <2>3. v = [set EXCEPT !.fallback = TRUE]
      BY <1>4, <1>8
    <2> HIDE DEF set
    <2>4. set \in Uis(p)
      BY <2>2 DEF Good, WellFormed
    <2>5. v \in Uis(p)
      BY <2>3, <2>4 DEF Uis
    <2>6. /\ v.rows = set.rows /\ v.live = set.live /\ v.loading = set.loading
          /\ v.listed = set.listed /\ v.selected = set.selected /\ v.cover = set.cover
          /\ v.historyFailed = set.historyFailed /\ v.focus = set.focus /\ v.saved = set.saved
          /\ v.frontier = set.frontier /\ v.marked = set.marked /\ v.out = set.out
          /\ v.coverage = set.coverage /\ v.waiting = set.waiting
      BY <2>3, <2>4 DEF Uis
    <2>7. WellFormed(v, p)
      BY <2>2, <2>5, <2>6 DEF Good, WellFormed
    <2>8. Seen(v, S) = Seen(set, S)
      BY <2>6, SeenSame
    <2>9. Good(v, p, w, Seen(v, S), e, h)
      BY <2>2, <2>6, <2>7, <2>8, GoodView DEF SameRows
    <2> QED
      BY <1>3, <2>2, <2>6, <2>9 DEF SameRows
  <1> QED
    BY <1>7, <1>8

LEMMA Lands ==
  ASSUME NEW p \in 0 .. MaxMessage, NEW u, NEW w, NEW S \in SUBSET Message, NEW e \in Nat, NEW h,
         Good(u, p, w, S, e, h), NEW row, NEW v, v = LandOn(u, row)
  PROVE  Good(v, p, w, Seen(v, S), e, h) /\ SameRows(v, u)
  <1>1. CASE row \in u.rows
    <2>1. u.rows \in SUBSET (1 .. p) /\ p \in Nat
      BY LogIsMessages DEF Good, WellFormed, Uis
    <2>2. Cardinality(u.rows) \in Nat
      BY <2>1, SomeMessages
    <2>3. Position(u.rows, row) \in 0 .. Cardinality(u.rows)
      BY <2>1, PlaceBounds
    <2>4. Position(u.rows, row) \in Nat
      BY <2>2, <2>3
    <2> QED
      BY <1>1, <2>4, Focuses DEF LandOn
  <1>2. CASE row \notin u.rows
    BY <1>2, Restores DEF LandOn
  <1> QED
    BY <1>1, <1>2

LEMMA RowUnderCursor ==
  ASSUME NEW p \in 0 .. MaxMessage, NEW u, WellFormed(u, p)
  PROVE  /\ FocusedRow(u) \in {0} \cup u.rows
         /\ u.focus < Cardinality(u.rows) => AtPosition(u.rows, u.focus) \in u.rows
  <1>1. u.rows \in SUBSET (1 .. p) /\ p \in Nat /\ u.focus \in Nat
    BY LogIsMessages DEF WellFormed, Uis
  <1>2. Cardinality(u.rows) \in Nat
    BY <1>1, SomeMessages
  <1>3. u.focus < Cardinality(u.rows) => AtPosition(u.rows, u.focus) \in u.rows
    BY <1>1, PlaceIsTaken
  <1>4. u.focus >= Cardinality(u.rows) \/ u.focus < Cardinality(u.rows)
    BY <1>1, <1>2
  <1> QED
    BY <1>3, <1>4 DEF FocusedRow

LEMMA AsksAtLast ==
  ASSUME NEW p \in 0 .. MaxMessage, NEW u, NEW w, NEW S, NEW e, NEW h,
         Good(u, p, w, S, e, h), NEW v, v = RequestCatchUp(u)
  PROVE  /\ Good(v, p, w, S, e, h) /\ SameRows(v, u)
         /\ u.coverage = v.coverage
         /\ v.focus = u.focus /\ v.fallback = u.fallback
  <1>1. CASE v = u
    BY <1>1 DEF SameRows
  <1>2. CASE v # u
    <2> DEFINE quiet == [u EXCEPT !.waiting = FALSE]
               c == IF u.known THEN [type |-> "CatchUp", since |-> u.frontier]
                               ELSE [type |-> "Newest"]
               any == TRUE
    <2>1. v = Push(quiet, c) /\ u.coverage # "unknown" /\ u.waiting /\ u.markerRead
      BY <1>2 DEF RequestCatchUp
    <2>2. u \in Uis(p)
      BY DEF Good, WellFormed
    <2>3. c \in Outs /\ c.type \in {"CatchUp", "Newest"}
      BY <2>2 DEF Outs, Uis
    <2>4. quiet \in Uis(p)
      BY <2>2 DEF Uis
    <2>5. /\ SameRows(quiet, u) /\ quiet.focus = u.focus /\ quiet.saved = u.saved
          /\ quiet.frontier = u.frontier /\ quiet.marked = u.marked /\ quiet.out = u.out
          /\ quiet.coverage = u.coverage /\ quiet.fallback = u.fallback
      BY <2>2 DEF Uis, SameRows
    <2> HIDE DEF quiet, c
    <2>6. WellFormed(quiet, p)
      BY <2>4, <2>5 DEF Good, WellFormed, SameRows
    <2>7. h => Honest(quiet, S, e)
      BY <2>5 DEF Good, Honest
    <2>8. Good(quiet, p, any, S, e, h)
      BY <2>5, <2>6, <2>7 DEF Good, Pends, Orderly, SameRows
    <2> HIDE DEF any
    <2>9. h /\ c.type = "ReadProgress" => Reaches(c.at, S, e)
      BY <2>3
    <2>10. Good(v, p, any, S, e, h) /\ SameView(v, quiet) /\ v.out = Append(quiet.out, c)
      BY <2>1, <2>3, <2>8, <2>9, GoodPush
    <2>11. quiet.out \in Seq(Outs)
      BY <2>4 DEF Uis
    <2>12. Asked(v.out)
      BY <2>3, <2>10, <2>11, AskedGrows
    <2>13. Good(v, p, w, S, e, h)
      BY <2>10, <2>12 DEF Good, Pends
    <2> QED
      BY <2>5, <2>10, <2>13 DEF SameView, SameRows
  <1> QED
    BY <1>1, <1>2

-----------------------------------------------------------------------------
(* The events.                                                             *)

LEMMA CountsMore ==
  ASSUME NEW p \in 0 .. MaxMessage, NEW u, NEW w, NEW S, NEW e, NEW h,
         Good(u, p, w, S, e, h), NEW M \in SUBSET (1 .. p), NEW v, v = Count(u, M)
  PROVE  /\ Good(v, p, w, S, e, h) /\ SameRows(v, u)
         /\ v.focus = u.focus /\ v.saved = u.saved
  <1>1. u \in Uis(p)
    BY DEF Good, WellFormed
  <1>2. u.unread \cup Candidates(u, M) \in SUBSET ((1 .. p) \ Mine)
    BY <1>1 DEF Uis, Candidates
  <1>3. v = [u EXCEPT !.unread = u.unread \cup Candidates(u, M)]
    BY <1>1 DEF Count
  <1>4. v \in Uis(p)
    BY <1>1, <1>2, <1>3 DEF Uis
  <1>5. /\ SameRows(v, u) /\ v.focus = u.focus /\ v.saved = u.saved
        /\ v.frontier = u.frontier /\ v.marked = u.marked /\ v.out = u.out
        /\ v.coverage = u.coverage /\ v.waiting = u.waiting
    BY <1>1, <1>3 DEF Uis, SameRows
  <1>6. WellFormed(v, p) /\ v.listed = u.listed
    BY <1>4, <1>5 DEF Good, WellFormed, SameRows
  <1> QED
    BY <1>5, <1>6, GoodView DEF SameRows

\* What a conversation says of itself: any word but "pending" is safe.
LEMMA GoodWord ==
  ASSUME NEW p, NEW u, NEW v, NEW w, NEW x, NEW S, NEW e, NEW h,
         Good(u, p, w, S, e, h), WellFormed(v, p), v.coverage # "pending",
         v.marked => v.frontier = u.frontier /\ u.marked, v.out = u.out,
         v.listed = u.listed, v.selected = u.selected
  PROVE  Good(v, p, x, S, e, h)
  BY DEF Good, Pends, Orderly, Honest

LEMMA ConnectedKeeps ==
  ASSUME NEW p \in 0 .. MaxMessage, NEW u, NEW w, NEW S \in SUBSET Message, NEW e, NEW h,
         Good(u, p, w, S, e, h), NEW v, v = ApplyConnected(u)
  PROVE  Good(v, p, w, Seen(v, S), e, h) /\ Follows(v, u)
  <1> DEFINE cured == [u EXCEPT !.inboxFailed = FALSE]
             ask == [cured EXCEPT !.waiting = u.listed]
             one == [type |-> "LoadChannels"]
             two == [type |-> "OpenChannel"]
             asked == Push(ask, one)
  <1>1. u \in Uis(p)
    BY DEF Good, WellFormed
  <1>2. cured \in Uis(p) /\ ask \in Uis(p)
    BY <1>1 DEF Uis
  <1>3. /\ SameRows(cured, u) /\ cured.focus = u.focus /\ cured.saved = u.saved
        /\ cured.frontier = u.frontier /\ cured.marked = u.marked /\ cured.out = u.out
        /\ cured.coverage = u.coverage /\ cured.waiting = u.waiting
    BY <1>1 DEF Uis, SameRows
  <1>4. /\ SameRows(ask, u) /\ ask.focus = u.focus /\ ask.saved = u.saved
        /\ ask.frontier = u.frontier /\ ask.marked = u.marked /\ ask.out = u.out
        /\ ask.coverage = u.coverage /\ ask.waiting = u.listed
    BY <1>1 DEF Uis, SameRows
  <1>5. /\ one \in Outs /\ one.type # "ReadProgress" /\ one.type # "OpenChannel"
        /\ two \in Outs /\ two.type # "ReadProgress"
    BY DEF Outs
  <1>6. \/ v = Push(cured, one)
        \/ v = asked
        \/ asked.selected /\ v = Push(asked, two)
    BY DEF ApplyConnected
  <1> HIDE DEF cured, ask, one, two
  <1>7. WellFormed(cured, p) /\ WellFormed(ask, p)
    BY <1>2, <1>3, <1>4 DEF Good, WellFormed, SameRows
  <1>8. Good(cured, p, w, S, e, h)
    BY <1>3, <1>7, GoodView DEF SameRows
  <1>9. Good(ask, p, w, S, e, h)
    BY <1>4, <1>7 DEF Good, Pends, Orderly, Honest, SameRows
  <1>10. CASE v = Push(cured, one)
    <2>1. Good(v, p, w, S, e, h) /\ SameView(v, cured)
      BY <1>5, <1>8, <1>10, GoodPush
    <2> QED
      BY <1>3, <2>1, GoodSeen DEF SameView, SameRows, Fetched, Follows
  <1>11. Good(asked, p, w, S, e, h) /\ SameView(asked, ask)
    BY <1>5, <1>9, GoodPush
  <1> HIDE DEF asked
  <1>12. CASE v = asked
    BY <1>4, <1>11, <1>12, GoodSeen DEF SameView, SameRows, Fetched, Follows
  <1>13. CASE asked.selected /\ v = Push(asked, two)
    <2>0. asked.listed
      BY <1>11, <1>13 DEF Good, Orderly
    <2>1. Good(v, p, w, S, e, h) /\ SameView(v, asked)
      BY <1>5, <1>11, <1>13, <2>0, GoodPush
    <2> QED
      BY <1>4, <1>11, <2>1, GoodSeen DEF SameView, SameRows, Fetched, Follows
  <1> QED
    BY <1>6, <1>10, <1>12, <1>13

LEMMA DisconnectedKeeps ==
  ASSUME NEW p, NEW u, NEW w, NEW S, NEW e, NEW h, Good(u, p, w, S, e, h),
         NEW v, v = ApplyDisconnected(u) \/ v = ApplyInboxClosed(u)
  PROVE  Good(v, p, w, Seen(v, S), e, h) /\ Follows(v, u)
  <1>1. u \in Uis(p)
    BY DEF Good, WellFormed
  <1>2. CASE v = u
    BY <1>2, GoodSeen DEF SameRows, Fetched, Follows
  <1>3. CASE v = [u EXCEPT !.coverage = "failed"]
    <2>1. v \in Uis(p)
      BY <1>1, <1>3 DEF Uis
    <2>2. /\ SameRows(v, u) /\ v.focus = u.focus /\ v.saved = u.saved
          /\ v.frontier = u.frontier /\ v.marked = u.marked /\ v.out = u.out
          /\ v.coverage = "failed"
      BY <1>1, <1>3 DEF Uis, SameRows
    <2>3. WellFormed(v, p)
      BY <2>1, <2>2 DEF Good, WellFormed, SameRows
    <2>4. Good(v, p, w, S, e, h)
      BY <2>2, <2>3, GoodWord DEF SameRows
    <2> QED
      BY <2>2, <2>4, GoodSeen DEF SameRows, Fetched, Follows
  <1>4. CASE v = [u EXCEPT !.inboxFailed = TRUE,
                           !.coverage = IF u.listed THEN "failed" ELSE u.coverage]
    <2>1. v \in Uis(p)
      BY <1>1, <1>4 DEF Uis
    <2>2. /\ SameRows(v, u) /\ v.focus = u.focus /\ v.saved = u.saved
          /\ v.frontier = u.frontier /\ v.marked = u.marked /\ v.out = u.out
          /\ v.coverage = IF u.listed THEN "failed" ELSE u.coverage
      BY <1>1, <1>4 DEF Uis, SameRows
    <2>3. WellFormed(v, p)
      BY <2>1, <2>2 DEF Good, WellFormed, SameRows
    <2>4. v.coverage # "pending"
      BY <2>2 DEF Good, Pends
    <2>5. Good(v, p, w, S, e, h)
      BY <2>2, <2>3, <2>4, GoodWord DEF SameRows
    <2> QED
      BY <2>2, <2>5, GoodSeen DEF SameRows, Fetched, Follows
  <1> QED
    BY <1>2, <1>3, <1>4 DEF ApplyDisconnected, ApplyInboxClosed

LEMMA ChannelsKeep ==
  ASSUME heads \in BOOLEAN,
         NEW p \in 0 .. MaxMessage, NEW u, NEW w, NEW S \in SUBSET Message, NEW e \in Nat, NEW h,
         Good(u, p, w, S, e, h), NEW v, v = ApplyChannels(u)
  PROVE  Good(v, p, w, Seen(v, S), e, h) /\ Follows(v, u)
  <1>1. u \in Uis(p)
    BY DEF Good, WellFormed
  <1>2. CASE u.listed
    <2>1. u.focus \in Nat /\ v = SetFocus(u, u.focus)
      BY <1>1, <1>2 DEF ApplyChannels, Uis
    <2>2. Good(v, p, w, Seen(v, S), e, h) /\ SameRows(v, u)
      BY <2>1, Focuses
    <2> QED
      BY <2>2 DEF SameRows, Fetched, Follows
  <1>3. CASE ~u.listed
    <2> DEFINE word == IF Broken(u) THEN "failed"
                       ELSE IF ~u.markerRead THEN "complete"
                       ELSE IF u.markerComplete THEN "pending"
                       ELSE "unknown"
               new == [u EXCEPT !.listed = TRUE, !.waiting = TRUE, !.loading = TRUE,
                                !.openedOnce = TRUE, !.selected = heads, !.coverage = word]
               c == [type |-> "OpenChannel"]
               set == SetFocus(new, 0)
    <2>1. IF heads THEN v = Push(set, c) ELSE v = new
      BY <1>3 DEF ApplyChannels
    <2>2. word \in {"complete", "pending", "unknown", "failed"}
      OBVIOUS
    <2> HIDE DEF word
    <2>3. new \in Uis(p)
      BY <1>1, <2>2 DEF Uis
    <2>4. /\ new.rows = u.rows /\ new.live = u.live /\ new.focus = u.focus /\ new.saved = u.saved
          /\ new.frontier = u.frontier /\ new.marked = u.marked /\ new.out = u.out
          /\ new.waiting /\ new.listed
      BY <1>1 DEF Uis
    <2> HIDE DEF new
    <2>5. WellFormed(new, p)
      BY <2>3, <2>4 DEF Good, WellFormed
    <2>6. Good(new, p, w, S, e, h)
      BY <2>4, <2>5 DEF Good, Pends, Orderly, Honest
    <2>7. CASE ~heads
      BY <2>1, <2>4, <2>6, <2>7, GoodSeen DEF Fetched, Follows
    <2>8. CASE heads
      <3>1. Good(set, p, w, Seen(set, S), e, h) /\ SameRows(set, new)
        BY <2>6, Focuses
      <3>2. c \in Outs /\ c.type # "ReadProgress" /\ set.listed
        BY <2>4, <3>1 DEF Outs, SameRows
      <3>3. v = Push(set, c)
        BY <2>1, <2>8
      <3> HIDE DEF set, c
      <3>4. Good(v, p, w, Seen(set, S), e, h) /\ SameView(v, set)
        BY <3>1, <3>2, <3>3, GoodPush
      <3>5. Seen(v, S) = Seen(set, S)
        BY <3>4, SeenSame DEF SameView
      <3> QED
        BY <2>4, <3>1, <3>4, <3>5 DEF SameView, SameRows, Fetched, Follows
    <2> QED
      BY <2>7, <2>8
  <1> QED
    BY <1>1, <1>2, <1>3 DEF Uis

LEMMA MarkerTaken ==
  ASSUME NEW p, NEW u, NEW w, NEW S, NEW e, NEW h,
         Good(u, p, w, S, e, h), NEW complete, NEW at \in Second,
         h => Reaches(at, S, e) /\ ~AdoptsSeed(u, complete, at),
         NEW v, v = TakeMarker(u, complete, at)
  PROVE  Good(v, p, w, S, e, h) /\ SameRows(v, u)
  <1> DEFINE checked == IF u.waiting THEN "pending" ELSE "complete"
             f == MarkerFrontier(u, at)
  <1>1. u \in Uis(p) /\ u.frontier \in Second /\ Second \subseteq Nat
    BY SecondsAreNumbers DEF Good, WellFormed, Uis
  <1>2. CASE v = u
    BY <1>2 DEF SameRows
  <1>3. CASE u.listed /\ v = [u EXCEPT !.coverage = "unknown"]
    <2>1. v \in Uis(p)
      BY <1>1, <1>3 DEF Uis
    <2>2. /\ SameRows(v, u) /\ v.focus = u.focus /\ v.saved = u.saved
          /\ v.frontier = u.frontier /\ v.marked = u.marked /\ v.out = u.out
          /\ v.coverage = "unknown"
      BY <1>1, <1>3 DEF Uis, SameRows
    <2>3. WellFormed(v, p)
      BY <2>1, <2>2 DEF Good, WellFormed, SameRows
    <2> QED
      BY <2>2, <2>3, GoodWord DEF SameRows
  <1>4. CASE u.listed /\ v = [u EXCEPT !.coverage = checked]
    <2>1. v \in Uis(p)
      BY <1>1, <1>4 DEF Uis
    <2>2. /\ SameRows(v, u) /\ v.focus = u.focus /\ v.saved = u.saved
          /\ v.frontier = u.frontier /\ v.marked = u.marked /\ v.out = u.out
          /\ v.coverage = checked /\ v.waiting = u.waiting
      BY <1>1, <1>4 DEF Uis, SameRows
    <2>3. WellFormed(v, p)
      BY <2>1, <2>2 DEF Good, WellFormed, SameRows
    <2> QED
      BY <1>4, <2>2, <2>3 DEF Good, Pends, Orderly, Honest, SameRows
  <1>5. CASE /\ u.listed /\ ~Broken(u) /\ complete /\ at # 0
             /\ v = [u EXCEPT !.frontier = f, !.marked = TRUE, !.known = TRUE,
                              !.coverage = checked, !.presented = {},
                              !.unread = {m \in @ : At[m] >= f}]
    <2>1. f \in Second /\ (f = at \/ (f = u.frontier /\ u.frontier >= at))
      BY <1>1 DEF MarkerFrontier, Later
    <2>2. checked \in {"complete", "pending"}
      OBVIOUS
    <2> HIDE DEF f
    <2>3. h => Reaches(f, S, e)
      <3>1. CASE f = at
        BY <3>1
      <3>2. CASE f # at
        <4>0. u.frontier \in Nat /\ at \in Nat
          BY <1>1
        <4>1. f = u.frontier /\ u.frontier > at
          BY <2>1, <3>2, <4>0
        <4>2. h => u.marked
          BY <1>5, <4>1 DEF AdoptsSeed
        <4> QED
          BY <4>1, <4>2 DEF Good, Honest
      <3> QED
        BY <3>1, <3>2
    <2> DEFINE rest == {m \in u.unread : At[m] >= f}
    <2>4. rest \in SUBSET ((1 .. p) \ Mine)
      BY <1>1 DEF Uis
    <2>41. v = [u EXCEPT !.frontier = f, !.marked = TRUE, !.known = TRUE,
                         !.coverage = checked, !.presented = {}, !.unread = rest]
      BY <1>5
    <2> HIDE DEF rest, checked
    <2>42. {} \in SUBSET (1 .. p) /\ checked \in {"complete", "pending", "unknown", "failed"}
      BY <2>2
    <2> DEFINE moved == [u EXCEPT !.frontier = f, !.marked = TRUE, !.known = TRUE]
    <2>43. moved \in Uis(p)
      BY <1>1, <2>1 DEF Uis
    <2>44. v = [moved EXCEPT !.coverage = checked, !.presented = {}, !.unread = rest]
      BY <2>41
    <2> HIDE DEF moved
    <2>5. v \in Uis(p)
      BY <2>4, <2>42, <2>43, <2>44 DEF Uis
    <2>6. /\ SameRows(v, u) /\ v.focus = u.focus /\ v.saved = u.saved
          /\ v.frontier = f /\ v.out = u.out
          /\ v.coverage = checked /\ v.waiting = u.waiting
      BY <1>1, <2>41 DEF Uis, SameRows
    <2>7. WellFormed(v, p)
      BY <2>5, <2>6 DEF Good, WellFormed, SameRows
    <2> QED
      BY <1>5, <2>3, <2>6, <2>7 DEF Good, Pends, Orderly, Honest, SameRows, checked
  <1>6. CASE ~u.listed \/ Broken(u)
    BY <1>2, <1>6 DEF TakeMarker
  <1>7. CASE u.listed /\ ~Broken(u) /\ ~complete
    BY <1>3, <1>7 DEF TakeMarker
  <1>8. CASE u.listed /\ ~Broken(u) /\ complete /\ at = 0
    BY <1>2, <1>4, <1>8 DEF TakeMarker
  <1>9. CASE u.listed /\ ~Broken(u) /\ complete /\ at # 0
    BY <1>5, <1>9 DEF TakeMarker
  <1> QED
    BY <1>6, <1>7, <1>8, <1>9

LEMMA ReadStateKeeps ==
  ASSUME NEW p \in 0 .. MaxMessage, NEW u, NEW w, NEW S \in SUBSET Message, NEW e \in Nat, NEW h,
         Good(u, p, w, S, e, h), NEW complete \in BOOLEAN, NEW at \in Second,
         h => Reaches(at, S, e) /\ ~AdoptsSeed(u, complete, at),
         NEW v, v = ApplyReadState(u, complete, at)
  PROVE  Good(v, p, w, Seen(v, S), e, h) /\ Follows(v, u)
  <1> DEFINE read  == [u EXCEPT !.markerRead = TRUE, !.markerComplete = complete]
             taken == TakeMarker(read, complete, at)
             asked == RequestCatchUp(taken)
  <1>1. v = NotePresented(asked)
    BY DEF ApplyReadState
  <1>2. u \in Uis(p)
    BY DEF Good, WellFormed
  <1>3. read \in Uis(p)
    BY <1>2 DEF Uis
  <1>4. /\ SameRows(read, u) /\ read.focus = u.focus /\ read.saved = u.saved
        /\ read.frontier = u.frontier /\ read.marked = u.marked /\ read.out = u.out
        /\ read.coverage = u.coverage /\ read.waiting = u.waiting
        /\ read.inboxFailed = u.inboxFailed
    BY <1>2 DEF Uis, SameRows
  <1> HIDE DEF read
  <1>5. WellFormed(read, p)
    BY <1>3, <1>4 DEF Good, WellFormed, SameRows
  <1>6. Good(read, p, w, S, e, h)
    BY <1>4, <1>5, GoodView DEF SameRows
  <1>7. AdoptsSeed(read, complete, at) => AdoptsSeed(u, complete, at)
    BY <1>4 DEF AdoptsSeed, Broken, SameRows
  <1>8. Good(taken, p, w, S, e, h) /\ SameRows(taken, read)
    BY <1>6, <1>7, MarkerTaken
  <1> HIDE DEF taken
  <1>9. Good(asked, p, w, S, e, h) /\ SameRows(asked, taken)
    BY <1>8, AsksAtLast
  <1> HIDE DEF asked
  <1>10. Good(v, p, w, Seen(v, S), e, h) /\ SameView(v, asked)
    BY <1>1, <1>9, Presents
  <1> QED
    BY <1>4, <1>8, <1>9, <1>10 DEF SameRows, SameView, Fetched, Follows

LEMMA CatchUpKeeps ==
  ASSUME NEW p \in 0 .. MaxMessage, NEW u, NEW w, NEW x, NEW S \in SUBSET Message, NEW e \in Nat,
         NEW h, Good(u, p, w, S, e, h), NEW M \in SUBSET (1 .. p), NEW complete,
         NEW v, v = ApplyCatchUp(u, M, complete)
  PROVE  Good(v, p, x, Seen(v, S), e, h) /\ Follows(v, u)
  <1>1. u \in Uis(p)
    BY DEF Good, WellFormed
  <1>2. CASE ~u.listed
    <2>1. v = u
      BY <1>2 DEF ApplyCatchUp
    <2>2. Good(v, p, x, S, e, h)
      BY <1>2, <2>1 DEF Good, Pends
    <2> QED
      BY <2>1, <2>2, GoodSeen DEF Fetched, Follows
  <1>3. CASE u.listed
    <2> DEFINE word == IF complete /\ ~Broken(u) THEN "complete" ELSE "failed"
               known == [u EXCEPT !.known = TRUE, !.coverage = word]
               counted == Count(known, M)
    <2>1. v = NotePresented(counted)
      BY <1>3 DEF ApplyCatchUp
    <2>2. word \in {"complete", "failed"}
      OBVIOUS
    <2> HIDE DEF word
    <2>3. known \in Uis(p)
      BY <1>1, <2>2 DEF Uis
    <2>4. /\ SameRows(known, u) /\ known.focus = u.focus /\ known.saved = u.saved
          /\ known.frontier = u.frontier /\ known.marked = u.marked /\ known.out = u.out
          /\ known.coverage = word
      BY <1>1 DEF Uis, SameRows
    <2> HIDE DEF known
    <2>5. WellFormed(known, p)
      BY <2>3, <2>4 DEF Good, WellFormed, SameRows
    <2>6. Good(known, p, x, S, e, h)
      BY <2>2, <2>4, <2>5, GoodWord DEF SameRows
    <2>7. Good(counted, p, x, S, e, h) /\ SameRows(counted, known)
      BY <2>6, CountsMore
    <2> HIDE DEF counted
    <2>8. Good(v, p, x, Seen(v, S), e, h) /\ SameView(v, counted)
      BY <2>1, <2>7, Presents
    <2> QED
      BY <2>4, <2>7, <2>8 DEF SameRows, SameView, Fetched, Follows
  <1> QED
    BY <1>2, <1>3

LEMMA SeedKeeps ==
  ASSUME NEW p \in 0 .. MaxMessage, NEW u, NEW w, NEW x, NEW S \in SUBSET Message, NEW e \in Nat,
         NEW h, Good(u, p, w, S, e, h), NEW latest \in 0 .. p, NEW complete,
         NEW v, v = ApplySeed(u, latest, complete)
  PROVE  Good(v, p, x, Seen(v, S), e, h) /\ Follows(v, u)
  <1>1. u \in Uis(p) /\ u.frontier \in Second
    BY DEF Good, WellFormed, Uis
  <1>2. CASE ~u.listed
    <2>1. v = u
      BY <1>2 DEF ApplySeed
    <2>2. Good(v, p, x, S, e, h)
      BY <1>2, <2>1 DEF Good, Pends
    <2> QED
      BY <2>1, <2>2, GoodSeen DEF Fetched, Follows
  <1>3. CASE u.listed
    <2> DEFINE unsure == ~u.markerRead \/ ~u.markerComplete
               word == IF Broken(u) THEN "failed"
                       ELSE IF unsure THEN "unknown"
                       ELSE IF complete THEN "complete" ELSE "failed"
               said == [u EXCEPT !.coverage = word]
               known == [said EXCEPT !.known = TRUE, !.marked = FALSE]
               f == Later(u.frontier, At[latest])
               seeded == [known EXCEPT !.frontier = f, !.presented = {latest}]
               left == [seeded EXCEPT !.unread = {m \in @ : UnreadAt(seeded, m)}]
    <2>1. v = said \/ v = known \/ (latest # 0 /\ v = NotePresented(left))
      BY <1>3 DEF ApplySeed
    <2>2. word \in {"complete", "unknown", "failed"}
      OBVIOUS
    <2> HIDE DEF word
    <2>3. said \in Uis(p)
      BY <1>1, <2>2 DEF Uis
    <2>4. /\ SameRows(said, u) /\ said.focus = u.focus /\ said.saved = u.saved
          /\ said.frontier = u.frontier /\ said.marked = u.marked /\ said.out = u.out
          /\ said.coverage = word
      BY <1>1 DEF Uis, SameRows
    <2> HIDE DEF said
    <2>5. known \in Uis(p)
      BY <2>3 DEF Uis
    <2>6. /\ SameRows(known, said) /\ known.focus = said.focus /\ known.saved = said.saved
          /\ ~known.marked /\ known.out = said.out /\ known.coverage = word
      BY <2>3, <2>4 DEF Uis, SameRows
    <2> HIDE DEF known
    <2>7. WellFormed(said, p) /\ WellFormed(known, p)
      BY <2>3, <2>4, <2>5, <2>6 DEF Good, WellFormed, SameRows
    <2>8. Good(said, p, x, S, e, h)
      BY <2>2, <2>4, <2>7, GoodWord DEF SameRows
    <2>9. Good(known, p, x, S, e, h)
      BY <2>2, <2>4, <2>6, <2>7, GoodWord DEF SameRows
    <2>10. CASE v = said
      BY <2>4, <2>8, <2>10, GoodSeen DEF SameRows, Fetched, Follows
    <2>11. CASE v = known
      BY <2>4, <2>6, <2>9, <2>11, GoodSeen DEF SameRows, Fetched, Follows
    <2>12. CASE latest # 0 /\ v = NotePresented(left)
      <3>1. latest \in 1 .. p /\ latest \in Message
        BY <2>12, LogIsMessages
      <3>2. f \in Second
        BY <1>1, <3>1, SecondsAreNumbers DEF Later
      <3> HIDE DEF f
      <3>3. seeded \in Uis(p)
        BY <2>5, <3>1, <3>2 DEF Uis
      <3>4. /\ SameRows(seeded, known) /\ seeded.focus = known.focus /\ seeded.saved = known.saved
            /\ ~seeded.marked /\ seeded.out = known.out /\ seeded.coverage = word
        BY <2>5, <2>6 DEF Uis, SameRows
      <3> HIDE DEF seeded
      <3>5. {m \in seeded.unread : UnreadAt(seeded, m)} \in SUBSET ((1 .. p) \ Mine)
        BY <3>3 DEF Uis
      <3>6. left \in Uis(p)
        BY <3>3, <3>5 DEF Uis
      <3>7. /\ SameRows(left, seeded) /\ left.focus = seeded.focus /\ left.saved = seeded.saved
            /\ ~left.marked /\ left.out = seeded.out /\ left.coverage = word
        BY <3>3, <3>4 DEF Uis, SameRows
      <3> HIDE DEF left
      <3>8. WellFormed(left, p)
        BY <2>6, <2>7, <3>4, <3>6, <3>7 DEF WellFormed, SameRows
      <3>9. Good(left, p, x, S, e, h)
        BY <2>2, <2>4, <2>6, <3>4, <3>7, <3>8, GoodWord DEF SameRows
      <3>10. Good(v, p, x, Seen(v, S), e, h) /\ SameView(v, left)
        BY <2>12, <3>9, Presents
      <3> QED
        BY <2>4, <2>6, <3>4, <3>7, <3>10 DEF SameRows, SameView, Fetched, Follows
    <2> QED
      BY <2>1, <2>10, <2>11, <2>12
  <1> QED
    BY <1>2, <1>3

LEMMA HistoryKeeps ==
  ASSUME NEW p \in 0 .. MaxMessage, NEW u, NEW w, NEW S \in SUBSET Message, NEW e \in Nat, NEW h,
         Good(u, p, w, S, e, h), u.listed, NEW last \in 0 .. p, Fetched(u) \subseteq 1 .. last,
         NEW v, v = ApplyHistory(u, last)
  PROVE  Good(v, p, w, Seen(v, S), e, h) /\ v.listed /\ Fetched(v) \subseteq 1 .. last
  <1> DEFINE fetched == 1 .. last
             rows == fetched \cup u.live
             live == u.live \ fetched
             loaded == [u EXCEPT !.rows = rows, !.live = live, !.loading = FALSE,
                                 !.historyFailed = FALSE]
             word == IF u.markerRead /\ u.markerComplete THEN "pending" ELSE "unknown"
             retry == [loaded EXCEPT !.waiting = TRUE, !.coverage = word]
             asked == IF ~u.historyFailed THEN loaded ELSE RequestCatchUp(retry)
  <1>1. v = IF u.selected THEN LandOn(asked, FocusedRow(u)) ELSE asked
    BY DEF ApplyHistory
  <1>2. u \in Uis(p) /\ p \in Nat /\ u.rows \in SUBSET (1 .. p) /\ u.live \in SUBSET (1 .. p)
    BY LogIsMessages DEF Good, WellFormed, Uis
  <1>3. fetched \in SUBSET (1 .. p)
    BY <1>2
  <1>4. rows \in SUBSET (1 .. p) /\ live \in SUBSET (1 .. p) /\ live \subseteq rows
    BY <1>2, <1>3
  <1>5. u.rows \in SUBSET rows /\ rows \ live \subseteq fetched
    BY DEF Fetched
  <1> HIDE DEF fetched, rows, live
  <1>6. loaded \in Uis(p)
    BY <1>2, <1>4 DEF Uis
  <1>7. /\ loaded.rows = rows /\ loaded.live = live /\ loaded.listed = u.listed
        /\ loaded.focus = u.focus /\ loaded.saved = u.saved
        /\ loaded.frontier = u.frontier /\ loaded.marked = u.marked /\ loaded.out = u.out
        /\ loaded.coverage = u.coverage /\ loaded.waiting = u.waiting
    BY <1>2 DEF Uis
  <1> HIDE DEF loaded
  <1>8. u.focus \in 0 .. Cardinality(rows)
    <2>1. Cardinality(u.rows) <= Cardinality(rows)
      BY <1>2, <1>4, <1>5, FewerMessages
    <2>2. Cardinality(u.rows) \in Nat /\ Cardinality(rows) \in Nat
      BY <1>2, <1>4, SomeMessages
    <2>3. u.focus \in 0 .. Cardinality(u.rows)
      BY DEF Good, WellFormed
    <2> QED
      BY <2>1, <2>2, <2>3
  <1>9. WellFormed(loaded, p)
    BY <1>4, <1>5, <1>6, <1>7, <1>8 DEF Good, WellFormed
  <1>10. Good(loaded, p, w, S, e, h)
    BY <1>7, <1>9, GoodView
  <1>11. Good(asked, p, w, S, e, h) /\ asked.listed /\ asked.rows = rows /\ asked.live = live
    <2>1. CASE ~u.historyFailed
      BY <1>7, <1>10, <2>1
    <2>2. CASE u.historyFailed
      <3>1. word \in {"pending", "unknown"}
        OBVIOUS
      <3> HIDE DEF word
      <3>2. retry \in Uis(p)
        BY <1>6, <3>1 DEF Uis
      <3>3. /\ SameRows(retry, loaded) /\ retry.focus = loaded.focus /\ retry.saved = loaded.saved
            /\ retry.frontier = loaded.frontier /\ retry.marked = loaded.marked
            /\ retry.out = loaded.out /\ retry.waiting /\ retry.coverage = word
        BY <1>6 DEF Uis, SameRows
      <3> HIDE DEF retry
      <3>4. WellFormed(retry, p)
        BY <1>9, <3>2, <3>3 DEF WellFormed, SameRows
      <3>5. Good(retry, p, w, S, e, h)
        BY <1>7, <1>10, <3>3, <3>4 DEF Good, Pends, Orderly, Honest, SameRows
      <3>6. asked = RequestCatchUp(retry)
        BY <2>2
      <3>7. Good(asked, p, w, S, e, h) /\ SameRows(asked, retry)
        BY <3>5, <3>6, AsksAtLast
      <3> QED
        BY <1>7, <3>3, <3>7 DEF SameRows
    <2> QED
      BY <2>1, <2>2
  <1> HIDE DEF asked
  <1>12. Good(v, p, w, Seen(v, S), e, h) /\ v.listed /\ v.rows = rows /\ v.live = live
    <2>1. CASE u.selected
      <3>1. Good(v, p, w, Seen(v, S), e, h) /\ SameRows(v, asked)
        BY <1>1, <1>11, <2>1, Lands
      <3> QED
        BY <1>11, <3>1 DEF SameRows
    <2>2. CASE ~u.selected
      BY <1>1, <1>11, <2>2, GoodSeen
    <2> QED
      BY <2>1, <2>2
  <1> QED
    BY <1>5, <1>12 DEF Fetched, fetched

LEMMA HistoryFailedKeeps ==
  ASSUME NEW p, NEW u, NEW w, NEW S, NEW e, NEW h, Good(u, p, w, S, e, h),
         NEW v, v = ApplyHistoryFailed(u)
  PROVE  Good(v, p, w, Seen(v, S), e, h) /\ Follows(v, u)
  <1>1. u \in Uis(p) /\ v = [u EXCEPT !.historyFailed = TRUE, !.loading = FALSE, !.coverage = "failed"]
    BY DEF Good, WellFormed, ApplyHistoryFailed
  <1>2. v \in Uis(p)
    BY <1>1 DEF Uis
  <1>3. /\ v.rows = u.rows /\ v.live = u.live /\ v.focus = u.focus /\ v.saved = u.saved
        /\ v.frontier = u.frontier /\ v.marked = u.marked /\ v.out = u.out
        /\ v.coverage = "failed" /\ v.listed = u.listed /\ v.selected = u.selected
    BY <1>1 DEF Uis
  <1>4. WellFormed(v, p)
    BY <1>2, <1>3 DEF Good, WellFormed
  <1>5. Good(v, p, w, S, e, h)
    BY <1>3, <1>4, GoodWord
  <1> QED
    BY <1>3, <1>5, GoodSeen DEF Fetched, Follows

LEMMA InboxTimelineKeeps ==
  ASSUME NEW p \in 0 .. MaxMessage, NEW u, NEW w, NEW S, NEW e, NEW h, Good(u, p, w, S, e, h),
         NEW m \in 1 .. p, NEW v, v = ApplyInboxTimeline(u, m)
  PROVE  Good(v, p, w, Seen(v, S), e, h) /\ Follows(v, u)
  <1>1. CASE v = u
    BY <1>1, GoodSeen DEF Fetched, Follows
  <1>2. CASE v = Count(u, {m})
    <2>1. {m} \in SUBSET (1 .. p)
      OBVIOUS
    <2>2. Good(v, p, w, S, e, h) /\ SameRows(v, u)
      BY <1>2, <2>1, CountsMore
    <2> QED
      BY <2>2, GoodSeen DEF SameRows, Fetched, Follows
  <1> QED
    BY <1>1, <1>2 DEF ApplyInboxTimeline

LEMMA TimelineKeeps ==
  ASSUME NEW p \in 0 .. MaxMessage, NEW u, NEW w, NEW S, NEW e, NEW h, Good(u, p, w, S, e, h),
         NEW m \in 1 .. p, NEW v, v = ApplyTimeline(u, m)
  PROVE  Good(v, p, w, Seen(v, S), e, h) /\ Follows(v, u)
  <1> DEFINE c == IF u.cover = "thread" THEN Count(u, {m}) ELSE u
             to == IF u.rows = {} \/ AtBottom(u) THEN Cardinality(u.rows) ELSE c.focus
             joined == [c EXCEPT !.rows = @ \cup {m}, !.live = @ \cup {m}, !.focus = to]
  <1>1. Good(c, p, w, S, e, h) /\ SameRows(c, u) /\ c.focus = u.focus
    <2>1. {m} \in SUBSET (1 .. p)
      OBVIOUS
    <2> QED
      BY <2>1, CountsMore DEF SameRows
  <1>2. CASE ~u.selected
    <2>1. v = ApplyInboxTimeline(u, m)
      BY <1>2 DEF ApplyTimeline
    <2> QED
      BY <2>1, InboxTimelineKeeps
  <1>3. CASE u.selected /\ m \in u.rows
    <2>1. v = c
      BY <1>3 DEF ApplyTimeline
    <2> QED
      BY <1>1, <2>1, GoodSeen DEF SameRows, Fetched, Follows
  <1>4. CASE u.selected /\ m \notin u.rows
    <2>1. v = [c EXCEPT !.rows = @ \cup {m}, !.live = @ \cup {m},
                        !.focus = IF u.rows = {} \/ AtBottom(u) THEN Cardinality(u.rows) ELSE @]
      BY <1>4 DEF ApplyTimeline
    <2>2. c \in Uis(p) /\ p \in Nat /\ c.rows \in SUBSET (1 .. p) /\ c.live \in SUBSET (1 .. p)
      BY <1>1, LogIsMessages DEF Good, WellFormed, Uis
    <2> DEFINE rows == u.rows \cup {m}
               live == u.live \cup {m}
    <2>3. c.rows = u.rows /\ c.live = u.live /\ c.focus \in Nat
      BY <1>1, <2>2 DEF SameRows, Uis
    <2>4. u.rows \in SUBSET (1 .. p) /\ rows \in SUBSET (1 .. p) /\ live \in SUBSET (1 .. p)
      BY <2>2, <2>3
    <2>5. u.rows \in SUBSET rows /\ live \subseteq rows /\ rows \ live \subseteq Fetched(u)
      BY <1>1 DEF Good, WellFormed, SameRows, Fetched
    <2>6. Cardinality(u.rows) \in Nat /\ Cardinality(rows) \in Nat
          /\ Cardinality(u.rows) <= Cardinality(rows)
      BY <2>2, <2>4, <2>5, SomeMessages, FewerMessages
    <2>7. c.focus \in 0 .. Cardinality(u.rows)
      BY <1>1, <2>3 DEF Good, WellFormed
    <2>8. to \in Nat /\ to \in 0 .. Cardinality(rows)
      BY <2>3, <2>6, <2>7
    <2>9. v = [c EXCEPT !.rows = rows, !.live = live, !.focus = to]
      BY <2>1, <2>2, <2>3 DEF Uis
    <2> HIDE DEF to, rows, live, c
    <2>10. v \in Uis(p)
      BY <2>2, <2>4, <2>8, <2>9 DEF Uis
    <2>11. /\ v.rows = rows /\ v.live = live /\ v.focus = to /\ v.saved = c.saved
           /\ v.frontier = c.frontier /\ v.marked = c.marked /\ v.out = c.out
           /\ v.coverage = c.coverage /\ v.waiting = c.waiting /\ v.listed = c.listed
           /\ v.selected = c.selected
      BY <2>2, <2>9 DEF Uis
    <2>12. WellFormed(v, p)
      BY <1>1, <2>3, <2>5, <2>8, <2>10, <2>11 DEF Good, WellFormed
    <2>13. Good(v, p, w, S, e, h)
      BY <1>1, <2>11, <2>12, GoodView
    <2> QED
      BY <1>1, <2>5, <2>11, <2>13, GoodSeen DEF SameRows, Fetched, Follows
  <1> QED
    BY <1>2, <1>3, <1>4
-----------------------------------------------------------------------------
(* The keys.                                                               *)

LEMMA OpenKeeps ==
  ASSUME NEW p \in 0 .. MaxMessage, NEW u, NEW w, NEW S \in SUBSET Message, NEW e \in Nat, NEW h,
         Good(u, p, w, S, e, h), u.listed, NEW v, v = Open(u)
  PROVE  Good(v, p, w, Seen(v, S), e, h) /\ Follows(v, u)
  <1> DEFINE on == [u EXCEPT !.selected = TRUE, !.loading = TRUE]
             set == RestorePosition(on)
             c == [type |-> "OpenChannel"]
  <1>1. u \in Uis(p) /\ v = Push(set, c)
    BY DEF Good, WellFormed, Open
  <1>2. on \in Uis(p)
    BY <1>1 DEF Uis
  <1>3. /\ on.rows = u.rows /\ on.live = u.live /\ on.focus = u.focus /\ on.saved = u.saved
        /\ on.frontier = u.frontier /\ on.marked = u.marked /\ on.out = u.out
        /\ on.coverage = u.coverage /\ on.waiting = u.waiting /\ on.listed = u.listed
    BY <1>1 DEF Uis
  <1> HIDE DEF on
  <1>4. WellFormed(on, p)
    BY <1>2, <1>3 DEF Good, WellFormed
  <1>5. Good(on, p, w, S, e, h)
    BY <1>3, <1>4, GoodView
  <1>6. Good(set, p, w, Seen(set, S), e, h) /\ SameRows(set, on)
    BY <1>5, Restores
  <1>7. c \in Outs /\ c.type # "ReadProgress" /\ set.listed
    BY <1>3, <1>6 DEF Outs, SameRows
  <1> HIDE DEF set, c
  <1>8. Good(v, p, w, Seen(set, S), e, h) /\ SameView(v, set)
    BY <1>1, <1>6, <1>7, GoodPush
  <1>9. Seen(v, S) = Seen(set, S)
    BY <1>8, SeenSame DEF SameView
  <1> QED
    BY <1>3, <1>6, <1>8, <1>9 DEF SameView, SameRows, Fetched, Follows

LEMMA LeaveKeeps ==
  ASSUME NEW p \in 0 .. MaxMessage, NEW u, NEW w, NEW S, NEW e, NEW h,
         Good(u, p, w, S, e, h), u.selected, NEW v, v = Leave(u)
  PROVE  Good(v, p, w, Seen(v, S), e, h) /\ Follows(v, u)
  <1> DEFINE row == IF u.focus < Cardinality(u.rows) THEN AtPosition(u.rows, u.focus) ELSE 0
  <1>1. /\ u \in Uis(p) /\ u.rows \in SUBSET (1 .. p) /\ p \in Nat
        /\ v = [u EXCEPT !.selected = FALSE, !.cover = "none", !.focus = 0, !.fallback = FALSE,
                         !.saved = row]
    BY LogIsMessages DEF Good, WellFormed, Leave, Uis
  <1>2. row \in {0} \cup u.rows
    BY RowUnderCursor DEF Good
  <1>3. row \in 0 .. p
    BY <1>1, <1>2
  <1> HIDE DEF row
  <1> DEFINE away == [u EXCEPT !.selected = FALSE, !.cover = "none", !.fallback = FALSE]
  <1>31. away \in Uis(p)
    BY <1>1 DEF Uis
  <1> DEFINE top == [away EXCEPT !.focus = 0]
  <1>32. v = [top EXCEPT !.saved = row]
    BY <1>1
  <1> HIDE DEF away
  <1>33. top \in Uis(p)
    BY <1>31 DEF Uis
  <1> HIDE DEF top
  <1>4. v \in Uis(p)
    BY <1>3, <1>32, <1>33 DEF Uis
  <1>5. /\ v.rows = u.rows /\ v.live = u.live /\ v.focus = 0 /\ v.saved = row
        /\ v.frontier = u.frontier /\ v.marked = u.marked /\ v.out = u.out
        /\ v.coverage = u.coverage /\ v.waiting = u.waiting /\ v.listed = u.listed
    BY <1>1 DEF Uis
  <1>6. 0 \in 0 .. Cardinality(u.rows)
    BY <1>1, SomeMessages
  <1>7. WellFormed(v, p)
    BY <1>2, <1>4, <1>5, <1>6 DEF Good, WellFormed
  <1>8. u.listed
    BY DEF Good, Orderly
  <1>9. Good(v, p, w, S, e, h)
    BY <1>5, <1>7, <1>8, GoodView
  <1> QED
    BY <1>5, <1>9, GoodSeen DEF Fetched, Follows

LEMMA CoverKeeps ==
  ASSUME NEW p \in 0 .. MaxMessage, NEW u, NEW w, NEW S, NEW e, NEW h,
         Good(u, p, w, S, e, h), NEW view \in {"help", "reader", "thread"},
         NEW v, v = Cover(u, view)
  PROVE  Good(v, p, w, Seen(v, S), e, h) /\ Follows(v, u)
  <1> DEFINE row == FocusedRow(u)
  <1>1. /\ u \in Uis(p) /\ u.rows \in SUBSET (1 .. p) /\ p \in Nat
        /\ v = [u EXCEPT !.cover = view, !.origin = row]
    BY LogIsMessages DEF Good, WellFormed, Cover, Uis
  <1>2. row \in {0} \cup u.rows
    BY RowUnderCursor DEF Good
  <1>3. row \in 0 .. p
    BY <1>1, <1>2
  <1> HIDE DEF row
  <1>4. v \in Uis(p)
    BY <1>1, <1>3 DEF Uis
  <1>5. /\ v.rows = u.rows /\ v.live = u.live /\ v.focus = u.focus /\ v.saved = u.saved
        /\ v.frontier = u.frontier /\ v.marked = u.marked /\ v.out = u.out
        /\ v.coverage = u.coverage /\ v.waiting = u.waiting /\ v.listed = u.listed
        /\ v.selected = u.selected
    BY <1>1 DEF Uis
  <1>6. WellFormed(v, p)
    BY <1>4, <1>5 DEF Good, WellFormed
  <1>7. Good(v, p, w, S, e, h)
    BY <1>5, <1>6, GoodView
  <1> QED
    BY <1>5, <1>7, GoodSeen DEF Fetched, Follows

LEMMA ReturnKeeps ==
  ASSUME NEW p \in 0 .. MaxMessage, NEW u, NEW w, NEW S \in SUBSET Message, NEW e \in Nat, NEW h,
         Good(u, p, w, S, e, h), u.cover # "none", NEW v, v = Return(u)
  PROVE  Good(v, p, w, Seen(v, S), e, h) /\ Follows(v, u)
  <1> DEFINE to == IF u.cover # "help" /\ u.origin \in u.rows
                     THEN Position(u.rows, u.origin) ELSE u.focus
             back == [u EXCEPT !.cover = "none", !.origin = 0, !.focus = to]
  <1>1. /\ u \in Uis(p) /\ u.rows \in SUBSET (1 .. p) /\ p \in Nat
        /\ u.cover \in {"help", "reader", "thread"} /\ 0 \in 0 .. p
    BY LogIsMessages DEF Good, WellFormed, Uis
  <1>2. \/ v = NotePresented(back)
        \/ v = [back EXCEPT !.fallback = FALSE]
        \/ v = SetFocus(back, back.focus)
    BY <1>1 DEF Return
  <1>3. to \in Nat /\ to \in 0 .. Cardinality(u.rows)
    <2>1. Cardinality(u.rows) \in Nat
      BY <1>1, SomeMessages
    <2>2. Position(u.rows, u.origin) \in 0 .. Cardinality(u.rows)
      BY <1>1, PlaceBounds
    <2>3. u.focus \in 0 .. Cardinality(u.rows)
      BY DEF Good, WellFormed
    <2> QED
      BY <2>1, <2>2, <2>3
  <1> HIDE DEF to
  <1>4. back \in Uis(p)
    BY <1>1, <1>3 DEF Uis
  <1>5. /\ back.rows = u.rows /\ back.live = u.live /\ back.focus = to /\ back.saved = u.saved
        /\ back.frontier = u.frontier /\ back.marked = u.marked /\ back.out = u.out
        /\ back.coverage = u.coverage /\ back.waiting = u.waiting /\ back.listed = u.listed
        /\ back.selected = u.selected
    BY <1>1 DEF Uis
  <1> HIDE DEF back
  <1>6. WellFormed(back, p)
    BY <1>3, <1>4, <1>5 DEF Good, WellFormed
  <1>7. Good(back, p, w, S, e, h)
    BY <1>5, <1>6, GoodView
  <1>8. CASE v = NotePresented(back)
    <2>1. Good(v, p, w, Seen(v, S), e, h) /\ SameView(v, back)
      BY <1>7, <1>8, Presents
    <2> QED
      BY <1>5, <2>1 DEF SameView, Fetched, Follows
  <1>9. CASE v = [back EXCEPT !.fallback = FALSE]
    <2>1. v \in Uis(p)
      BY <1>4, <1>9 DEF Uis
    <2>2. /\ v.rows = back.rows /\ v.live = back.live /\ v.focus = back.focus
          /\ v.saved = back.saved
          /\ v.frontier = back.frontier /\ v.marked = back.marked /\ v.out = back.out
          /\ v.coverage = back.coverage /\ v.waiting = back.waiting /\ v.listed = back.listed
          /\ v.selected = back.selected
      BY <1>4, <1>9 DEF Uis
    <2>3. WellFormed(v, p)
      BY <1>6, <2>1, <2>2 DEF WellFormed
    <2>4. Good(v, p, w, S, e, h)
      BY <1>7, <2>2, <2>3, GoodView
    <2> QED
      BY <1>5, <2>2, <2>4, GoodSeen DEF Fetched, Follows
  <1>10. CASE v = SetFocus(back, back.focus)
    <2>1. back.focus \in Nat
      BY <1>3, <1>5
    <2>2. Good(v, p, w, Seen(v, S), e, h) /\ SameRows(v, back)
      BY <1>7, <1>10, <2>1, Focuses
    <2> QED
      BY <1>5, <2>2 DEF SameRows, Fetched, Follows
  <1> QED
    BY <1>2, <1>8, <1>9, <1>10

-----------------------------------------------------------------------------
(* The interface's step: its record, what it pushed and what it showed.    *)

Said == Asked(commands) \/ Answered(answers)

LEMMA ShowKeeps ==
  ASSUME Typed, NEW v, NEW w, NEW h, Show(v),
         Good(v, posted, w, Seen(v, shown), elsewhere, h)
  PROVE  /\ WellFormed(ui', posted) /\ ui'.out = <<>>
         /\ commands' \in Seq(Outs) /\ shown' \in SUBSET Message
         /\ Pends(ui', w \/ Asked(commands')) /\ (Asked(commands) => Asked(commands'))
         /\ Orderly(ui') /\ (~ui'.listed /\ ~Opened(commands) => ~Opened(commands'))
         /\ h => Honest(ui', shown', elsewhere)
         /\ h /\ Told(commands, "ReadProgress", shown, elsewhere)
              => Told(commands', "ReadProgress", shown', elsewhere)
         /\ shown \subseteq shown'
         /\ Fetched(ui') = Fetched(v) /\ ui'.listed = v.listed
  <1>1. v \in Uis(posted) /\ v.out \in Seq(Outs) /\ commands \in Seq(Outs)
    BY DEF Good, WellFormed, Uis, Typed
  <1>2. /\ ui' = [v EXCEPT !.out = <<>>] /\ commands' = commands \o v.out
        /\ shown' = Seen(v, shown)
    BY DEF Show, Seen
  <1>3. <<>> \in Seq(Outs)
    OBVIOUS
  <1>4. ui' \in Uis(posted)
    BY <1>1, <1>2, <1>3 DEF Uis
  <1>5. /\ ui'.rows = v.rows /\ ui'.live = v.live /\ ui'.focus = v.focus /\ ui'.saved = v.saved
        /\ ui'.frontier = v.frontier /\ ui'.marked = v.marked /\ ui'.out = <<>>
        /\ ui'.coverage = v.coverage /\ ui'.waiting = v.waiting /\ ui'.listed = v.listed
        /\ ui'.selected = v.selected
    BY <1>1, <1>2 DEF Uis
  <1>6. WellFormed(ui', posted)
    BY <1>4, <1>5 DEF Good, WellFormed
  <1>7. commands' \in Seq(Outs)
    BY <1>1, <1>2, Joined
  <1>8. shown' \in SUBSET Message /\ shown \subseteq shown'
    BY <1>1, <1>2, SeenIsMessages, SeenMore DEF Typed
  <1>9. Asked(commands) \/ Asked(v.out) => Asked(commands')
    BY <1>1, <1>2, AskedJoins
  <1>10. Pends(ui', w \/ Asked(commands'))
    BY <1>5, <1>9 DEF Good, Pends
  <1>11. ~Opened(<<>>)
    BY DEF Opened
  <1>12. Orderly(ui')
    BY <1>5, <1>11 DEF Good, Orderly
  <1>13. Opened(commands') => Opened(commands) \/ Opened(v.out)
    BY <1>1, <1>2, OpenedJoins
  <1>14. ~ui'.listed /\ ~Opened(commands) => ~Opened(commands')
    BY <1>5, <1>13 DEF Good, Orderly
  <1>15. Told(<<>>, "ReadProgress", shown', elsewhere)
    BY DEF Told
  <1>16. h => Honest(ui', shown', elsewhere)
    BY <1>2, <1>5, <1>15 DEF Good, Honest
  <1>17. ASSUME h, Told(commands, "ReadProgress", shown, elsewhere)
         PROVE  Told(commands', "ReadProgress", shown', elsewhere)
    <2>1. Told(commands, "ReadProgress", shown', elsewhere)
      BY <1>8, <1>17, ToldMore
    <2>2. Told(v.out, "ReadProgress", shown', elsewhere)
      BY <1>2, <1>17 DEF Good, Honest
    <2> QED
      BY <1>1, <1>2, <2>1, <2>2, ToldJoins
  <1>18. Fetched(ui') = Fetched(v)
    BY <1>5 DEF Fetched
  <1> QED
    BY <1>5, <1>6, <1>7, <1>8, <1>9, <1>10, <1>12, <1>14, <1>16, <1>17, <1>18

LEMMA IsGood ==
  ASSUME IInv
  PROVE  /\ Good(ui, posted, Said, shown, elsewhere, ~adopted)
         /\ posted \in 0 .. MaxMessage /\ elsewhere \in Nat /\ shown \in SUBSET Message
         /\ heads \in BOOLEAN
  BY SecondsAreNumbers DEF IInv, Good, Said, Typed, PendingAsks, ListedFirst, ClaimsAreHonest

\* A step of the interface that leaves the answers alone.
LEMMA ScreenKeeps ==
  ASSUME IInv, NEW v, Show(v),
         Good(v, posted, Said, Seen(v, shown), elsewhere, ~adopted),
         Follows(v, ui),
         feed' \in Seq(Reports(posted)), drops' \in Nat, moves' \in Nat, claims' \in Nat,
         UNCHANGED <<answers, link, inbox, timeline, pending, posted, marker, adopted,
                     heads, elsewhere, faults, others>>
  PROVE  IInv'
  <1> DEFINE w == Said
             h == ~adopted
  <1>1. Typed /\ Good(v, posted, w, Seen(v, shown), elsewhere, h)
    BY DEF IInv
  <1> HIDE DEF w, h
  <1>2. /\ WellFormed(ui', posted) /\ ui'.out = <<>>
        /\ commands' \in Seq(Outs) /\ shown' \in SUBSET Message
        /\ Pends(ui', w \/ Asked(commands')) /\ (Asked(commands) => Asked(commands'))
        /\ Orderly(ui') /\ (~ui'.listed /\ ~Opened(commands) => ~Opened(commands'))
        /\ h => Honest(ui', shown', elsewhere)
        /\ h /\ Told(commands, "ReadProgress", shown, elsewhere)
             => Told(commands', "ReadProgress", shown', elsewhere)
        /\ shown \subseteq shown'
        /\ Fetched(ui') = Fetched(v) /\ ui'.listed = v.listed
    BY <1>1, ShowKeeps
  <1>3. Typed'
    BY <1>1, <1>2 DEF Typed
  <1>4. HistoriesGrow'
    BY <1>2 DEF IInv, HistoriesGrow, Fetched, Follows
  <1>5. PendingAsks'
    BY <1>2 DEF PendingAsks, Pends, w, Said
  <1>6. ListedFirst'
    BY <1>2 DEF IInv, ListedFirst, Follows
  <1>7. ASSUME ~adopted'
        PROVE  ClaimsAreHonest'
    <2>1. ClaimsAreHonest /\ h
      BY <1>7 DEF IInv, h
    <2>2. Reaches(marker', shown', elsewhere') /\ (pending' # NoRead => Reaches(pending', shown', elsewhere'))
      BY <1>2, <2>1, ReachesMore DEF ClaimsAreHonest
    <2>3. Told(answers', "ReadState", shown', elsewhere')
      BY <1>2, <2>1, ToldMore DEF ClaimsAreHonest
    <2>4. Told(commands', "ReadProgress", shown', elsewhere') /\ Honest(ui', shown', elsewhere')
      BY <1>2, <2>1 DEF ClaimsAreHonest
    <2> QED
      BY <2>2, <2>3, <2>4 DEF ClaimsAreHonest
  <1> QED
    BY <1>3, <1>4, <1>5, <1>6, <1>7 DEF IInv

LEMMA HandleFeedKeeps ==
  ASSUME IInv, HandleFeed
  PROVE  IInv'
  <1> DEFINE r == Head(feed)
             v == CASE r.type = "Connected"     -> ApplyConnected(ui)
                    [] r.type = "Disconnected"  -> ApplyDisconnected(ui)
                    [] r.type = "InboxTimeline" -> ApplyInboxTimeline(ui, r.id)
                    [] r.type = "Timeline"      -> ApplyTimeline(ui, r.id)
                    [] r.type = "InboxClosed"   -> ApplyInboxClosed(ui)
  <1>1. /\ feed # <<>> /\ Show(v) /\ feed' = Tail(feed)
        /\ UNCHANGED <<answers, inbox, timeline, pending, marker, link, posted, adopted,
                       heads, elsewhere, drops, faults, moves, claims, others>>
    BY DEF HandleFeed, rigid, counters
  <1>2. /\ Good(ui, posted, Said, shown, elsewhere, ~adopted)
        /\ posted \in 0 .. MaxMessage /\ elsewhere \in Nat /\ shown \in SUBSET Message
        /\ heads \in BOOLEAN
    BY IsGood
  <1>3. feed \in Seq(Reports(posted)) /\ drops \in Nat /\ moves \in Nat /\ claims \in Nat
    BY DEF IInv, Typed
  <1>4. r \in Reports(posted) /\ feed' \in Seq(Reports(posted))
    BY <1>1, <1>3, Taken
  <1>5. /\ r.type \in {"Connected", "Disconnected", "InboxClosed", "InboxTimeline", "Timeline"}
        /\ r.type \in {"InboxTimeline", "Timeline"} => r.id \in 1 .. posted
    BY <1>4 DEF Reports
  <1> HIDE DEF r
  <1>6. /\ Good(v, posted, Said, Seen(v, shown), elsewhere, ~adopted)
        /\ Follows(v, ui)
    <2>1. CASE r.type = "Connected"
      <3>1. v = ApplyConnected(ui)
        BY <2>1
      <3> QED
        BY <1>2, <3>1, ConnectedKeeps
    <2>2. CASE r.type \in {"Disconnected", "InboxClosed"}
      <3>1. v = ApplyDisconnected(ui) \/ v = ApplyInboxClosed(ui)
        BY <2>2
      <3> QED
        BY <1>2, <3>1, DisconnectedKeeps
    <2>3. CASE r.type = "InboxTimeline"
      <3>1. v = ApplyInboxTimeline(ui, r.id)
        BY <2>3
      <3> QED
        BY <1>2, <1>5, <2>3, <3>1, InboxTimelineKeeps
    <2>4. CASE r.type = "Timeline"
      <3>1. v = ApplyTimeline(ui, r.id)
        BY <2>4
      <3> QED
        BY <1>2, <1>5, <2>4, <3>1, TimelineKeeps
    <2> QED
      BY <1>5, <2>1, <2>2, <2>3, <2>4
  <1> HIDE DEF v
  <1> QED
    BY <1>1, <1>3, <1>4, <1>6, ScreenKeeps

LEMMA KeyKeeps ==
  ASSUME IInv, NEW v, Key(v),
         Good(v, posted, Said, Seen(v, shown), elsewhere, ~adopted), Follows(v, ui)
  PROVE  IInv'
  <1>1. /\ Show(v) /\ moves' = moves + 1
        /\ UNCHANGED <<answers, inbox, timeline, pending, marker, feed, link, posted, adopted,
                       heads, elsewhere, drops, faults, claims, others>>
    BY DEF Key, rigid
  <1>2. feed \in Seq(Reports(posted)) /\ drops \in Nat /\ moves \in Nat /\ claims \in Nat
    BY DEF IInv, Typed
  <1>3. feed' \in Seq(Reports(posted)) /\ drops' \in Nat /\ moves' \in Nat /\ claims' \in Nat
    BY <1>1, <1>2
  <1> QED
    BY <1>1, <1>3, ScreenKeeps

LEMMA KeysKeep ==
  ASSUME IInv, OpenKey \/ LeaveKey \/ MoveKey \/ CoverKey \/ ReturnKey \/ Refresh
  PROVE  IInv'
  <1> DEFINE good(v) == Good(v, posted, Said, Seen(v, shown), elsewhere, ~adopted) /\ Follows(v, ui)
  <1>1. /\ Good(ui, posted, Said, shown, elsewhere, ~adopted)
        /\ posted \in 0 .. MaxMessage /\ elsewhere \in Nat /\ shown \in SUBSET Message
    BY IsGood
  <1>2. CASE OpenKey
    <2>1. ui.listed /\ Key(Open(ui))
      BY <1>2 DEF OpenKey
    <2>2. good(Open(ui))
      BY <1>1, <2>1, OpenKeeps
    <2> QED
      BY <2>1, <2>2, KeyKeeps
  <1>3. CASE LeaveKey
    <2>1. ui.selected /\ Key(Leave(ui))
      BY <1>3 DEF LeaveKey
    <2>2. good(Leave(ui))
      BY <1>1, <2>1, LeaveKeeps
    <2> QED
      BY <2>1, <2>2, KeyKeeps
  <1>4. CASE MoveKey
    <2>1. PICK i \in {0, Newest} : Key(SetFocus(ui, i))
      BY <1>4 DEF MoveKey
    <2>2. i \in Nat
      BY <2>1, Seconds DEF Newest
    <2>3. /\ Good(SetFocus(ui, i), posted, Said, Seen(SetFocus(ui, i), shown), elsewhere, ~adopted)
          /\ SameRows(SetFocus(ui, i), ui)
      BY <1>1, <2>2, Focuses
    <2>4. good(SetFocus(ui, i))
      BY <2>3 DEF SameRows, Fetched, Follows
    <2> QED
      BY <2>1, <2>4, KeyKeeps
  <1>5. CASE CoverKey
    <2>1. PICK view \in {"help", "reader", "thread"} : Key(Cover(ui, view))
      BY <1>5 DEF CoverKey
    <2>2. good(Cover(ui, view))
      BY <1>1, <2>1, CoverKeeps
    <2> QED
      BY <2>1, <2>2, KeyKeeps
  <1>6. CASE ReturnKey
    <2>1. ui.cover # "none" /\ Key(Return(ui))
      BY <1>6 DEF ReturnKey
    <2>2. good(Return(ui))
      BY <1>1, <2>1, ReturnKeeps
    <2> QED
      BY <2>1, <2>2, KeyKeeps
  <1>7. CASE Refresh
    <2> DEFINE c == [type |-> "LoadChannels"]
               v == Push(ui, c)
    <2>1. Key(v)
      BY <1>7 DEF Refresh
    <2>2. c \in Outs /\ c.type # "ReadProgress" /\ c.type # "OpenChannel"
      BY DEF Outs
    <2> HIDE DEF c
    <2>3. Good(v, posted, Said, shown, elsewhere, ~adopted) /\ SameView(v, ui)
      BY <1>1, <2>2, GoodPush
    <2> HIDE DEF v
    <2>4. good(v)
      BY <2>3, GoodSeen DEF SameView, Fetched, Follows
    <2> QED
      BY <2>1, <2>4, KeyKeeps
  <1> QED
    BY <1>2, <1>3, <1>4, <1>5, <1>6, <1>7

LEMMA OtherClaimKeeps ==
  ASSUME IInv, OtherClaim
  PROVE  IInv'
  <1> DEFINE c == [type |-> "ReadProgress", at |-> IF ui.marked THEN ui.frontier ELSE 0]
             v == Push(ui, c)
  <1>1. /\ Good(ui, posted, Said, shown, elsewhere, ~adopted)
        /\ posted \in 0 .. MaxMessage /\ elsewhere \in Nat /\ shown \in SUBSET Message
    BY IsGood
  <1>2. /\ Show(v) /\ claims' = claims + 1
        /\ UNCHANGED <<answers, inbox, timeline, pending, marker, feed, link, posted, adopted,
                       heads, elsewhere, drops, faults, moves, others>>
    BY DEF OtherClaim, RequestPublish, rigid
  <1>3. ui.frontier \in Second
    BY <1>1 DEF Good, WellFormed, Uis
  <1>4. c \in Outs /\ c.type # "OpenChannel"
    BY <1>3, SecondsAreNumbers DEF Outs
  <1>5. ~adopted => Reaches(c.at, shown, elsewhere)
    <2>1. CASE ui.marked
      BY <1>1, <2>1 DEF Good, Honest
    <2>2. CASE ~ui.marked
      BY <1>1, <2>2 DEF Reaches
    <2> QED
      BY <2>1, <2>2
  <1> HIDE DEF c
  <1>6. Good(v, posted, Said, shown, elsewhere, ~adopted) /\ SameView(v, ui)
    BY <1>1, <1>4, <1>5, GoodPush
  <1> HIDE DEF v
  <1>7. Good(v, posted, Said, Seen(v, shown), elsewhere, ~adopted) /\ Follows(v, ui)
    BY <1>6, GoodSeen DEF SameView, Fetched, Follows
  <1>8. feed \in Seq(Reports(posted)) /\ drops \in Nat /\ moves \in Nat /\ claims \in Nat
    BY DEF IInv, Typed
  <1>9. feed' \in Seq(Reports(posted)) /\ drops' \in Nat /\ moves' \in Nat /\ claims' \in Nat
    BY <1>2, <1>8
  <1> QED
    BY <1>2, <1>7, <1>9, ScreenKeeps

LEMMA AnswerKinds ==
  ASSUME NEW p, NEW a \in Answers(p)
  PROVE  /\ a.type \in {"Channels", "HistoryFailed", "ReadState", "CatchUp", "Seed", "History"}
         /\ a.type = "ReadState" => a.complete \in BOOLEAN /\ a.at \in Second
         /\ a.type = "CatchUp" => a.events \in SUBSET (1 .. p)
         /\ a.type = "Seed" => a.latest \in 0 .. p
         /\ a.type = "History" => a.last \in 0 .. p
  BY DEF Answers

LEMMA GoodLess ==
  ASSUME NEW p, NEW u, NEW w, NEW x, w => x, NEW S, NEW e, NEW h, NEW i, i => h,
         Good(u, p, w, S, e, h)
  PROVE  Good(u, p, x, S, e, i)
  BY DEF Good, Pends

LEMMA HandleAnswerKeeps ==
  ASSUME IInv, HandleAnswer
  PROVE  IInv'
  <1> DEFINE a == Head(answers)
             v == CASE a.type = "Channels"  -> ApplyChannels(ui)
                    [] a.type = "ReadState" -> ApplyReadState(ui, a.complete, a.at)
                    [] a.type = "CatchUp"   -> ApplyCatchUp(ui, a.events, a.complete)
                    [] a.type = "Seed"      -> ApplySeed(ui, a.latest, a.complete)
                    [] a.type = "History"   -> ApplyHistory(ui, a.last)
                    [] a.type = "HistoryFailed" -> ApplyHistoryFailed(ui)
             x == Asked(commands) \/ Answered(Tail(answers))
             h == ~adopted'
  <1>1. /\ answers # <<>> /\ Show(v) /\ answers' = Tail(answers)
        /\ adopted' = (adopted \/ (a.type = "ReadState" /\ AdoptsSeed(ui, a.complete, a.at)))
        /\ UNCHANGED <<inbox, timeline, pending, marker, feed, link, posted,
                       heads, elsewhere, drops, faults, moves, claims, others>>
    BY DEF HandleAnswer, rigid, counters
  <1>2. /\ Good(ui, posted, Said, shown, elsewhere, ~adopted)
        /\ posted \in 0 .. MaxMessage /\ elsewhere \in Nat /\ shown \in SUBSET Message
        /\ heads \in BOOLEAN
    BY IsGood
  <1>3. answers \in Seq(Answers(posted)) /\ Typed
    BY DEF IInv, Typed
  <1>4. a \in Answers(posted) /\ answers' \in Seq(Answers(posted))
    BY <1>1, <1>3, Taken
  <1>5. /\ a.type \in {"Channels", "HistoryFailed", "ReadState", "CatchUp", "Seed", "History"}
        /\ a.type = "ReadState" => a.complete \in BOOLEAN /\ a.at \in Second
        /\ a.type = "CatchUp" => a.events \in SUBSET (1 .. posted)
        /\ a.type = "Seed" => a.latest \in 0 .. posted
        /\ a.type = "History" => a.last \in 0 .. posted
    BY <1>4, AnswerKinds
  <1>6. h => ~adopted /\ (a.type = "ReadState" => ~AdoptsSeed(ui, a.complete, a.at))
    BY <1>1
  <1>7. adopted' \in BOOLEAN
    BY <1>1
  <1>8. Answered(answers) => Answered(Tail(answers)) \/ a.type \in {"CatchUp", "Seed"}
    BY <1>1, <1>3, AskedStays
  <1>9. Good(ui, posted, Said, shown, elsewhere, h)
    BY <1>2, <1>6, GoodLess
  <1>10. a.type \notin {"CatchUp", "Seed"} => Good(ui, posted, x, shown, elsewhere, h)
    <2>1. a.type \notin {"CatchUp", "Seed"} => (Said => x)
      BY <1>8 DEF Said
    <2> HIDE DEF x
    <2> QED
      BY <1>9, <2>1, GoodLess
  <1>11. a.type \in {"History", "HistoryFailed"} => ui.listed
    <2>1. a.type \in {"History", "HistoryFailed"} => Opened(answers)
      BY <1>1, <1>3, OpenedStays
    <2> QED
      BY <2>1 DEF IInv, ListedFirst
  <1>12. a.type = "History" => Fetched(ui) \subseteq 1 .. a.last
    <2>1. 1 \in DOMAIN answers /\ answers[1] = a
      BY <1>1, <1>3, Taken
    <2> QED
      BY <2>1 DEF IInv, HistoriesGrow, Fetched
  <1>13. h /\ a.type = "ReadState" => Reaches(a.at, shown, elsewhere)
    <2>1. h => Told(answers, "ReadState", shown, elsewhere)
      BY <1>6 DEF IInv, ClaimsAreHonest
    <2> QED
      BY <1>1, <1>3, <2>1, ToldStays
  <1> HIDE DEF a, h, x
  <1>131. /\ a.type = "Channels"  => v = ApplyChannels(ui)
          /\ a.type = "ReadState" => v = ApplyReadState(ui, a.complete, a.at)
          /\ a.type = "CatchUp"   => v = ApplyCatchUp(ui, a.events, a.complete)
          /\ a.type = "Seed"      => v = ApplySeed(ui, a.latest, a.complete)
          /\ a.type = "History"   => v = ApplyHistory(ui, a.last)
          /\ a.type = "HistoryFailed" => v = ApplyHistoryFailed(ui)
    OBVIOUS
  <1> HIDE DEF v
  <1>14. /\ Good(v, posted, x, Seen(v, shown), elsewhere, h)
         /\ ui.listed => v.listed
         /\ Fetched(v) \subseteq Fetched(ui) \/ (a.type = "History" /\ Fetched(v) \subseteq 1 .. a.last)
    <2>1. CASE a.type = "Channels"
      <3>1. v = ApplyChannels(ui) /\ Good(ui, posted, x, shown, elsewhere, h)
        BY <1>10, <1>131, <2>1
      <3>2. Good(v, posted, x, Seen(v, shown), elsewhere, h) /\ Follows(v, ui)
        BY <1>2, <3>1, ChannelsKeep
      <3> QED
        BY <3>2 DEF Follows
    <2>2. CASE a.type = "ReadState"
      <3>1. v = ApplyReadState(ui, a.complete, a.at) /\ Good(ui, posted, x, shown, elsewhere, h)
        BY <1>10, <1>131, <2>2
      <3>2. h => Reaches(a.at, shown, elsewhere) /\ ~AdoptsSeed(ui, a.complete, a.at)
        BY <1>6, <1>13, <2>2
      <3>3. Good(v, posted, x, Seen(v, shown), elsewhere, h) /\ Follows(v, ui)
        BY <1>2, <1>5, <2>2, <3>1, <3>2, ReadStateKeeps
      <3> QED
        BY <3>3 DEF Follows
    <2>3. CASE a.type = "CatchUp"
      <3>1. v = ApplyCatchUp(ui, a.events, a.complete)
        BY <1>131, <2>3
      <3>2. Good(v, posted, x, Seen(v, shown), elsewhere, h) /\ Follows(v, ui)
        BY <1>2, <1>5, <1>9, <2>3, <3>1, CatchUpKeeps
      <3> QED
        BY <3>2 DEF Follows
    <2>4. CASE a.type = "Seed"
      <3>1. v = ApplySeed(ui, a.latest, a.complete)
        BY <1>131, <2>4
      <3>2. Good(v, posted, x, Seen(v, shown), elsewhere, h) /\ Follows(v, ui)
        BY <1>2, <1>5, <1>9, <2>4, <3>1, SeedKeeps
      <3> QED
        BY <3>2 DEF Follows
    <2>5. CASE a.type = "History"
      <3>1. v = ApplyHistory(ui, a.last) /\ Good(ui, posted, x, shown, elsewhere, h)
        BY <1>10, <1>131, <2>5
      <3> QED
        BY <1>2, <1>5, <1>11, <1>12, <2>5, <3>1, HistoryKeeps
    <2>6. CASE a.type = "HistoryFailed"
      <3>1. v = ApplyHistoryFailed(ui) /\ Good(ui, posted, x, shown, elsewhere, h)
        BY <1>10, <1>131, <2>6
      <3>2. Good(v, posted, x, Seen(v, shown), elsewhere, h) /\ Follows(v, ui)
        BY <3>1, HistoryFailedKeeps
      <3> QED
        BY <3>2 DEF Follows
    <2> QED
      BY <1>5, <2>1, <2>2, <2>3, <2>4, <2>5, <2>6
  <1>15. /\ WellFormed(ui', posted) /\ ui'.out = <<>>
         /\ commands' \in Seq(Outs) /\ shown' \in SUBSET Message
         /\ Pends(ui', x \/ Asked(commands')) /\ (Asked(commands) => Asked(commands'))
         /\ Orderly(ui') /\ (~ui'.listed /\ ~Opened(commands) => ~Opened(commands'))
         /\ h => Honest(ui', shown', elsewhere)
         /\ h /\ Told(commands, "ReadProgress", shown, elsewhere)
              => Told(commands', "ReadProgress", shown', elsewhere)
         /\ shown \subseteq shown'
         /\ Fetched(ui') = Fetched(v) /\ ui'.listed = v.listed
    BY <1>1, <1>3, <1>14, ShowKeeps
  <1>16. Typed'
    BY <1>1, <1>3, <1>4, <1>7, <1>15 DEF Typed
  <1>17. HistoriesGrow'
    <2>1. \A i \in DOMAIN answers' : i \in Nat \ {0} /\ i + 1 \in DOMAIN answers /\ answers'[i] = answers[i + 1]
      BY <1>1, <1>3, Taken
    <2>2. 1 \in DOMAIN answers /\ answers[1] = a
      BY <1>1, <1>3, Taken DEF a
    <2>3. HistoriesGrow
      BY DEF IInv
    <2>4. ASSUME NEW i \in DOMAIN answers', answers'[i].type = "History"
          PROVE  Fetched(ui') \subseteq 1 .. answers'[i].last
      <3>1. i + 1 \in DOMAIN answers /\ answers'[i] = answers[i + 1] /\ 1 < i + 1
        BY <2>1
      <3>2. Fetched(ui) \subseteq 1 .. answers'[i].last
        BY <2>3, <2>4, <3>1 DEF HistoriesGrow, Fetched
      <3>3. a.type = "History" => a.last <= answers'[i].last
        BY <2>2, <2>3, <2>4, <3>1 DEF HistoriesGrow
      <3>4. answers'[i].last \in Nat
        <4>1. answers'[i] \in Answers(posted)
          BY <1>4
        <4>2. answers'[i].last \in 0 .. posted
          BY <2>4, <4>1, AnswerKinds
        <4> QED
          BY <1>2, <4>2
      <3>5. a.type = "History" => 1 .. a.last \subseteq 1 .. answers'[i].last
        BY <1>2, <1>5, <3>3, <3>4
      <3> QED
        BY <1>14, <1>15, <3>2, <3>5
    <2>5. ASSUME NEW i \in DOMAIN answers', NEW j \in DOMAIN answers', i < j,
                 answers'[i].type = "History", answers'[j].type = "History"
          PROVE  answers'[i].last <= answers'[j].last
      <3>1. /\ i + 1 \in DOMAIN answers /\ answers'[i] = answers[i + 1]
            /\ j + 1 \in DOMAIN answers /\ answers'[j] = answers[j + 1] /\ i + 1 < j + 1
        BY <2>1, <2>5
      <3> QED
        BY <2>3, <2>5, <3>1 DEF HistoriesGrow
    <2> QED
      BY <2>4, <2>5 DEF HistoriesGrow, Fetched
  <1>18. PendingAsks'
    BY <1>1, <1>15 DEF PendingAsks, Pends, x
  <1>19. ListedFirst'
    <2>1. Opened(answers') => Opened(answers)
      BY <1>1, <1>3, OpenedStays
    <2> QED
      BY <1>14, <1>15, <2>1 DEF IInv, ListedFirst
  <1>20. ASSUME ~adopted'
         PROVE  ClaimsAreHonest'
    <2>1. ClaimsAreHonest /\ h
      BY <1>6, <1>20 DEF IInv, h
    <2>2. Reaches(marker', shown', elsewhere') /\ (pending' # NoRead => Reaches(pending', shown', elsewhere'))
      BY <1>1, <1>15, <2>1, ReachesMore DEF ClaimsAreHonest
    <2>3. Told(answers, "ReadState", shown', elsewhere)
      BY <1>15, <2>1, ToldMore DEF ClaimsAreHonest
    <2>4. Told(answers', "ReadState", shown', elsewhere')
      BY <1>1, <1>3, <2>3, ToldStays
    <2>5. Told(commands', "ReadProgress", shown', elsewhere') /\ Honest(ui', shown', elsewhere')
      BY <1>1, <1>15, <2>1 DEF ClaimsAreHonest
    <2> QED
      BY <2>2, <2>4, <2>5 DEF ClaimsAreHonest
  <1> QED
    BY <1>16, <1>17, <1>18, <1>19, <1>20 DEF IInv

-----------------------------------------------------------------------------
(* The command pump's step: it takes a command, and answers.               *)

LEMMA AnswersGrow ==
  ASSUME IInv, NEW r \in Seq(Answers(posted)), answers' = answers \o r, ui' = ui, posted' = posted,
         \A i \in DOMAIN r : r[i].type = "History" => r[i].last = posted
  PROVE  HistoriesGrow'
  <1>1. answers \in Seq(Answers(posted)) /\ posted \in Nat /\ HistoriesGrow
    BY LogIsMessages DEF IInv, Typed
  <1>2. DOMAIN answers = 1 .. Len(answers) /\ Len(answers) \in Nat
    BY <1>1
  <1> DEFINE new(i) == i - Len(answers)
  <1>3. \A i \in DOMAIN answers' :
          \/ i \in DOMAIN answers /\ answers'[i] = answers[i]
          \/ new(i) \in DOMAIN r /\ answers'[i] = r[new(i)]
    BY <1>1, Joined
  <1>4. DOMAIN r = 1 .. Len(r) /\ Len(r) \in Nat /\ DOMAIN answers' \subseteq Nat
    <2>1. answers' \in Seq(Answers(posted))
      BY <1>1, Joined
    <2> QED
      BY <2>1
  <1>5. ui.rows \ ui.live \subseteq 1 .. posted
    BY DEF IInv, Typed, WellFormed, Uis
  <1>6. \A i \in DOMAIN answers : answers[i].type = "History" => answers[i].last \in 0 .. posted
    BY <1>1, AnswerKinds
  <1>7. ASSUME NEW i \in DOMAIN answers', answers'[i].type = "History"
        PROVE  ui'.rows \ ui'.live \subseteq 1 .. answers'[i].last
    <2>1. CASE i \in DOMAIN answers /\ answers'[i] = answers[i]
      BY <1>1, <1>7, <2>1 DEF HistoriesGrow
    <2>2. CASE new(i) \in DOMAIN r /\ answers'[i] = r[new(i)]
      BY <1>5, <1>7, <2>2
    <2> QED
      BY <1>3, <2>1, <2>2
  <1>8. ASSUME NEW i \in DOMAIN answers', NEW j \in DOMAIN answers', i < j,
               answers'[i].type = "History", answers'[j].type = "History"
        PROVE  answers'[i].last <= answers'[j].last
    <2>1. CASE j \in DOMAIN answers /\ answers'[j] = answers[j]
      <3>1. i \in DOMAIN answers /\ ~(new(i) \in DOMAIN r)
        BY <1>2, <1>4, <1>8, <2>1
      <3>2. answers'[i] = answers[i]
        BY <1>3, <3>1
      <3> QED
        BY <1>1, <1>8, <2>1, <3>1, <3>2 DEF HistoriesGrow
    <2>2. CASE new(j) \in DOMAIN r /\ answers'[j] = r[new(j)]
      <3>1. answers'[j].last = posted
        BY <1>8, <2>2
      <3>2. answers'[i].last \in 0 .. posted
        <4>1. CASE i \in DOMAIN answers /\ answers'[i] = answers[i]
          BY <1>6, <1>8, <4>1
        <4>2. CASE new(i) \in DOMAIN r /\ answers'[i] = r[new(i)]
          BY <1>1, <1>8, <4>2
        <4> QED
          BY <1>3, <4>1, <4>2
      <3> QED
        BY <1>1, <3>1, <3>2
    <2> QED
      BY <1>3, <2>1, <2>2
  <1> QED
    BY <1>7, <1>8 DEF HistoriesGrow

LEMMA PumpKeeps ==
  ASSUME IInv, NEW r \in Seq(Answers(posted)), answers' = answers \o r,
         \A i \in DOMAIN r : r[i].type = "History" => r[i].last = posted,
         commands' \in Seq(Outs), feed' \in Seq(Reports(posted)),
         Asked(commands) => Asked(commands') \/ Answered(r),
         Opened(commands') \/ Opened(r) => Opened(commands),
         inbox' \in {"none", "kept", "ended"}, timeline' \in BOOLEAN,
         pending' \in {NoRead} \cup Second, marker' \in Second, marker <= marker',
         faults' \in Nat,
         ~adopted => /\ Told(commands', "ReadProgress", shown, elsewhere)
                     /\ Told(r, "ReadState", shown, elsewhere)
                     /\ Reaches(marker', shown, elsewhere)
                     /\ pending' # NoRead => Reaches(pending', shown, elsewhere),
         UNCHANGED <<ui, link, posted, shown, adopted, heads, elsewhere,
                     drops, moves, claims, others>>
  PROVE  IInv'
  <1>1. answers \in Seq(Answers(posted)) /\ Second \subseteq Nat
    BY SecondsAreNumbers DEF IInv, Typed
  <1>2. answers' \in Seq(Answers(posted))
    BY <1>1, Joined
  <1>3. /\ Answered(answers) \/ Answered(r) => Answered(answers')
        /\ Opened(answers') => Opened(answers) \/ Opened(r)
    BY <1>1, AskedJoins, OpenedJoins
  <1>4. elsewhere \in Nat /\ marker \in Nat /\ elsewhere <= marker
    BY <1>1 DEF IInv, Typed
  <1>5. elsewhere <= marker'
    BY <1>1, <1>4
  <1>6. Typed'
    BY <1>2, <1>5 DEF IInv, Typed
  <1>7. HistoriesGrow'
    BY AnswersGrow
  <1>8. PendingAsks'
    BY <1>3 DEF IInv, PendingAsks, Pends
  <1>9. ListedFirst'
    BY <1>3 DEF IInv, ListedFirst, Orderly
  <1>10. ASSUME ~adopted'
         PROVE  ClaimsAreHonest'
    <2>1. ClaimsAreHonest /\ ~adopted
      BY <1>10 DEF IInv
    <2>2. Told(answers', "ReadState", shown, elsewhere)
      BY <1>1, <2>1, ToldJoins DEF ClaimsAreHonest
    <2>3. Honest(ui', shown', elsewhere')
      BY <2>1 DEF ClaimsAreHonest, Honest
    <2> QED
      BY <2>1, <2>2, <2>3 DEF ClaimsAreHonest
  <1> QED
    BY <1>6, <1>7, <1>8, <1>9, <1>10 DEF IInv

\* Short queues of answers, by what they hold.
LEMMA OneAnswer ==
  ASSUME NEW V, NEW a \in V
  PROVE  /\ <<a>> \in Seq(V) /\ DOMAIN <<a>> = {1} /\ <<a>>[1] = a
         /\ Answered(<<a>>) <=> a.type \in {"CatchUp", "Seed"}
         /\ Opened(<<a>>) <=> a.type \in {"OpenChannel", "History", "HistoryFailed"}
         /\ \A type, S, e : Told(<<a>>, type, S, e) <=> (a.type = type => Reaches(a.at, S, e))
  <1>1. <<a>> \in Seq(V) /\ DOMAIN <<a>> = {1} /\ <<a>>[1] = a
    OBVIOUS
  <1>2. Answered(<<a>>) <=> a.type \in {"CatchUp", "Seed"}
    BY <1>1 DEF Answered
  <1>3. Opened(<<a>>) <=> a.type \in {"OpenChannel", "History", "HistoryFailed"}
    BY <1>1 DEF Opened
  <1>4. \A type, S, e : Told(<<a>>, type, S, e) <=> (a.type = type => Reaches(a.at, S, e))
    BY <1>1 DEF Told
  <1> QED
    BY <1>1, <1>2, <1>3, <1>4

LEMMA NoAnswer ==
  ASSUME NEW V, NEW q \in Seq(V)
  PROVE  /\ <<>> \in Seq(V) /\ q \o <<>> = q /\ DOMAIN <<>> = {}
         /\ ~Answered(<<>>) /\ ~Opened(<<>>)
         /\ \A type, S, e : Told(<<>>, type, S, e)
  BY DEF Answered, Opened, Told

LEMMA TwoAnswers ==
  ASSUME NEW V, NEW a \in V, NEW b \in V
  PROVE  /\ <<a, b>> \in Seq(V) /\ DOMAIN <<a, b>> = {1, 2}
         /\ <<a, b>>[1] = a /\ <<a, b>>[2] = b
         /\ Opened(<<a, b>>) => \/ a.type \in {"OpenChannel", "History", "HistoryFailed"}
                                \/ b.type \in {"OpenChannel", "History", "HistoryFailed"}
         /\ \A type, S, e : (a.type = type => Reaches(a.at, S, e))
                            /\ (b.type = type => Reaches(b.at, S, e)) => Told(<<a, b>>, type, S, e)
  <1>1. /\ <<a, b>> \in Seq(V) /\ DOMAIN <<a, b>> = {1, 2}
        /\ <<a, b>>[1] = a /\ <<a, b>>[2] = b
    OBVIOUS
  <1>2. Opened(<<a, b>>) => \/ a.type \in {"OpenChannel", "History", "HistoryFailed"}
                            \/ b.type \in {"OpenChannel", "History", "HistoryFailed"}
    BY <1>1 DEF Opened
  <1>3. \A type, S, e : (a.type = type => Reaches(a.at, S, e))
                        /\ (b.type = type => Reaches(b.at, S, e)) => Told(<<a, b>>, type, S, e)
    BY <1>1 DEF Told
  <1> QED
    BY <1>1, <1>2, <1>3

\* What is left once a command is taken.
LEMMA CommandTaken ==
  ASSUME IInv, NEW type, Take(type)
  PROVE  /\ Head(commands) \in Outs /\ Head(commands).type = type
         /\ commands' \in Seq(Outs)
         /\ Asked(commands) => Asked(commands') \/ type \in {"CatchUp", "Newest"}
         /\ Opened(commands') => Opened(commands)
         /\ type = "OpenChannel" => Opened(commands)
         /\ ~adopted => /\ Told(commands', "ReadProgress", shown, elsewhere)
                        /\ type = "ReadProgress" => Reaches(Head(commands).at, shown, elsewhere)
  <1>1. commands \in Seq(Outs) /\ commands # <<>> /\ Head(commands).type = type
        /\ commands' = Tail(commands)
    BY DEF IInv, Typed, Take
  <1>2. Head(commands) \in Outs /\ commands' \in Seq(Outs)
    BY <1>1, Taken
  <1>3. Asked(commands) => Asked(commands') \/ type \in {"CatchUp", "Newest"}
    BY <1>1, AskedStays
  <1>4. /\ Opened(commands') => Opened(commands)
        /\ type = "OpenChannel" => Opened(commands)
    BY <1>1, OpenedStays
  <1>5. ASSUME ~adopted
        PROVE  /\ Told(commands', "ReadProgress", shown, elsewhere)
               /\ type = "ReadProgress" => Reaches(Head(commands).at, shown, elsewhere)
    <2>1. Told(commands, "ReadProgress", shown, elsewhere)
      BY <1>5 DEF IInv, ClaimsAreHonest
    <2> QED
      BY <1>1, <2>1, ToldStays
  <1> QED
    BY <1>1, <1>2, <1>3, <1>4, <1>5

LEMMA EventsSince ==
  ASSUME NEW p \in Nat, posted = p, NEW type \in {"Timeline", "InboxTimeline"}, NEW from \in Overlap
  PROVE  Since(type, from) \in Seq(Reports(p))
  <1>1. from \in 0 .. p /\ p - from \in Nat
    BY DEF Overlap
  <1>2. \A i \in 1 .. p - from : [type |-> type, id |-> from + i] \in Reports(p)
    <2>1. \A i \in 1 .. p - from : from + i \in 1 .. p
      BY <1>1
    <2> QED
      BY <2>1 DEF Reports
  <1> QED
    BY <1>1, <1>2 DEF Since

LEMMA ReplayTyped ==
  ASSUME IInv, NEW type \in {"Timeline", "InboxTimeline"}, Replay(type)
  PROVE  feed' \in Seq(Reports(posted))
  <1>1. feed \in Seq(Reports(posted)) /\ posted \in Nat
    BY LogIsMessages DEF IInv, Typed
  <1>2. CASE link = "up"
    <2>1. PICK from \in Overlap : feed' = feed \o Since(type, from)
      BY <1>2 DEF Replay
    <2>2. Since(type, from) \in Seq(Reports(posted))
      BY <1>1, <2>1, EventsSince
    <2> QED
      BY <1>1, <2>1, <2>2
  <1>3. CASE link # "up"
    BY <1>1, <1>3 DEF Replay
  <1> QED
    BY <1>2, <1>3

LEMMA Ready ==
  ASSUME IInv
  PROVE  /\ posted \in Nat /\ posted \in 0 .. MaxMessage
         /\ answers \in Seq(Answers(posted)) /\ feed \in Seq(Reports(posted))
         /\ commands \in Seq(Outs) /\ faults \in Nat
         /\ inbox \in {"none", "kept", "ended"} /\ timeline \in BOOLEAN
         /\ pending \in {NoRead} \cup Second
         /\ marker \in Second /\ marker \in Nat /\ marker <= marker
         /\ Second \subseteq Nat /\ 0 \in Second
         /\ ~adopted => /\ Reaches(marker, shown, elsewhere)
                        /\ pending # NoRead => Reaches(pending, shown, elsewhere)
                        /\ Reaches(0, shown, elsewhere)
  <1>1. Second \subseteq Nat /\ 0 \in Second
    BY SecondsAreNumbers
  <1>2. Typed
    BY DEF IInv
  <1>3. posted \in Nat /\ elsewhere \in Nat /\ marker \in Nat
    BY <1>1, <1>2, LogIsMessages DEF Typed
  <1>4. Reaches(0, shown, elsewhere)
    BY <1>3 DEF Reaches
  <1> QED
    BY <1>1, <1>2, <1>3, <1>4 DEF Typed, IInv, ClaimsAreHonest

LEMMA LoadChannelsKeeps ==
  ASSUME IInv, LoadChannels
  PROVE  IInv'
  <1> DEFINE a == [type |-> "Channels"]
             b == [type |-> "ReadState", complete |-> TRUE, at |-> marker]
             c == [type |-> "ReadState", complete |-> FALSE, at |-> 0]
  <1>1. /\ Take("LoadChannels") /\ inbox' = "kept" /\ Replay("InboxTimeline")
        /\ UNCHANGED <<timeline, pending, marker>> /\ PumpElse
        /\ \/ faults' = faults /\ answers' = answers \o <<a, b>>
           \/ faults' = faults + 1 /\ answers' = answers \o <<a, c>>
    BY DEF LoadChannels, Succeeds, Fails, Answer
  <1>2. a \in Answers(posted) /\ b \in Answers(posted) /\ c \in Answers(posted)
    BY Ready DEF Answers
  <1>3. /\ a.type = "Channels" /\ b.type = "ReadState" /\ c.type = "ReadState"
        /\ b.at = marker /\ c.at = 0
    OBVIOUS
  <1> HIDE DEF a, b, c
  <1>4. PICK r \in Seq(Answers(posted)) :
          /\ answers' = answers \o r
          /\ \A i \in DOMAIN r : r[i].type # "History"
          /\ ~Opened(r)
          /\ ~adopted => Told(r, "ReadState", shown, elsewhere)
    <2>1. CASE answers' = answers \o <<a, b>>
      <3>1. ~adopted => Told(<<a, b>>, "ReadState", shown, elsewhere)
        BY <1>2, <1>3, Ready, TwoAnswers
      <3>2. ~Opened(<<a, b>>) /\ \A i \in DOMAIN <<a, b>> : <<a, b>>[i].type # "History"
        BY <1>2, <1>3, TwoAnswers
      <3>3. <<a, b>> \in Seq(Answers(posted))
        BY <1>2, TwoAnswers
      <3> QED
        BY <2>1, <3>1, <3>2, <3>3
    <2>2. CASE answers' = answers \o <<a, c>>
      <3>1. ~adopted => Told(<<a, c>>, "ReadState", shown, elsewhere)
        BY <1>2, <1>3, Ready, TwoAnswers
      <3>2. ~Opened(<<a, c>>) /\ \A i \in DOMAIN <<a, c>> : <<a, c>>[i].type # "History"
        BY <1>2, <1>3, TwoAnswers
      <3>3. <<a, c>> \in Seq(Answers(posted))
        BY <1>2, TwoAnswers
      <3> QED
        BY <2>2, <3>1, <3>2, <3>3
    <2> QED
      BY <1>1, <2>1, <2>2
  <1>5. feed' \in Seq(Reports(posted)) /\ faults' \in Nat
    BY <1>1, Ready, ReplayTyped
  <1>6. /\ commands' \in Seq(Outs) /\ (Asked(commands) => Asked(commands'))
        /\ (Opened(commands') => Opened(commands))
        /\ ~adopted => Told(commands', "ReadProgress", shown, elsewhere)
    <2>1. Take("LoadChannels")
      BY <1>1
    <2> QED
      BY <2>1, CommandTaken
  <1>7. UNCHANGED <<ui, link, posted, shown, adopted, heads, elsewhere, drops, moves, claims, others>>
    BY <1>1 DEF PumpElse, ghosts, rigid
  <1>8. /\ inbox' \in {"none", "kept", "ended"} /\ timeline' \in BOOLEAN
        /\ pending' \in {NoRead} \cup Second /\ marker' \in Second /\ marker <= marker'
        /\ ~adopted => /\ Reaches(marker', shown, elsewhere)
                       /\ pending' # NoRead => Reaches(pending', shown, elsewhere)
    BY <1>1, Ready
  <1> QED
    BY <1>4, <1>5, <1>6, <1>7, <1>8, PumpKeeps

\* A command that is not answered: at most it leaves a claim to publish.
LEMMA NoAnswerKeeps ==
  ASSUME IInv, NEW type, Take(type), type \notin {"CatchUp", "Newest"}, faults' \in Nat,
         pending' \in {NoRead} \cup Second,
         ~adopted => (pending' # NoRead => Reaches(pending', shown, elsewhere)),
         UNCHANGED <<answers, inbox, timeline, marker, feed>>, PumpElse
  PROVE  IInv'
  <1> DEFINE r == <<>>
  <1>1. answers \in Seq(Answers(posted))
    BY Ready
  <1>2. /\ r \in Seq(Answers(posted)) /\ answers \o r = answers /\ DOMAIN r = {}
        /\ ~Opened(r) /\ Told(r, "ReadState", shown, elsewhere)
    BY <1>1, NoAnswer
  <1> HIDE DEF r
  <1>3. /\ answers' = answers \o r
        /\ \A i \in DOMAIN r : r[i].type = "History" => r[i].last = posted
    BY <1>2
  <1>4. /\ commands' \in Seq(Outs) /\ (Asked(commands) => Asked(commands'))
        /\ Opened(commands') => Opened(commands)
        /\ ~adopted => Told(commands', "ReadProgress", shown, elsewhere)
    BY CommandTaken
  <1>5. UNCHANGED <<ui, link, posted, shown, adopted, heads, elsewhere, drops, moves, claims, others>>
    BY DEF PumpElse, ghosts, rigid
  <1>6. /\ inbox' \in {"none", "kept", "ended"} /\ timeline' \in BOOLEAN
        /\ marker' \in Second /\ marker <= marker' /\ feed' \in Seq(Reports(posted))
        /\ ~adopted => Reaches(marker', shown, elsewhere)
    BY Ready
  <1> QED
    BY <1>2, <1>3, <1>4, <1>5, <1>6, PumpKeeps

LEMMA LoadChannelsFailsKeeps ==
  ASSUME IInv, LoadChannelsFails
  PROVE  IInv'
  <1>1. /\ Take("LoadChannels") /\ faults' = faults + 1 /\ pending' = pending
        /\ UNCHANGED <<answers, inbox, timeline, marker, feed>> /\ PumpElse
    BY DEF LoadChannelsFails, Fails
  <1>2. /\ faults' \in Nat /\ pending' \in {NoRead} \cup Second
        /\ ~adopted => (pending' # NoRead => Reaches(pending', shown, elsewhere))
    BY <1>1, Ready
  <1> QED
    BY <1>1, <1>2, NoAnswerKeeps

LEMMA ReadProgressKeeps ==
  ASSUME IInv, ReadProgress
  PROVE  IInv'
  <1>1. /\ Take("ReadProgress") /\ pending' = Head(commands).at
        /\ UNCHANGED <<answers, inbox, timeline, marker, feed, faults>> /\ PumpElse
    BY DEF ReadProgress
  <1>2. /\ Head(commands) \in Outs /\ Head(commands).type = "ReadProgress"
        /\ ~adopted => Reaches(Head(commands).at, shown, elsewhere)
    BY <1>1, CommandTaken
  <1>3. Head(commands).at \in Second
    BY <1>2 DEF Outs
  <1>4. /\ faults' \in Nat /\ pending' \in {NoRead} \cup Second
        /\ ~adopted => (pending' # NoRead => Reaches(pending', shown, elsewhere))
    BY <1>1, <1>2, <1>3, Ready
  <1> QED
    BY <1>1, <1>4, NoAnswerKeeps

\* The commands that are answered by one record.
LEMMA OneAnswerKeeps ==
  ASSUME IInv, NEW type, Take(type), NEW a \in Answers(posted), Answer(<<a>>),
         a.type = "History" => a.last = posted,
         a.type \in {"History", "HistoryFailed"} => type = "OpenChannel",
         type \in {"CatchUp", "Newest"} => a.type \in {"CatchUp", "Seed"},
         a.type # "ReadState", faults' \in Nat,
         feed' \in Seq(Reports(posted)), timeline' \in BOOLEAN,
         UNCHANGED <<inbox, pending, marker>>, PumpElse
  PROVE  IInv'
  <1> DEFINE r == <<a>>
  <1>1. /\ r \in Seq(Answers(posted)) /\ DOMAIN r = {1} /\ r[1] = a
        /\ Answered(r) <=> a.type \in {"CatchUp", "Seed"}
        /\ Opened(r) <=> a.type \in {"OpenChannel", "History", "HistoryFailed"}
        /\ Told(r, "ReadState", shown, elsewhere)
    BY OneAnswer
  <1>2. answers' = answers \o r
    BY DEF Answer
  <1> HIDE DEF r
  <1>3. \A i \in DOMAIN r : r[i].type = "History" => r[i].last = posted
    BY <1>1
  <1>4. /\ commands' \in Seq(Outs)
        /\ Asked(commands) => Asked(commands') \/ type \in {"CatchUp", "Newest"}
        /\ Opened(commands') => Opened(commands)
        /\ type = "OpenChannel" => Opened(commands)
        /\ ~adopted => Told(commands', "ReadProgress", shown, elsewhere)
    BY CommandTaken
  <1>5. a.type # "OpenChannel"
    BY AnswerKinds
  <1>6. /\ Asked(commands) => Asked(commands') \/ Answered(r)
        /\ Opened(commands') \/ Opened(r) => Opened(commands)
    BY <1>1, <1>4, <1>5
  <1>7. UNCHANGED <<ui, link, posted, shown, adopted, heads, elsewhere, drops, moves, claims, others>>
    BY DEF PumpElse, ghosts, rigid
  <1>8. /\ inbox' \in {"none", "kept", "ended"}
        /\ pending' \in {NoRead} \cup Second /\ marker' \in Second /\ marker <= marker'
        /\ ~adopted => /\ Reaches(marker', shown, elsewhere)
                       /\ pending' # NoRead => Reaches(pending', shown, elsewhere)
    BY Ready
  <1> QED
    BY <1>1, <1>2, <1>3, <1>4, <1>6, <1>7, <1>8, PumpKeeps

LEMMA OpenChannelKeeps ==
  ASSUME IInv, OpenChannel
  PROVE  IInv'
  <1> DEFINE a == [type |-> "History", last |-> posted]
             b == [type |-> "HistoryFailed"]
  <1>1. /\ Take("OpenChannel") /\ timeline' = TRUE
        /\ IF timeline THEN UNCHANGED feed ELSE Replay("Timeline")
        /\ UNCHANGED <<inbox, pending, marker>> /\ PumpElse
        /\ \/ faults' = faults /\ Answer(<<a>>)
           \/ faults' = faults + 1 /\ Answer(<<b>>)
    BY DEF OpenChannel, Succeeds, Fails
  <1>2. feed' \in Seq(Reports(posted)) /\ faults' \in Nat /\ timeline' \in BOOLEAN
    BY <1>1, Ready, ReplayTyped
  <1>3. a \in Answers(posted) /\ b \in Answers(posted)
    BY Ready DEF Answers
  <1>4. a.type = "History" /\ a.last = posted /\ b.type = "HistoryFailed"
    OBVIOUS
  <1> HIDE DEF a, b
  <1>5. CASE Answer(<<a>>)
    BY <1>1, <1>2, <1>3, <1>4, <1>5, OneAnswerKeeps
  <1>6. CASE Answer(<<b>>)
    BY <1>1, <1>2, <1>3, <1>4, <1>6, OneAnswerKeeps
  <1> QED
    BY <1>1, <1>5, <1>6

LEMMA CatchUpsKeep ==
  ASSUME IInv, CatchUp \/ CatchUpNewest
  PROVE  IInv'
  <1>1. CASE CatchUp
    <2> DEFINE missed == {m \in 1 .. posted : At[m] >= Head(commands).since}
    <2>1. /\ Take("CatchUp") /\ UNCHANGED <<inbox, timeline, pending, marker, feed>> /\ PumpElse
          /\ \/ /\ faults' = faults
                /\ Answer(<<[type |-> "CatchUp", events |-> missed, complete |-> TRUE]>>)
             \/ /\ faults' = faults + 1
                /\ \E last \in missed \cup {0} :
                     Answer(<<[type |-> "CatchUp", complete |-> FALSE,
                               events |-> {m \in missed : last # 0 /\ m >= last}]>>)
      BY <1>1 DEF CatchUp, Succeeds, Fails
    <2>2. missed \in SUBSET (1 .. posted)
      OBVIOUS
    <2> HIDE DEF missed
    <2>3. \A last : {m \in missed : last # 0 /\ m >= last} \in SUBSET (1 .. posted)
      BY <2>2
    <2>4. PICK events \in SUBSET (1 .. posted), complete \in BOOLEAN :
            Answer(<<[type |-> "CatchUp", events |-> events, complete |-> complete]>>)
      BY <2>1, <2>2, <2>3
    <2> DEFINE a == [type |-> "CatchUp", events |-> events, complete |-> complete]
    <2>5. a \in Answers(posted) /\ a.type = "CatchUp" /\ Answer(<<a>>)
      BY <2>4 DEF Answers
    <2> HIDE DEF a
    <2>6. faults' \in Nat /\ feed' \in Seq(Reports(posted)) /\ timeline' \in BOOLEAN
      BY <2>1, Ready
    <2> QED
      BY <2>1, <2>5, <2>6, OneAnswerKeeps
  <1>2. CASE CatchUpNewest
    <2> DEFINE a == [type |-> "Seed", latest |-> posted, complete |-> TRUE]
               b == [type |-> "Seed", latest |-> 0, complete |-> FALSE]
    <2>1. /\ Take("Newest") /\ UNCHANGED <<inbox, timeline, pending, marker, feed>> /\ PumpElse
          /\ \/ faults' = faults /\ Answer(<<a>>)
             \/ faults' = faults + 1 /\ Answer(<<b>>)
      BY <1>2 DEF CatchUpNewest, Succeeds, Fails
    <2>2. a \in Answers(posted) /\ b \in Answers(posted)
      BY Ready DEF Answers
    <2>3. a.type = "Seed" /\ b.type = "Seed"
      OBVIOUS
    <2> HIDE DEF a, b
    <2>4. faults' \in Nat /\ feed' \in Seq(Reports(posted)) /\ timeline' \in BOOLEAN
      BY <2>1, Ready
    <2>5. CASE Answer(<<a>>)
      BY <2>1, <2>2, <2>3, <2>4, <2>5, OneAnswerKeeps
    <2>6. CASE Answer(<<b>>)
      BY <2>1, <2>2, <2>3, <2>4, <2>6, OneAnswerKeeps
    <2> QED
      BY <2>1, <2>5, <2>6
  <1> QED
    BY <1>1, <1>2

LEMMA PublishReadKeeps ==
  ASSUME IInv, PublishRead
  PROVE  IInv'
  <1> DEFINE a == [type |-> "ReadState", complete |-> TRUE, at |-> Later(marker, pending)]
  <1>1. /\ pending # NoRead /\ pending' = NoRead
        /\ UNCHANGED <<commands, inbox, timeline, feed>> /\ PumpElse
        /\ \/ faults' = faults /\ marker' = Later(marker, pending) /\ answers' = answers \o <<a>>
           \/ faults' = faults + 1 /\ marker' = marker /\ answers' = answers
    BY DEF PublishRead, Succeeds, Fails, Answer
  <1>2. /\ pending \in Second /\ pending \in Nat
        /\ ~adopted => Reaches(pending, shown, elsewhere)
    BY <1>1, Ready
  <1>3. /\ Later(marker, pending) \in {marker, pending} /\ marker <= Later(marker, pending)
    BY <1>2, Ready DEF Later
  <1>4. /\ Later(marker, pending) \in Second
        /\ ~adopted => Reaches(Later(marker, pending), shown, elsewhere)
    BY <1>2, <1>3, Ready
  <1>5. a \in Answers(posted) /\ a.type = "ReadState" /\ a.at = Later(marker, pending)
    BY <1>4 DEF Answers
  <1> HIDE DEF a
  <1>6. PICK r \in Seq(Answers(posted)) :
          /\ answers' = answers \o r
          /\ \A i \in DOMAIN r : r[i].type # "History"
          /\ ~Opened(r)
          /\ ~adopted => Told(r, "ReadState", shown, elsewhere)
    <2>1. CASE answers' = answers \o <<a>>
      <3>1. /\ <<a>> \in Seq(Answers(posted)) /\ ~Opened(<<a>>)
            /\ \A i \in DOMAIN <<a>> : <<a>>[i].type # "History"
        BY <1>5, OneAnswer
      <3>2. ~adopted => Told(<<a>>, "ReadState", shown, elsewhere)
        BY <1>4, <1>5, OneAnswer
      <3> QED
        BY <2>1, <3>1, <3>2
    <2>2. CASE answers' = answers
      <3> DEFINE none == <<>>
      <3>1. answers \in Seq(Answers(posted))
        BY Ready
      <3>2. /\ none \in Seq(Answers(posted)) /\ answers \o none = answers /\ DOMAIN none = {}
            /\ ~Opened(none) /\ Told(none, "ReadState", shown, elsewhere)
        BY <3>1, NoAnswer
      <3> HIDE DEF none
      <3> QED
        BY <2>2, <3>2
    <2> QED
      BY <1>1, <2>1, <2>2
  <1>7. UNCHANGED <<ui, link, posted, shown, adopted, heads, elsewhere, drops, moves, claims, others>>
    BY <1>1 DEF PumpElse, ghosts, rigid
  <1>8. /\ inbox' \in {"none", "kept", "ended"} /\ timeline' \in BOOLEAN
        /\ pending' \in {NoRead} \cup Second /\ ~(pending' # NoRead)
        /\ feed' \in Seq(Reports(posted)) /\ faults' \in Nat /\ commands' \in Seq(Outs)
    BY <1>1, Ready
  <1>9. marker' \in Second /\ marker <= marker' /\ (~adopted => Reaches(marker', shown, elsewhere))
    BY <1>1, <1>3, <1>4, Ready
  <1>10. /\ Asked(commands) => Asked(commands')
         /\ Opened(commands') \/ Opened(r) => Opened(commands)
         /\ ~adopted => Told(commands', "ReadProgress", shown, elsewhere)
    BY <1>1, <1>6 DEF IInv, ClaimsAreHonest
  <1> QED
    BY <1>6, <1>7, <1>8, <1>9, <1>10, PumpKeeps
-----------------------------------------------------------------------------
(* The relay and the connection: the log grows, the feed reports, another  *)
(* terminal reads.  The interface and the command pump stand still.        *)

\* What was well formed of a log is so of a longer one.
LEMMA LongerLog ==
  ASSUME NEW p \in Nat, NEW q \in Nat, p <= q
  PROVE  /\ \A u : WellFormed(u, p) => WellFormed(u, q)
         /\ Answers(p) \subseteq Answers(q) /\ Reports(p) \subseteq Reports(q)
  <1>1. 1 .. p \subseteq 1 .. q /\ 0 .. p \subseteq 0 .. q
    OBVIOUS
  <1>2. SUBSET (1 .. p) \subseteq SUBSET (1 .. q)
        /\ SUBSET ((1 .. p) \ Mine) \subseteq SUBSET ((1 .. q) \ Mine)
    BY <1>1
  <1>3. Answers(p) \subseteq Answers(q)
    BY <1>1, <1>2 DEF Answers
  <1>4. Reports(p) \subseteq Reports(q)
    BY <1>1 DEF Reports
  <1>5. Uis(p) \subseteq Uis(q)
    BY <1>1, <1>2 DEF Uis
  <1>6. \A u : WellFormed(u, p) => WellFormed(u, q)
    BY <1>5 DEF WellFormed
  <1> QED
    BY <1>3, <1>4, <1>6

LEMMA LongerQueue ==
  ASSUME NEW V, NEW W, V \subseteq W, NEW q \in Seq(V)
  PROVE  q \in Seq(W)
  OBVIOUS

LEMMA FeedKeeps ==
  ASSUME IInv, posted' \in 0 .. MaxMessage, posted <= posted',
         feed' \in Seq(Reports(posted')), link' \in {"off", "up", "down"},
         inbox' \in {"none", "kept", "ended"}, drops' \in Nat, faults' \in Nat, FeedElse
  PROVE  IInv'
  <1>1. UNCHANGED <<ui, commands, answers, timeline, pending, marker, shown, adopted,
                    heads, elsewhere, moves, claims, others>>
    BY DEF FeedElse, ghosts, rigid
  <1>2. posted \in Nat /\ posted' \in Nat
    BY LogIsMessages DEF IInv, Typed
  <1>3. WellFormed(ui', posted')
    BY <1>1, <1>2, LongerLog DEF IInv, Typed
  <1>4. answers' \in Seq(Answers(posted'))
    <2>1. answers \in Seq(Answers(posted)) /\ Answers(posted) \subseteq Answers(posted')
      BY <1>2, LongerLog DEF IInv, Typed
    <2> QED
      BY <1>1, <2>1, LongerQueue
  <1>5. Typed'
    BY <1>1, <1>3, <1>4 DEF IInv, Typed
  <1>6. HistoriesGrow' /\ PendingAsks' /\ ListedFirst'
    BY <1>1 DEF IInv, HistoriesGrow, PendingAsks, ListedFirst
  <1>7. ~adopted' => ClaimsAreHonest'
    BY <1>1 DEF IInv, ClaimsAreHonest
  <1> QED
    BY <1>5, <1>6, <1>7 DEF IInv

LEMMA PostKeeps ==
  ASSUME IInv, Post
  PROVE  IInv'
  <1>1. /\ posted < MaxMessage /\ posted' = posted + 1
        /\ IF link = "up" THEN Deliver(posted + 1) ELSE UNCHANGED feed
        /\ UNCHANGED <<inbox, link, drops, faults>> /\ FeedElse
    BY DEF Post
  <1>2. /\ posted \in 0 .. MaxMessage /\ MaxMessage \in Nat /\ feed \in Seq(Reports(posted))
        /\ inbox \in {"none", "kept", "ended"} /\ link \in {"off", "up", "down"}
        /\ drops \in Nat /\ faults \in Nat
    BY Seconds DEF IInv, Typed
  <1>3. /\ posted \in Nat /\ posted' \in Nat /\ posted' \in 0 .. MaxMessage
        /\ posted <= posted' /\ posted + 1 \in 1 .. posted'
    BY <1>1, <1>2
  <1>4. feed \in Seq(Reports(posted'))
    BY <1>2, <1>3, LongerLog, LongerQueue
  <1>5. feed' \in Seq(Reports(posted'))
    <2> DEFINE a == [type |-> "InboxTimeline", id |-> posted + 1]
               b == [type |-> "Timeline", id |-> posted + 1]
               one == IF inbox = "kept" THEN <<a>> ELSE <<>>
               two == IF timeline THEN <<b>> ELSE <<>>
    <2>1. CASE link = "up"
      <3>1. feed' = (feed \o one) \o two \/ feed' = (feed \o two) \o one
        BY <1>1, <2>1 DEF Deliver
      <3>2. a \in Reports(posted') /\ b \in Reports(posted')
        BY <1>3 DEF Reports
      <3> HIDE DEF a, b
      <3>3. one \in Seq(Reports(posted')) /\ two \in Seq(Reports(posted'))
        BY <3>2
      <3> HIDE DEF one, two
      <3>4. feed \o one \in Seq(Reports(posted')) /\ feed \o two \in Seq(Reports(posted'))
        BY <1>4, <3>3, Joined
      <3>5. /\ (feed \o one) \o two \in Seq(Reports(posted'))
            /\ (feed \o two) \o one \in Seq(Reports(posted'))
        BY <3>3, <3>4, Joined
      <3> QED
        BY <3>1, <3>5
    <2>2. CASE link # "up"
      BY <1>1, <1>4, <2>2
    <2> QED
      BY <2>1, <2>2
  <1>6. /\ inbox' \in {"none", "kept", "ended"} /\ link' \in {"off", "up", "down"}
        /\ drops' \in Nat /\ faults' \in Nat /\ FeedElse
    BY <1>1, <1>2
  <1> QED
    BY <1>3, <1>5, <1>6, FeedKeeps

LEMMA ConnectKeeps ==
  ASSUME IInv, Connect
  PROVE  IInv'
  <1>1. /\ link' = "up" /\ inbox' = IF inbox = "none" THEN "none" ELSE "kept"
        /\ UNCHANGED <<posted, drops, faults>> /\ FeedElse
    BY DEF Connect
  <1> DEFINE c == [type |-> "Connected"]
             one(from) == Since("Timeline", IF timeline THEN from ELSE posted)
             two(from) == Since("InboxTimeline", IF inbox = "none" THEN posted ELSE from)
  <1>2. PICK from \in Overlap : feed' = ((feed \o <<c>>) \o one(from)) \o two(from)
    BY DEF Connect
  <1>3. /\ posted \in 0 .. MaxMessage /\ posted \in Nat /\ feed \in Seq(Reports(posted))
        /\ drops \in Nat /\ faults \in Nat
    BY LogIsMessages DEF IInv, Typed
  <1>4. <<c>> \in Seq(Reports(posted))
    <2>1. c \in Reports(posted)
      BY DEF Reports
    <2> HIDE DEF c
    <2> QED
      BY <2>1
  <1>5. one(from) \in Seq(Reports(posted)) /\ two(from) \in Seq(Reports(posted))
    <2>1. (IF timeline THEN from ELSE posted) \in Overlap
          /\ (IF inbox = "none" THEN posted ELSE from) \in Overlap
      BY DEF Overlap
    <2> QED
      BY <1>3, <2>1, EventsSince
  <1> HIDE DEF c, one, two
  <1>6. feed \o <<c>> \in Seq(Reports(posted))
    BY <1>3, <1>4, Joined
  <1>7. (feed \o <<c>>) \o one(from) \in Seq(Reports(posted))
    BY <1>5, <1>6, Joined
  <1>8. ((feed \o <<c>>) \o one(from)) \o two(from) \in Seq(Reports(posted))
    BY <1>5, <1>7, Joined
  <1>9. feed' \in Seq(Reports(posted'))
    BY <1>1, <1>2, <1>8
  <1>10. /\ posted' \in 0 .. MaxMessage /\ posted <= posted' /\ drops' \in Nat /\ faults' \in Nat
         /\ link' \in {"off", "up", "down"} /\ inbox' \in {"none", "kept", "ended"}
    BY <1>1, <1>3
  <1> QED
    BY <1>1, <1>9, <1>10, FeedKeeps

LEMMA EndsKeep ==
  ASSUME IInv, Drop \/ CloseInbox
  PROVE  IInv'
  <1>1. /\ posted \in 0 .. MaxMessage /\ posted \in Nat /\ feed \in Seq(Reports(posted))
        /\ drops \in Nat /\ faults \in Nat /\ inbox \in {"none", "kept", "ended"}
        /\ link \in {"off", "up", "down"}
    BY LogIsMessages DEF IInv, Typed
  <1>2. \A type \in {"Disconnected", "InboxClosed"} : [type |-> type] \in Reports(posted)
    BY DEF Reports
  <1>3. CASE Drop
    <2> DEFINE c == [type |-> "Disconnected"]
    <2>1. /\ link' = "down" /\ drops' = drops + 1 /\ feed' = Append(feed, c)
          /\ UNCHANGED <<inbox, posted, faults>> /\ FeedElse
      BY <1>3 DEF Drop
    <2>2. c \in Reports(posted)
      BY <1>2
    <2> HIDE DEF c
    <2>3. feed' \in Seq(Reports(posted'))
      BY <1>1, <2>1, <2>2, AtEnd
    <2>4. /\ posted' \in 0 .. MaxMessage /\ posted <= posted' /\ drops' \in Nat /\ faults' \in Nat
          /\ link' \in {"off", "up", "down"} /\ inbox' \in {"none", "kept", "ended"}
      BY <1>1, <2>1
    <2> QED
      BY <2>1, <2>3, <2>4, FeedKeeps
  <1>4. CASE CloseInbox
    <2> DEFINE c == [type |-> "InboxClosed"]
    <2>1. /\ inbox' = "ended" /\ faults' = faults + 1 /\ feed' = Append(feed, c)
          /\ UNCHANGED <<link, posted, drops>> /\ FeedElse
      BY <1>4 DEF CloseInbox, Fails
    <2>2. c \in Reports(posted)
      BY <1>2
    <2> HIDE DEF c
    <2>3. feed' \in Seq(Reports(posted'))
      BY <1>1, <2>1, <2>2, AtEnd
    <2>4. /\ posted' \in 0 .. MaxMessage /\ posted <= posted' /\ drops' \in Nat /\ faults' \in Nat
          /\ link' \in {"off", "up", "down"} /\ inbox' \in {"none", "kept", "ended"}
      BY <1>1, <2>1
    <2> QED
      BY <2>1, <2>3, <2>4, FeedKeeps
  <1> QED
    BY <1>3, <1>4

LEMMA ToldFurther ==
  ASSUME NEW q, NEW type, NEW S, NEW e \in Nat, NEW f \in Nat, e <= f,
         \A i \in DOMAIN q : q[i].type = type => q[i].at \in Nat,
         Told(q, type, S, e)
  PROVE  Told(q, type, S, f)
  BY ReachesFurther DEF Told

\* Another terminal reads further than the relay's marker: what was shown, or
\* read elsewhere, before still is.
LEMMA OtherTerminalKeeps ==
  ASSUME IInv, OtherTerminal
  PROVE  IInv'
  <1>1. PICK m \in 1 .. posted : At[m] > marker /\ marker' = At[m] /\ elsewhere' = At[m]
    BY DEF OtherTerminal
  <1>2. /\ others' = others + 1
        /\ UNCHANGED <<ui, commands, answers, feed, link, inbox, timeline, pending, posted,
                       shown, adopted, heads, drops, faults, moves, claims>>
    BY DEF OtherTerminal
  <1>3. Typed
    BY DEF IInv
  <1>4. /\ At[m] \in Second /\ At[m] \in Nat /\ Second \subseteq Nat
        /\ marker \in Nat /\ elsewhere \in Nat /\ elsewhere <= marker
    BY <1>3, LogIsMessages, SecondsAreNumbers DEF Typed
  <1>5. elsewhere' \in Nat /\ elsewhere <= elsewhere' /\ elsewhere' <= marker'
        /\ marker' <= elsewhere' /\ marker' \in Second /\ elsewhere' \in Second
    BY <1>1, <1>4
  <1>6. Typed'
    BY <1>2, <1>3, <1>5 DEF Typed
  <1>7. HistoriesGrow' /\ PendingAsks' /\ ListedFirst'
    BY <1>2 DEF IInv, HistoriesGrow, PendingAsks, ListedFirst
  <1>8. ASSUME ~adopted'
        PROVE  ClaimsAreHonest'
    <2>1. ClaimsAreHonest
      BY <1>2, <1>8 DEF IInv
    <2>2. ui.frontier \in Nat /\ (pending # NoRead => pending \in Nat)
      BY <1>3, <1>4 DEF Typed, WellFormed, Uis
    <2>3. \A c \in Outs : c.type = "ReadProgress" => c.at \in Nat
      BY <1>4 DEF Outs
    <2>4. \A a \in Answers(posted) : a.type = "ReadState" => a.at \in Nat
      BY <1>4, AnswerKinds
    <2>5. ui.out \in Seq(Outs) /\ commands \in Seq(Outs) /\ answers \in Seq(Answers(posted))
      BY <1>3 DEF Typed, WellFormed, Uis
    <2>6. /\ \A i \in DOMAIN ui.out : ui.out[i] \in Outs
          /\ \A i \in DOMAIN commands : commands[i] \in Outs
          /\ \A i \in DOMAIN answers : answers[i] \in Answers(posted)
      BY <2>5
    <2>7. /\ Told(ui.out, "ReadProgress", shown, elsewhere')
          /\ Told(commands, "ReadProgress", shown, elsewhere')
      BY <1>4, <1>5, <2>1, <2>3, <2>6, ToldFurther DEF ClaimsAreHonest, Honest
    <2>8. Told(answers, "ReadState", shown, elsewhere')
      BY <1>4, <1>5, <2>1, <2>4, <2>6, ToldFurther DEF ClaimsAreHonest
    <2>9. /\ ui.marked => Reaches(ui.frontier, shown, elsewhere')
          /\ pending # NoRead => Reaches(pending, shown, elsewhere')
      BY <1>4, <1>5, <2>1, <2>2, ReachesFurther DEF ClaimsAreHonest, Honest
    <2>10. Reaches(marker', shown, elsewhere')
      BY <1>5 DEF Reaches
    <2> QED
      BY <1>2, <2>7, <2>8, <2>9, <2>10 DEF ClaimsAreHonest, Honest
  <1> QED
    BY <1>6, <1>7, <1>8 DEF IInv
-----------------------------------------------------------------------------
(* The invariant holds at first, and every step keeps it.                  *)

LEMMA StandingStill ==
  ASSUME IInv, UNCHANGED vars
  PROVE  IInv'
  <1>1. UNCHANGED <<ui, commands, answers, inbox, timeline, pending, marker, feed, link, posted>>
        /\ UNCHANGED <<shown, adopted, heads, elsewhere, drops, faults, moves, claims, others>>
    BY DEF vars, pump, ghosts, rigid, counters
  <1>2. Typed'
    BY <1>1 DEF IInv, Typed
  <1>3. HistoriesGrow' /\ PendingAsks' /\ ListedFirst'
    BY <1>1 DEF IInv, HistoriesGrow, PendingAsks, ListedFirst
  <1>4. ~adopted' => ClaimsAreHonest'
    BY <1>1 DEF IInv, ClaimsAreHonest
  <1> QED
    BY <1>2, <1>3, <1>4 DEF IInv

LEMMA InitIInv == Init => IInv
  <1> SUFFICES ASSUME Init
               PROVE  IInv
    OBVIOUS
  <1>1. posted \in 0 .. 1 /\ MaxMessage \in Nat /\ MaxMessage > 0 /\ Second \subseteq Nat
        /\ 0 \in Second
    BY Seconds, SecondsAreNumbers, AtAssumption DEF Init
  <1>2. posted \in 0 .. MaxMessage /\ posted \in Nat
    BY <1>1
  <1>3. elsewhere \in Second
    <2>1. 1 .. posted \subseteq Message /\ elsewhere \in {0} \cup {At[m] : m \in 1 .. posted}
      BY <1>2, LogIsMessages DEF Init
    <2> QED
      BY <2>1 DEF Second
  <1>4. marker = elsewhere /\ marker \in Nat
    BY <1>1, <1>3 DEF Init
  <1>5. ui \in Uis(posted)
    <2>1. <<>> \in Seq(Outs) /\ 0 \in 0 .. posted
      BY <1>2
    <2> QED
      BY <1>1, <2>1 DEF Init, Uis
  <1>6. /\ ui.rows = {} /\ ui.live = {} /\ ui.focus = 0 /\ ui.saved = 0 /\ ui.out = <<>>
        /\ ~ui.listed /\ ~ui.selected /\ ~ui.marked /\ ui.coverage = "complete"
    BY DEF Init
  <1>7. WellFormed(ui, posted)
    <2>1. Cardinality(ui.rows) = 0
      BY <1>6, FS_EmptySet
    <2> QED
      BY <1>5, <1>6, <2>1 DEF WellFormed
  <1>8. Typed
    <2>1. /\ commands \in Seq(Outs) /\ answers \in Seq(Answers(posted))
          /\ feed \in Seq(Reports(posted))
      BY DEF Init
    <2>2. /\ link \in {"off", "up", "down"} /\ inbox \in {"none", "kept", "ended"}
          /\ timeline \in BOOLEAN /\ pending \in {NoRead} \cup Second
          /\ shown \in SUBSET Message /\ adopted \in BOOLEAN /\ heads \in BOOLEAN
      BY DEF Init
    <2>3. drops \in Nat /\ faults \in Nat /\ moves \in Nat /\ claims \in Nat /\ others \in Nat
      BY DEF Init
    <2>4. elsewhere <= marker /\ marker \in Second
      BY <1>3, <1>4
    <2> QED
      BY <1>2, <1>3, <1>6, <1>7, <2>1, <2>2, <2>3, <2>4 DEF Typed
  <1>9. commands = <<>> /\ answers = <<>> /\ pending = NoRead
    BY DEF Init
  <1>10. HistoriesGrow
    BY <1>9 DEF HistoriesGrow
  <1>11. PendingAsks
    BY <1>6 DEF PendingAsks, Pends
  <1>12. ListedFirst
    BY <1>6, <1>9 DEF ListedFirst, Orderly, Opened
  <1>13. ClaimsAreHonest
    BY <1>4, <1>6, <1>9 DEF ClaimsAreHonest, Honest, Told, Reaches
  <1> QED
    BY <1>8, <1>10, <1>11, <1>12, <1>13 DEF IInv

LEMMA StepKeeps == IInv /\ [Next]_vars => IInv'
  <1> SUFFICES ASSUME IInv, [Next]_vars
               PROVE  IInv'
    OBVIOUS
  <1>1. CASE HandleAnswer
    BY <1>1, HandleAnswerKeeps
  <1>2. CASE HandleFeed
    BY <1>2, HandleFeedKeeps
  <1>3. CASE OpenKey \/ LeaveKey \/ MoveKey \/ CoverKey \/ ReturnKey \/ Refresh
    BY <1>3, KeysKeep
  <1>4. CASE OtherClaim
    BY <1>4, OtherClaimKeeps
  <1>5. CASE CommandStep
    BY <1>5, LoadChannelsKeeps, LoadChannelsFailsKeeps, OpenChannelKeeps, CatchUpsKeep,
       ReadProgressKeeps, PublishReadKeeps DEF CommandStep
  <1>6. CASE FeedStep
    BY <1>6, PostKeeps, ConnectKeeps, EndsKeep, OtherTerminalKeeps DEF FeedStep
  <1>7. CASE UNCHANGED vars
    BY <1>7, StandingStill
  <1> QED
    BY <1>1, <1>2, <1>3, <1>4, <1>5, <1>6, <1>7 DEF Next, InterfaceStep
-----------------------------------------------------------------------------
(* The theorems.                                                           *)

\* The inductive invariant holds in every reachable state, whatever the log
\* and however many drops, faults, keys, claims and other terminals' markers.
THEOREM InboxStaysInOrder == Spec => []IInv
  BY InitIInv, StepKeeps, PTL DEF Spec

\* "Checking" is not shown for ever for nothing: in every reachable state the
\* read state is well formed, and a conversation whose coverage is pending waits
\* to ask, has asked, or has its answer on its way (request_catch_up,
\* apply_read_state and apply_catch_up in src/app.rs).
THEOREM PendingStaysOutstanding == Spec => []PendingIsOutstanding
  <1>1. IInv => PendingIsOutstanding
    <2> SUFFICES ASSUME IInv
                 PROVE  PendingIsOutstanding
      OBVIOUS
    <2>1. Typed
      BY DEF IInv
    <2>2. TypeOK
      BY <2>1 DEF Typed, WellFormed, Uis, TypeOK
    <2>3. /\ DOMAIN commands = 1 .. Len(commands) /\ DOMAIN answers = 1 .. Len(answers)
          /\ ui.out = <<>>
      BY <2>1 DEF Typed
    <2>4. ~Asked(ui.out)
      BY <2>3 DEF Asked
    <2>5. ui.coverage = "pending" => ui.waiting \/ Asked(commands) \/ Answered(answers)
      BY <2>4 DEF IInv, PendingAsks, Pends
    <2> QED
      BY <2>2, <2>3, <2>5 DEF PendingIsOutstanding, Asked, Answered
  <1> QED
    BY <1>1, InboxStaysInOrder, PTL

\* "The seed is never uploaded" (docs/tui-use.md), but for the one way it is: as
\* long as no marker answer has met a seed that reached further than it, the
\* relay's marker was read elsewhere, or reaches no further than what this
\* terminal showed with the cursor on the newest row (note_presented and
\* request_publish in src/app.rs).
THEOREM OnlyShownStaysUploaded == Spec => []OnlyShownIsUploaded
  <1>1. IInv => OnlyShownIsUploaded
    BY DEF IInv, ClaimsAreHonest, Reaches, OnlyShownIsUploaded
  <1> QED
    BY <1>1, InboxStaysInOrder, PTL
-----------------------------------------------------------------------------
(* Nothing is missed.  The part of the invariant that NothingMissed needs, *)
(* of a session none of whose queries failed.  Its parts are stated of a   *)
(* record u of the interface and of sets of messages: K, that are loaded,  *)
(* on their way in a history page or vouched for, and X, that are brought, *)
(* asked for or found on some way.                                         *)

Items(q) == {q[i] : i \in DOMAIN q}

\* Some record of a queue is of a type; asks what was missed, and asks it of n;
\* answers that, and names n in the answer; brings n live.
Has(q, type)  == \E c \in Items(q) : c.type = type
Asks(q)       == \E c \in Items(q) : c.type \in {"CatchUp", "Newest"}
Sought(q, n)  == \E c \in Items(q) : \/ c.type = "Newest"
                                     \/ c.type = "CatchUp" /\ c.since <= At[n]
Answering(q)  == \E c \in Items(q) : c.type \in {"CatchUp", "Seed"}
Found(q, n)   == \E c \in Items(q) : \/ c.type = "CatchUp" /\ n \in c.events
                                     \/ c.type = "Seed" /\ n <= c.latest
Brought(q, n) == \E c \in Items(q) : c.type \in {"InboxTimeline", "Timeline"} /\ c.id = n

\* A report after which n is not owed to the rows any more: the message itself, or
\* a new connection, which asks for a new page.  Ahead: a later message arrives
\* on the Timeline feed before anything tells n.
Tells(c, n)  == c.type = "Connected" \/ (c.type = "Timeline" /\ c.id = n)
Unsaid(q, n) == \A c \in Items(q) : ~Tells(c, n)
Ahead(q, n)  == \E i \in DOMAIN q : /\ q[i].type = "Timeline" /\ n <= q[i].id
                                    /\ \A j \in 1 .. i : ~Tells(q[j], n)

\* Every message older than a second is in a set; so for each such second a queue
\* names.
Below(at, K) == \A n \in Message : At[n] < at => n \in K
AllBelow(q, type, K) == \A c \in Items(q) : c.type = type => Below(c.at, K)

Fields == {"listed", "openedOnce", "selected", "cover", "origin", "markerRead",
           "markerComplete", "inboxFailed", "historyFailed", "waiting", "coverage", "known",
           "frontier", "marked", "presented", "unread", "loading", "rows", "live",
           "focus", "saved", "fallback", "out"}

\* A row, the frontier, a presented message and a claim speak only for messages of
\* K, and every other message is counted, of X, or asked for.
Accounts(u, p, K, X) ==
    /\ DOMAIN u = Fields /\ u.out \in Seq(Outs)
    /\ u.rows \in SUBSET (1 .. p) /\ u.live \subseteq u.rows /\ u.frontier \in Second
    /\ \A r \in u.rows : 1 .. r \subseteq K
    /\ Below(u.frontier, K) /\ u.presented \subseteq K
    /\ AllBelow(u.out, "ReadProgress", K)
    /\ u.listed => \A n \in (1 .. p) \ Mine :
                     n \in u.unread \cup K \cup X \/ u.waiting \/ Sought(u.out, n)

\* The interface has heard of no failure.  A conversation that waits to ask will
\* have an answer that lets it (ready), and one that does not say it is complete
\* waits, has asked, or is about to be renewed or answered (later).
Words(u, ready, later) ==
    /\ ~u.inboxFailed /\ ~u.historyFailed /\ u.coverage # "unknown"
    /\ u.markerRead => u.markerComplete
    /\ Asks(u.out) => u.markerRead
    /\ u.listed => u.openedOnce
    /\ u.selected => u.listed
    /\ u.waiting => u.listed /\ (ready \/ Has(u.out, "LoadChannels"))
    /\ u.listed => \/ u.coverage = "complete" /\ u.known
                   \/ u.waiting \/ Asks(u.out) \/ later

Sure(u, p, K, X, ready, later) == Accounts(u, p, K, X) /\ Words(u, ready, later)

\* What a handler keeps: rows stay, and selecting the conversation opens it.
Extends(v, u) ==
    /\ u.rows \subseteq v.rows /\ Items(u.out) \subseteq Items(v.out)
    /\ v.selected => u.selected \/ Has(v.out, "OpenChannel")
    /\ u.markerRead => v.markerRead
    /\ v.listed => u.listed

LEMMA ItemsGrow ==
  ASSUME NEW S, NEW q \in Seq(S), NEW x
  PROVE  Items(Append(q, x)) = Items(q) \cup {x}
  <1>1. \A c \in Items(q) : c \in Items(Append(q, x))
    BY AtEnd DEF Items
  <1>2. x \in Items(Append(q, x))
    BY AtEnd DEF Items
  <1>3. \A c \in Items(Append(q, x)) : c \in Items(q) \/ c = x
    BY AtEnd DEF Items
  <1> QED
    BY <1>1, <1>2, <1>3

LEMMA ItemsJoin ==
  ASSUME NEW S, NEW q \in Seq(S), NEW r \in Seq(S)
  PROVE  Items(q \o r) = Items(q) \cup Items(r)
  <1>1. \A i \in DOMAIN q : i \in DOMAIN (q \o r) /\ (q \o r)[i] = q[i]
    BY Joined
  <1>2. \A i \in DOMAIN r : Len(q) + i \in DOMAIN (q \o r) /\ (q \o r)[Len(q) + i] = r[i]
    BY Joined
  <1>3. \A i \in DOMAIN (q \o r) :
          \/ i \in DOMAIN q
          \/ i - Len(q) \in DOMAIN r /\ (q \o r)[i] = r[i - Len(q)]
    BY Joined
  <1>4. Items(q) \subseteq Items(q \o r)
    BY <1>1 DEF Items
  <1>5. Items(r) \subseteq Items(q \o r)
    BY <1>2 DEF Items
  <1>6. Items(q \o r) \subseteq Items(q) \cup Items(r)
    BY <1>1, <1>3 DEF Items
  <1> QED
    BY <1>4, <1>5, <1>6

LEMMA ItemsTaken ==
  ASSUME NEW S, NEW q \in Seq(S), q # <<>>
  PROVE  Items(q) = {Head(q)} \cup Items(Tail(q))
  <1>1. 1 \in DOMAIN q /\ q[1] = Head(q)
    BY Taken
  <1>2. \A i \in DOMAIN Tail(q) : i + 1 \in DOMAIN q /\ Tail(q)[i] = q[i + 1]
    BY Taken
  <1>3. \A i \in DOMAIN q : i = 1 \/ (i - 1 \in DOMAIN Tail(q) /\ Tail(q)[i - 1] = q[i])
    BY Taken
  <1>4. Head(q) \in Items(q)
    BY <1>1 DEF Items
  <1>5. Items(Tail(q)) \subseteq Items(q)
    BY <1>2 DEF Items
  <1>6. Items(q) \subseteq {Head(q)} \cup Items(Tail(q))
    BY <1>1, <1>3 DEF Items
  <1> QED
    BY <1>4, <1>5, <1>6

LEMMA ItemsAre ==
  ASSUME NEW S, NEW q \in Seq(S)
  PROVE  Items(q) \subseteq S
  BY DEF Items

LEMMA NoItems ==
  Items(<<>>) = {}
  BY DEF Items

LEMMA OneItem ==
  ASSUME NEW c
  PROVE  Items(<<c>>) = {c}
  BY DEF Items

LEMMA BelowMore ==
  ASSUME NEW at, NEW K, NEW L, K \subseteq L, Below(at, K)
  PROVE  Below(at, L)
  BY DEF Below

LEMMA BelowLess ==
  ASSUME NEW at \in Nat, NEW to \in Nat, to <= at, NEW K, Below(at, K)
  PROVE  Below(to, K)
  BY Seconds DEF Below

LEMMA BelowNone ==
  ASSUME NEW K
  PROVE  Below(0, K)
  BY Seconds DEF Below

\* A row speaks for all before it.
LEMMA BelowRow ==
  ASSUME NEW r \in Message, NEW K, 1 .. r \subseteq K
  PROVE  Below(At[r], K)
  <1> SUFFICES ASSUME NEW n \in Message, At[n] < At[r]
               PROVE  n \in K
    BY DEF Below
  <1>1. n \in Nat /\ r \in Nat /\ n >= 1 /\ At[n] \in Nat /\ At[r] \in Nat
    BY Seconds DEF Message
  <1>2. ~(r <= n)
    BY <1>1, Seconds
  <1>3. n \in 1 .. r
    BY <1>1, <1>2
  <1> QED
    BY <1>3

LEMMA AheadJoins ==
  ASSUME NEW S, NEW q \in Seq(S), NEW r \in Seq(S), NEW n, Ahead(q \o r, n)
  PROVE  Ahead(q, n) \/ (Unsaid(q, n) /\ Ahead(r, n))
  <1>1. PICK i \in DOMAIN (q \o r) : /\ (q \o r)[i].type = "Timeline" /\ n <= (q \o r)[i].id
                                     /\ \A j \in 1 .. i : ~Tells((q \o r)[j], n)
    BY DEF Ahead
  <1>2. DOMAIN q = 1 .. Len(q) /\ Len(q) \in Nat /\ DOMAIN r = 1 .. Len(r) /\ Len(r) \in Nat
    OBVIOUS
  <1>3. \A j \in DOMAIN q : (q \o r)[j] = q[j]
    BY Joined
  <1>4. \A j \in DOMAIN r : (q \o r)[Len(q) + j] = r[j]
    BY Joined
  <1>5. i \in 1 .. Len(q) + Len(r)
    OBVIOUS
  <1>6. CASE i <= Len(q)
    <2>1. i \in DOMAIN q /\ \A j \in 1 .. i : j \in DOMAIN q
      BY <1>2, <1>5, <1>6
    <2> QED
      BY <1>1, <1>3, <2>1 DEF Ahead
  <1>7. CASE ~(i <= Len(q))
    <2>1. i - Len(q) \in DOMAIN r /\ Len(q) + (i - Len(q)) = i
      BY <1>2, <1>5, <1>7
    <2>2. \A j \in 1 .. i - Len(q) : j \in DOMAIN r /\ Len(q) + j \in 1 .. i
      BY <1>2, <1>5, <1>7
    <2>3. \A j \in DOMAIN q : j \in 1 .. i
      BY <1>2, <1>5, <1>7
    <2>4. Unsaid(q, n)
      BY <1>1, <1>3, <2>3 DEF Unsaid, Items
    <2>5. \A j \in 1 .. i - Len(q) : ~Tells(r[j], n)
      BY <1>1, <1>4, <2>2
    <2>6. r[i - Len(q)].type = "Timeline" /\ n <= r[i - Len(q)].id
      BY <1>1, <1>4, <2>1
    <2>7. Ahead(r, n)
      BY <2>1, <2>5, <2>6 DEF Ahead
    <2> QED
      BY <2>4, <2>7
  <1> QED
    BY <1>6, <1>7

LEMMA AheadTaken ==
  ASSUME NEW S, NEW q \in Seq(S), q # <<>>, NEW n, Ahead(Tail(q), n)
  PROVE  Ahead(q, n) \/ Tells(Head(q), n)
  <1>1. PICK i \in DOMAIN Tail(q) : /\ Tail(q)[i].type = "Timeline" /\ n <= Tail(q)[i].id
                                    /\ \A j \in 1 .. i : ~Tells(Tail(q)[j], n)
    BY DEF Ahead
  <1>2. i \in Nat \ {0} /\ i + 1 \in DOMAIN q /\ Tail(q)[i] = q[i + 1]
    BY Taken
  <1>3. q[1] = Head(q)
    BY Taken
  <1>4. \A j \in DOMAIN q : j = 1 \/ (j - 1 \in DOMAIN Tail(q) /\ Tail(q)[j - 1] = q[j])
    BY Taken
  <1>5. DOMAIN q = 1 .. Len(q) /\ Len(q) \in Nat
    OBVIOUS
  <1>6. \A j \in 1 .. i + 1 : j \in DOMAIN q /\ (j = 1 \/ j - 1 \in 1 .. i)
    BY <1>2, <1>5
  <1>7. ASSUME ~Tells(Head(q), n)
        PROVE  \A j \in 1 .. i + 1 : ~Tells(q[j], n)
    <2> SUFFICES ASSUME NEW j \in 1 .. i + 1
                 PROVE  ~Tells(q[j], n)
      OBVIOUS
    <2>1. CASE j = 1
      BY <1>3, <1>7, <2>1
    <2>2. CASE j # 1
      BY <1>1, <1>4, <1>6, <2>2
    <2> QED
      BY <2>1, <2>2
  <1> QED
    BY <1>1, <1>2, <1>7 DEF Ahead

LEMMA AheadFirst ==
  ASSUME NEW S, NEW q \in Seq(S), q # <<>>, Head(q).type = "Timeline",
         NEW n, n <= Head(q).id, n # Head(q).id
  PROVE  Ahead(q, n)
  <1>1. 1 \in DOMAIN q /\ q[1] = Head(q)
    BY Taken
  <1>2. ~Tells(Head(q), n)
    BY DEF Tells
  <1>3. \A j \in 1 .. 1 : j = 1
    OBVIOUS
  <1> QED
    BY <1>1, <1>2, <1>3 DEF Ahead

LEMMA AccountsMore ==
  ASSUME NEW u, NEW p, NEW K, NEW L, NEW X, NEW Y, K \subseteq L,
         \A n \in (1 .. p) \ Mine : n \in X => n \in L \cup Y, Accounts(u, p, K, X)
  PROVE  Accounts(u, p, L, Y)
  <1>1. Below(u.frontier, L)
    BY BelowMore DEF Accounts
  <1>2. AllBelow(u.out, "ReadProgress", L)
    BY BelowMore DEF Accounts, AllBelow
  <1>3. \A r \in u.rows : 1 .. r \subseteq L
    BY Zenon DEF Accounts
  <1>4. u.listed => \A n \in (1 .. p) \ Mine :
                      n \in u.unread \cup L \cup Y \/ u.waiting \/ Sought(u.out, n)
    BY DEF Accounts
  <1> QED
    BY <1>1, <1>2, <1>3, <1>4 DEF Accounts

LEMMA ExtendsBoth ==
  ASSUME NEW u, NEW v, NEW w, Extends(v, u), Extends(w, v)
  PROVE  Extends(w, u)
  BY DEF Extends, Has

LEMMA ExtendsSelf ==
  ASSUME NEW u
  PROVE  Extends(u, u)
  BY DEF Extends

\* The work of a conversation: all but what is on screen of it, and where.
SameWork(v, u) ==
    /\ DOMAIN v = Fields /\ v.rows = u.rows /\ v.live = u.live
    /\ v.frontier = u.frontier /\ v.presented = u.presented /\ v.unread = u.unread
    /\ v.out = u.out /\ v.listed = u.listed /\ v.openedOnce = u.openedOnce
    /\ v.markerRead = u.markerRead /\ v.markerComplete = u.markerComplete
    /\ v.inboxFailed = u.inboxFailed /\ v.historyFailed = u.historyFailed
    /\ v.waiting = u.waiting /\ v.coverage = u.coverage /\ v.known = u.known

LEMMA SureView ==
  ASSUME NEW u, NEW v, NEW p, NEW K, NEW X, NEW ready, NEW later,
         Sure(u, p, K, X, ready, later), SameWork(v, u), v.selected => u.listed
  PROVE  Sure(v, p, K, X, ready, later)
  <1>1. Accounts(v, p, K, X)
    BY DEF Sure, Accounts, SameWork
  <1>2. Words(v, ready, later)
    BY DEF Sure, Words, SameWork
  <1> QED
    BY <1>1, <1>2 DEF Sure

LEMMA SurePush ==
  ASSUME NEW u, NEW p, NEW K, NEW X, NEW ready, NEW later,
         Sure(u, p, K, X, ready, later), NEW c \in Outs,
         c.type = "ReadProgress" => Below(c.at, K),
         c.type \in {"CatchUp", "Newest"} => u.markerRead,
         NEW v, v = Push(u, c)
  PROVE  /\ Sure(v, p, K, X, ready, later) /\ Extends(v, u)
         /\ Has(v.out, c.type) /\ v.selected = u.selected /\ v.listed = u.listed
  <1>1. DOMAIN u = Fields /\ u.out \in Seq(Outs)
    BY DEF Sure, Accounts
  <1>2. v = [u EXCEPT !.out = Append(u.out, c)]
    BY <1>1 DEF Push, Fields
  <1>3. v.out = Append(u.out, c) /\ v.out \in Seq(Outs)
    BY <1>1, <1>2 DEF Fields
  <1>4. Items(v.out) = Items(u.out) \cup {c}
    BY <1>1, <1>3, ItemsGrow
  <1>5. /\ DOMAIN v = Fields /\ v.rows = u.rows /\ v.live = u.live
        /\ v.frontier = u.frontier /\ v.presented = u.presented /\ v.unread = u.unread
        /\ v.listed = u.listed /\ v.openedOnce = u.openedOnce /\ v.selected = u.selected
        /\ v.markerRead = u.markerRead /\ v.markerComplete = u.markerComplete
        /\ v.inboxFailed = u.inboxFailed /\ v.historyFailed = u.historyFailed
        /\ v.waiting = u.waiting /\ v.coverage = u.coverage /\ v.known = u.known
    BY <1>1, <1>2 DEF Fields
  <1>6. Accounts(v, p, K, X)
    <2>1. AllBelow(v.out, "ReadProgress", K)
      BY <1>4 DEF Sure, Accounts, AllBelow
    <2>2. \A n : Sought(u.out, n) => Sought(v.out, n)
      BY <1>4 DEF Sought
    <2> QED
      BY <1>3, <1>5, <2>1, <2>2 DEF Sure, Accounts
  <1>7. Words(v, ready, later)
    <2>1. Asks(v.out) => u.markerRead
      BY <1>4 DEF Sure, Words, Asks
    <2>2. Asks(u.out) => Asks(v.out)
      BY <1>4 DEF Asks
    <2>3. Has(u.out, "LoadChannels") => Has(v.out, "LoadChannels")
      BY <1>4 DEF Has
    <2> QED
      BY <1>5, <2>1, <2>2, <2>3 DEF Sure, Words
  <1>8. Extends(v, u)
    BY <1>4, <1>5 DEF Extends
  <1> QED
    BY <1>4, <1>5, <1>6, <1>7, <1>8 DEF Sure, Has

\* note_presented: what it takes off the unread work is older than a row or than
\* the frontier was, or a row itself.
LEMMA SurePresents ==
  ASSUME NEW u, NEW p \in 0 .. MaxMessage, NEW K, NEW X, NEW ready, NEW later,
         Sure(u, p, K, X, ready, later), NEW v, v = NotePresented(u)
  PROVE  /\ Sure(v, p, K, X, ready, later) /\ Extends(v, u)
         /\ v.selected = u.selected /\ v.listed = u.listed
  <1> DEFINE latest == LatestOf(u.rows)
             moved  == ClaimedFrontier(u, latest)
             kept   == IF latest > u.frontier THEN {} ELSE u.presented
             now    == [u EXCEPT !.frontier = moved, !.presented = kept, !.marked = TRUE]
             newest == {m \in u.rows : At[m] = latest /\ UnreadAt(now, m)}
             claim  == [now EXCEPT !.presented = kept \cup newest]
             left   == [claim EXCEPT !.unread = {m \in @ : UnreadAt(claim, m)}]
  <1>1. CASE v = u
    BY <1>1, ExtendsSelf
  <1>2. CASE v # u
    <2>1. MayClaim(u) /\ v = RequestPublish(left)
      BY <1>2 DEF NotePresented
    <2>2. u.rows # {} /\ u.rows \in SUBSET (1 .. p) /\ DOMAIN u = Fields
      BY <2>1 DEF MayClaim, Sure, Accounts
    <2>3. latest \in Second /\ u.frontier \in Second /\ Second \subseteq Nat
      BY <2>2, LatestIsShared, SecondsAreNumbers DEF Sure, Accounts
    <2>4. Below(latest, K)
      <3>1. PICK r \in u.rows : At[r] = latest
        BY <2>2, LatestIsShared
      <3>2. r \in Message /\ 1 .. r \subseteq K
        BY <2>2, LogIsMessages DEF Sure, Accounts
      <3> QED
        BY <3>1, <3>2, BelowRow
    <2>5. u.rows \subseteq K
      <3>1. \A r \in u.rows : r \in 1 .. r
        BY <2>2
      <3> QED
        BY <3>1 DEF Sure, Accounts
    <2> HIDE DEF latest
    <2>6. moved \in Second /\ (moved = latest \/ moved = u.frontier)
      BY <2>3 DEF ClaimedFrontier, Earlier
    <2>7. Below(moved, K)
      BY <2>4, <2>6 DEF Sure, Accounts
    <2> HIDE DEF moved
    <2>8. kept \subseteq K
      BY DEF Sure, Accounts
    <2> HIDE DEF kept
    <2>9. newest \subseteq K
      BY <2>5
    <2>10. /\ now.frontier = moved /\ now.presented = kept /\ now.out = u.out
           /\ now.unread = u.unread /\ DOMAIN now = Fields
      BY <2>2 DEF Fields
    <2>11. /\ now.rows = u.rows /\ now.live = u.live /\ now.selected = u.selected
           /\ now.listed = u.listed /\ now.openedOnce = u.openedOnce
           /\ now.markerRead = u.markerRead /\ now.markerComplete = u.markerComplete
           /\ now.inboxFailed = u.inboxFailed /\ now.historyFailed = u.historyFailed
           /\ now.waiting = u.waiting /\ now.coverage = u.coverage /\ now.known = u.known
      BY <2>2 DEF Fields
    <2> HIDE DEF now, newest
    <2>12. /\ claim.frontier = moved /\ claim.presented = kept \cup newest
           /\ claim.out = u.out /\ claim.unread = u.unread /\ DOMAIN claim = Fields
           /\ claim.marked = now.marked
      BY <2>10 DEF Fields
    <2>13. /\ claim.rows = u.rows /\ claim.live = u.live /\ claim.selected = u.selected
           /\ claim.listed = u.listed /\ claim.openedOnce = u.openedOnce
           /\ claim.markerRead = u.markerRead /\ claim.markerComplete = u.markerComplete
           /\ claim.inboxFailed = u.inboxFailed /\ claim.historyFailed = u.historyFailed
           /\ claim.waiting = u.waiting /\ claim.coverage = u.coverage /\ claim.known = u.known
      BY <2>10, <2>11 DEF Fields
    <2> HIDE DEF claim
    <2>14. /\ left.frontier = moved /\ left.presented = kept \cup newest
           /\ left.out = u.out /\ DOMAIN left = Fields
           /\ left.unread = {m \in u.unread : UnreadAt(claim, m)}
      BY <2>12 DEF Fields
    <2>15. /\ left.rows = u.rows /\ left.live = u.live /\ left.selected = u.selected
           /\ left.listed = u.listed /\ left.openedOnce = u.openedOnce
           /\ left.markerRead = u.markerRead /\ left.markerComplete = u.markerComplete
           /\ left.inboxFailed = u.inboxFailed /\ left.historyFailed = u.historyFailed
           /\ left.waiting = u.waiting /\ left.coverage = u.coverage /\ left.known = u.known
      BY <2>12, <2>13 DEF Fields
    <2> HIDE DEF left
    <2>16. ASSUME NEW m \in (1 .. p) \ Mine, m \in u.unread
           PROVE  m \in left.unread \cup K
      <3>1. m \in Message /\ At[m] \in Nat /\ moved \in Nat
        BY <2>3, <2>6, LogIsMessages, Seconds
      <3>2. CASE UnreadAt(claim, m)
        BY <2>14, <2>16, <3>2
      <3>3. CASE At[m] < moved
        BY <2>7, <3>1, <3>3 DEF Below
      <3>4. CASE m \in kept \cup newest
        BY <2>8, <2>9, <3>4
      <3> QED
        BY <2>12, <3>1, <3>2, <3>3, <3>4 DEF UnreadAt
    <2>17. Accounts(left, p, K, X)
      <3>1. left.listed => \A n \in (1 .. p) \ Mine :
              n \in left.unread \cup K \cup X \/ left.waiting \/ Sought(left.out, n)
        BY <2>14, <2>15, <2>16 DEF Sure, Accounts
      <3>2. left.presented \subseteq K
        BY <2>8, <2>9, <2>14
      <3> QED
        BY <2>6, <2>7, <2>14, <2>15, <3>1, <3>2 DEF Sure, Accounts
    <2>18. Words(left, ready, later)
      BY <2>14, <2>15 DEF Sure, Words
    <2>19. Sure(left, p, K, X, ready, later) /\ Extends(left, u)
      BY <2>14, <2>15, <2>17, <2>18 DEF Sure, Extends
    <2> DEFINE c == [type |-> "ReadProgress", at |-> IF left.marked THEN left.frontier ELSE 0]
    <2>20. v = Push(left, c)
      BY <2>1 DEF RequestPublish
    <2>21. c \in Outs /\ Below(c.at, K) /\ c.type \notin {"CatchUp", "Newest"}
      BY <2>6, <2>7, <2>14, BelowNone, SecondsAreNumbers DEF Outs
    <2> HIDE DEF c
    <2>22. Sure(v, p, K, X, ready, later) /\ Extends(v, left) /\ v.selected = left.selected
           /\ v.listed = left.listed
      BY <2>19, <2>20, <2>21, SurePush
    <2> QED
      BY <2>15, <2>19, <2>22, ExtendsBoth
  <1> QED
    BY <1>1, <1>2

LEMMA SureFocus ==
  ASSUME NEW u, NEW p \in 0 .. MaxMessage, NEW K, NEW X, NEW ready, NEW later,
         Sure(u, p, K, X, ready, later), NEW i, NEW v, v = SetFocus(u, i)
  PROVE  /\ Sure(v, p, K, X, ready, later) /\ Extends(v, u)
         /\ v.selected = u.selected /\ v.listed = u.listed
  <1>1. CASE v = u
    BY <1>1, ExtendsSelf
  <1>2. CASE v # u
    <2> DEFINE to == IF u.rows = {} THEN 0 ELSE Earlier(Cardinality(u.rows) - 1, i)
               at == [u EXCEPT !.focus = to, !.fallback = FALSE]
    <2>1. v = NotePresented(at)
      BY <1>2 DEF SetFocus
    <2>2. DOMAIN u = Fields
      BY DEF Sure, Accounts
    <2> HIDE DEF to
    <2>3. SameWork(at, u) /\ at.selected = u.selected
      BY <2>2 DEF SameWork, Fields
    <2> HIDE DEF at
    <2>4. Sure(at, p, K, X, ready, later) /\ Extends(at, u)
      BY <2>3, SureView DEF Sure, Words, Extends, SameWork
    <2>5. Sure(v, p, K, X, ready, later) /\ Extends(v, at) /\ v.selected = at.selected
          /\ v.listed = at.listed
      BY <2>1, <2>4, SurePresents
    <2> QED
      BY <2>3, <2>4, <2>5, ExtendsBoth DEF SameWork
  <1> QED
    BY <1>1, <1>2

LEMMA SureRestores ==
  ASSUME NEW u, NEW p \in 0 .. MaxMessage, NEW K, NEW X, NEW ready, NEW later,
         Sure(u, p, K, X, ready, later), NEW v, v = RestorePosition(u)
  PROVE  /\ Sure(v, p, K, X, ready, later) /\ Extends(v, u)
         /\ v.selected = u.selected /\ v.listed = u.listed
  <1> DEFINE free == [u EXCEPT !.saved = 0]
             set == SetFocus(free, Newest)
  <1>1. DOMAIN u = Fields
    BY DEF Sure, Accounts
  <1>2. SameWork(free, u) /\ free.selected = u.selected
    BY <1>1 DEF SameWork, Fields
  <1>3. v = SetFocus(free, Position(u.rows, u.saved)) \/ v = [set EXCEPT !.fallback = TRUE]
    BY DEF RestorePosition
  <1> HIDE DEF free
  <1>4. Sure(free, p, K, X, ready, later) /\ Extends(free, u)
    BY <1>2, SureView DEF Sure, Words, Extends, SameWork
  <1>5. CASE v = SetFocus(free, Position(u.rows, u.saved))
    <2>1. Sure(v, p, K, X, ready, later) /\ Extends(v, free) /\ v.selected = free.selected
          /\ v.listed = free.listed
      BY <1>4, <1>5, SureFocus
    <2> QED
      BY <1>2, <1>4, <2>1, ExtendsBoth DEF SameWork
  <1>6. CASE v = [set EXCEPT !.fallback = TRUE]
    <2>1. Sure(set, p, K, X, ready, later) /\ Extends(set, free) /\ set.selected = free.selected
          /\ set.listed = free.listed
      BY <1>4, SureFocus
    <2> HIDE DEF set
    <2>2. DOMAIN set = Fields
      BY <2>1 DEF Sure, Accounts
    <2>3. SameWork(v, set) /\ v.selected = set.selected
      BY <1>6, <2>2 DEF SameWork, Fields
    <2>4. Sure(v, p, K, X, ready, later) /\ Extends(v, set)
      BY <2>1, <2>3, SureView DEF Sure, Words, Extends, SameWork
    <2> QED
      BY <1>2, <1>4, <2>1, <2>3, <2>4, ExtendsBoth DEF SameWork
  <1> QED
    BY <1>3, <1>5, <1>6

\* request_catch_up: the question names every message the frontier does not speak
\* for.
LEMMA SureAsks ==
  ASSUME NEW u, NEW p \in 0 .. MaxMessage, NEW K, NEW X, NEW ready, NEW later,
         Sure(u, p, K, X, ready, later), u.markerRead, NEW v, v = RequestCatchUp(u)
  PROVE  /\ Sure(v, p, K, X, ready, later) /\ Extends(v, u) /\ ~v.waiting
         /\ v.selected = u.selected /\ v.listed = u.listed
  <1> DEFINE quiet == [u EXCEPT !.waiting = FALSE]
             c == IF u.known THEN [type |-> "CatchUp", since |-> u.frontier]
                             ELSE [type |-> "Newest"]
  <1>1. DOMAIN u = Fields /\ u.frontier \in Second /\ u.coverage # "unknown"
    BY DEF Sure, Accounts, Words
  <1>2. CASE ~u.waiting
    <2>1. v = u
      BY <1>2 DEF RequestCatchUp
    <2> QED
      BY <1>2, <2>1, ExtendsSelf
  <1>3. CASE u.waiting
    <2>1. v = [quiet EXCEPT !.out = Append(@, c)]
      BY <1>1, <1>3 DEF RequestCatchUp, Push
    <2>2. c \in Outs /\ c.type \in {"CatchUp", "Newest"}
      BY <1>1 DEF Outs
    <2>3. \A n \in Message : At[n] >= u.frontier => c.type = "Newest" \/ (c.type = "CatchUp" /\ c.since <= At[n])
      BY <1>1, Seconds, SecondsAreNumbers
    <2>4. u.out \in Seq(Outs)
      BY DEF Sure, Accounts
    <2> HIDE DEF c
    <2>5. v.out = Append(u.out, c) /\ v.out \in Seq(Outs) /\ DOMAIN v = Fields /\ v.waiting = FALSE
      BY <1>1, <2>1, <2>2, <2>4 DEF Fields
    <2>6. /\ v.rows = u.rows /\ v.live = u.live /\ v.selected = u.selected
          /\ v.frontier = u.frontier /\ v.presented = u.presented /\ v.unread = u.unread
          /\ v.listed = u.listed /\ v.openedOnce = u.openedOnce
          /\ v.markerRead = u.markerRead /\ v.markerComplete = u.markerComplete
          /\ v.inboxFailed = u.inboxFailed /\ v.historyFailed = u.historyFailed
          /\ v.coverage = u.coverage /\ v.known = u.known
      BY <1>1, <2>1 DEF Fields
    <2>7. Items(v.out) = Items(u.out) \cup {c}
      BY <2>4, <2>5, ItemsGrow
    <2>8. ASSUME NEW n \in (1 .. p) \ Mine
          PROVE  n \in K \/ Sought(v.out, n)
      <3>1. n \in Message /\ At[n] \in Nat /\ u.frontier \in Nat
        BY <1>1, LogIsMessages, Seconds, SecondsAreNumbers
      <3>2. CASE At[n] < u.frontier
        BY <3>1, <3>2 DEF Sure, Accounts, Below
      <3>3. CASE At[n] >= u.frontier
        BY <2>3, <2>7, <3>1, <3>3 DEF Sought
      <3> QED
        BY <3>1, <3>2, <3>3
    <2>9. AllBelow(v.out, "ReadProgress", K)
      BY <2>2, <2>7 DEF Sure, Accounts, AllBelow
    <2>10. Accounts(v, p, K, X)
      BY <2>5, <2>6, <2>8, <2>9 DEF Sure, Accounts
    <2>11. Asks(v.out)
      BY <2>2, <2>7 DEF Asks
    <2>12. Words(v, ready, later)
      BY <2>5, <2>6, <2>11 DEF Sure, Words
    <2>13. Extends(v, u)
      BY <2>6, <2>7 DEF Extends
    <2> QED
      BY <2>5, <2>6, <2>10, <2>12, <2>13 DEF Sure
  <1> QED
    BY <1>2, <1>3
-----------------------------------------------------------------------------
(* Each handler of an event.                                               *)

\* What was owed and is not owed any more was brought (M), or is spoken for.
Leaves(p, X, M, K, Y) == \A n \in (1 .. p) \ Mine : n \in X => n \in M \cup K \cup Y

\* What is counted is owed no more: it is unread, loaded, or spoken for.
LEMMA SureCounts ==
  ASSUME NEW u, NEW p \in 0 .. MaxMessage, NEW K, NEW X, NEW Y, NEW ready, NEW later,
         Sure(u, p, K, X, ready, later), NEW M,
         Leaves(p, X, M, K, Y),
         NEW v, v = Count(u, M)
  PROVE  /\ Sure(v, p, K, Y, ready, later) /\ Extends(v, u)
         /\ v.selected = u.selected /\ v.listed = u.listed /\ v.rows = u.rows /\ v.live = u.live
  <1>1. DOMAIN u = Fields /\ u.rows \in SUBSET (1 .. p) /\ u.frontier \in Second
    BY DEF Sure, Accounts
  <1> DEFINE more == u.unread \cup Candidates(u, M)
  <1>2. v = [u EXCEPT !.unread = more]
    BY <1>1 DEF Count, Fields
  <1>3. ASSUME NEW n \in (1 .. p) \ Mine, n \in M
        PROVE  n \in more \cup K
    <2>1. n \in Message /\ At[n] \in Nat /\ u.frontier \in Nat
      BY <1>1, LogIsMessages, Seconds, SecondsAreNumbers
    <2>2. CASE n \in Candidates(u, M)
      BY <2>2
    <2>3. CASE n \in u.rows
      <3>1. n \in 1 .. n
        BY <1>3
      <3> QED
        BY <2>3, <3>1 DEF Sure, Accounts
    <2>4. CASE n \in u.presented
      BY <2>4 DEF Sure, Accounts
    <2>5. CASE At[n] < u.frontier
      BY <2>1, <2>5 DEF Sure, Accounts, Below
    <2>6. At[n] >= u.frontier \/ At[n] < u.frontier
      BY <2>1
    <2> QED
      BY <1>3, <2>2, <2>3, <2>4, <2>5, <2>6 DEF Candidates, UnreadAt
  <1>4. u.unread \subseteq more
    OBVIOUS
  <1> HIDE DEF more
  <1>5. /\ v.unread = more /\ DOMAIN v = Fields /\ v.rows = u.rows /\ v.live = u.live
        /\ v.frontier = u.frontier /\ v.presented = u.presented
        /\ v.out = u.out /\ v.listed = u.listed /\ v.openedOnce = u.openedOnce
        /\ v.markerRead = u.markerRead /\ v.markerComplete = u.markerComplete
        /\ v.inboxFailed = u.inboxFailed /\ v.historyFailed = u.historyFailed
        /\ v.waiting = u.waiting /\ v.coverage = u.coverage /\ v.known = u.known
        /\ v.selected = u.selected
    BY <1>1, <1>2 DEF Fields
  <1>6. v.listed => \A n \in (1 .. p) \ Mine :
                      n \in v.unread \cup K \cup Y \/ v.waiting \/ Sought(v.out, n)
    BY <1>3, <1>4, <1>5 DEF Sure, Accounts, Leaves
  <1>7. Accounts(v, p, K, Y)
    BY <1>5, <1>6 DEF Sure, Accounts
  <1>8. Words(v, ready, later)
    BY <1>5 DEF Sure, Words
  <1> QED
    BY <1>5, <1>7, <1>8 DEF Sure, Extends

\* A reconnect asks everything again.
LEMMA SureConnected ==
  ASSUME NEW u, NEW p \in 0 .. MaxMessage, NEW K, NEW X, NEW Y, NEW ready, NEW later, NEW after,
         Sure(u, p, K, X, ready, later), NEW v, v = ApplyConnected(u)
  PROVE  /\ Sure(v, p, K, Y, ready, after) /\ Extends(v, u)
         /\ v.selected => Has(v.out, "OpenChannel")
  <1> DEFINE cured == [u EXCEPT !.inboxFailed = FALSE]
             ask == [cured EXCEPT !.waiting = u.listed]
             one == [type |-> "LoadChannels"]
             two == [type |-> "OpenChannel"]
             asked == Push(ask, one)
  <1>1. DOMAIN u = Fields /\ u.out \in Seq(Outs)
    BY DEF Sure, Accounts
  <1>2. /\ ~u.openedOnce => v = Push(cured, one)
        /\ u.openedOnce => v = IF asked.selected THEN Push(asked, two) ELSE asked
    BY <1>1 DEF ApplyConnected, Fields
  <1>3. /\ one \in Outs /\ one.type = "LoadChannels"
        /\ two \in Outs /\ two.type = "OpenChannel"
    BY DEF Outs
  <1>4. /\ DOMAIN cured = Fields /\ cured.rows = u.rows /\ cured.live = u.live
        /\ cured.frontier = u.frontier /\ cured.presented = u.presented
        /\ cured.unread = u.unread
        /\ cured.out = u.out /\ cured.listed = u.listed /\ cured.openedOnce = u.openedOnce
        /\ cured.markerRead = u.markerRead /\ cured.markerComplete = u.markerComplete
        /\ ~cured.inboxFailed /\ cured.historyFailed = u.historyFailed
        /\ cured.waiting = u.waiting /\ cured.coverage = u.coverage /\ cured.known = u.known
        /\ cured.selected = u.selected
    BY <1>1 DEF Fields
  <1>5. Words(cured, ready, later)
    BY <1>4 DEF Sure, Words
  <1>6. CASE ~u.openedOnce
    <2>1. ~cured.listed /\ ~cured.selected /\ ~cured.waiting
      BY <1>4, <1>5, <1>6 DEF Words
    <2>2. Accounts(cured, p, K, Y)
      BY <1>4, <2>1 DEF Sure, Accounts
    <2>3. Words(cured, ready, after)
      BY <1>5, <2>1 DEF Words
    <2>4. v = Push(cured, one)
      BY <1>2, <1>6
    <2>5. one \in Outs /\ one.type \notin {"ReadProgress", "CatchUp", "Newest"}
      BY <1>3
    <2>6. Extends(cured, u)
      BY <1>4 DEF Extends
    <2>7. Sure(cured, p, K, Y, ready, after)
      BY <2>2, <2>3 DEF Sure
    <2> HIDE DEF cured, one
    <2>8. Sure(v, p, K, Y, ready, after) /\ Extends(v, cured) /\ v.selected = cured.selected
      BY <2>4, <2>5, <2>7, SurePush
    <2> QED
      BY <2>1, <2>6, <2>8, ExtendsBoth
  <1>7. CASE u.openedOnce
    <2> DEFINE any == TRUE
    <2>1. /\ DOMAIN ask = Fields /\ ask.rows = u.rows /\ ask.live = u.live
          /\ ask.frontier = u.frontier /\ ask.presented = u.presented
          /\ ask.unread = u.unread
          /\ ask.out = u.out /\ ask.listed = u.listed /\ ask.openedOnce = u.openedOnce
          /\ ask.markerRead = u.markerRead /\ ask.markerComplete = u.markerComplete
          /\ ask.inboxFailed = cured.inboxFailed /\ ask.historyFailed = u.historyFailed
          /\ ask.waiting = u.listed /\ ask.coverage = u.coverage /\ ask.known = u.known
          /\ ask.selected = u.selected
      BY <1>4 DEF Fields
    <2>2. v = IF asked.selected THEN Push(asked, two) ELSE asked
      BY <1>2, <1>7
    <2>3. Accounts(ask, p, K, Y)
      BY <2>1 DEF Sure, Accounts
    <2>4. Words(ask, any, after)
      BY <1>4, <1>5, <2>1 DEF Words
    <2>5. Extends(ask, u)
      BY <2>1 DEF Extends
    <2>6. Sure(ask, p, K, Y, any, after)
      BY <2>3, <2>4 DEF Sure
    <2>7. /\ one \in Outs /\ one.type \notin {"ReadProgress", "CatchUp", "Newest"}
          /\ two \in Outs /\ two.type \notin {"ReadProgress", "CatchUp", "Newest"}
      BY <1>3
    <2> HIDE DEF ask, any, one, two
    <2>71. asked = Push(ask, one)
      OBVIOUS
    <2> HIDE DEF asked
    <2>8. Sure(asked, p, K, Y, any, after) /\ Extends(asked, ask) /\ Has(asked.out, one.type)
      BY <2>6, <2>7, <2>71, SurePush
    <2>9. Has(asked.out, "LoadChannels")
      BY <1>3, <2>8
    <2>10. Sure(asked, p, K, Y, ready, after) /\ Extends(asked, u)
      BY <2>5, <2>8, <2>9, ExtendsBoth DEF Sure, Words
    <2>11. CASE ~asked.selected
      BY <2>2, <2>10, <2>11
    <2>12. CASE asked.selected
      <3>1. v = Push(asked, two)
        BY <2>2, <2>12
      <3>2. Sure(v, p, K, Y, ready, after) /\ Extends(v, asked) /\ Has(v.out, two.type)
        BY <2>7, <2>10, <3>1, SurePush
      <3>3. Has(v.out, "OpenChannel")
        BY <1>3, <3>2
      <3> QED
        BY <2>10, <3>2, <3>3, ExtendsBoth
    <2> QED
      BY <2>11, <2>12
  <1> QED
    BY <1>6, <1>7

LEMMA SureDisconnected ==
  ASSUME NEW u, NEW p, NEW K, NEW X, NEW ready, NEW later,
         Sure(u, p, K, X, ready, later), later, NEW v, v = ApplyDisconnected(u)
  PROVE  Sure(v, p, K, X, ready, later) /\ Extends(v, u) /\ v.selected = u.selected
  <1>1. DOMAIN u = Fields
    BY DEF Sure, Accounts
  <1>2. CASE v = u
    BY <1>2, ExtendsSelf
  <1>3. CASE v = [u EXCEPT !.coverage = "failed"]
    <2>1. /\ DOMAIN v = Fields /\ v.rows = u.rows /\ v.live = u.live
          /\ v.frontier = u.frontier /\ v.presented = u.presented /\ v.unread = u.unread
          /\ v.out = u.out /\ v.listed = u.listed /\ v.openedOnce = u.openedOnce
          /\ v.markerRead = u.markerRead /\ v.markerComplete = u.markerComplete
          /\ v.inboxFailed = u.inboxFailed /\ v.historyFailed = u.historyFailed
          /\ v.waiting = u.waiting /\ v.coverage = "failed" /\ v.selected = u.selected
      BY <1>1, <1>3 DEF Fields
    <2>2. Accounts(v, p, K, X)
      BY <2>1 DEF Sure, Accounts
    <2>3. Words(v, ready, later)
      BY <2>1 DEF Sure, Words
    <2> QED
      BY <2>1, <2>2, <2>3 DEF Sure, Extends
  <1> QED
    BY <1>2, <1>3 DEF ApplyDisconnected

\* A conversation that is listed waits for the marker answer behind the list.
LEMMA SureChannels ==
  ASSUME heads \in BOOLEAN, NEW u, NEW p \in 0 .. MaxMessage, NEW K, NEW X, NEW ready, NEW later,
         Sure(u, p, K, X, ready, later), ready, NEW v, v = ApplyChannels(u)
  PROVE  /\ Sure(v, p, K, X, ready, later)
         /\ u.rows \subseteq v.rows
         /\ v.selected => u.selected \/ Has(v.out, "OpenChannel")
         /\ u.markerRead => v.markerRead
  <1>1. DOMAIN u = Fields
    BY DEF Sure, Accounts
  <1>2. CASE u.listed
    <2> DEFINE i == u.focus
    <2>1. v = SetFocus(u, i)
      BY <1>2 DEF ApplyChannels
    <2> HIDE DEF i
    <2>2. Sure(v, p, K, X, ready, later) /\ Extends(v, u)
      BY <2>1, SureFocus
    <2> QED
      BY <2>2 DEF Extends
  <1>3. CASE ~u.listed
    <2> DEFINE word == IF Broken(u) THEN "failed"
                       ELSE IF ~u.markerRead THEN "complete"
                       ELSE IF u.markerComplete THEN "pending"
                       ELSE "unknown"
               new == [u EXCEPT !.listed = TRUE, !.waiting = TRUE, !.loading = TRUE,
                                !.openedOnce = TRUE, !.selected = heads, !.coverage = word]
               c == [type |-> "OpenChannel"]
               set == SetFocus(new, 0)
    <2>1. IF heads THEN v = Push(set, c) ELSE v = new
      BY <1>3 DEF ApplyChannels
    <2>2. word # "unknown"
      BY DEF Sure, Words, Broken
    <2> HIDE DEF word
    <2>3. /\ DOMAIN new = Fields /\ new.rows = u.rows /\ new.live = u.live
          /\ new.frontier = u.frontier /\ new.presented = u.presented /\ new.unread = u.unread
          /\ new.out = u.out /\ new.listed /\ new.openedOnce
          /\ new.markerRead = u.markerRead /\ new.markerComplete = u.markerComplete
          /\ new.inboxFailed = u.inboxFailed /\ new.historyFailed = u.historyFailed
          /\ new.waiting /\ new.coverage = word /\ new.selected = heads
      BY <1>1 DEF Fields
    <2> HIDE DEF new
    <2>4. Accounts(new, p, K, X)
      BY <2>3 DEF Sure, Accounts
    <2>5. Words(new, ready, later)
      BY <2>2, <2>3 DEF Sure, Words
    <2>6. Sure(new, p, K, X, ready, later)
      BY <2>4, <2>5 DEF Sure
    <2>7. CASE ~heads
      BY <2>1, <2>3, <2>6, <2>7
    <2>8. CASE heads
      <3>1. Sure(set, p, K, X, ready, later) /\ Extends(set, new)
        BY <2>6, SureFocus
      <3>2. c \in Outs /\ c.type = "OpenChannel"
        BY DEF Outs
      <3>3. v = Push(set, c) /\ c.type \notin {"ReadProgress", "CatchUp", "Newest"}
        BY <2>1, <2>8
      <3> HIDE DEF set, c
      <3>4. Sure(v, p, K, X, ready, later) /\ Extends(v, set) /\ Has(v.out, c.type)
        BY <3>1, <3>2, <3>3, SurePush
      <3>5. Has(v.out, "OpenChannel")
        BY <3>2, <3>4
      <3> QED
        BY <2>3, <3>1, <3>4, <3>5 DEF Extends
    <2> QED
      BY <2>7, <2>8
  <1> QED
    BY <1>2, <1>3

\* A complete marker answer lets a conversation that waits ask.
LEMMA SureReadState ==
  ASSUME NEW u, NEW p \in 0 .. MaxMessage, NEW K, NEW X, NEW ready, NEW after, NEW later,
         Sure(u, p, K, X, ready, later), NEW complete, complete = TRUE,
         NEW at \in Second, Below(at, K),
         NEW v, v = ApplyReadState(u, complete, at)
  PROVE  /\ Sure(v, p, K, X, after, later) /\ Extends(v, u)
         /\ v.selected = u.selected
  <1> DEFINE read  == [u EXCEPT !.markerRead = TRUE, !.markerComplete = complete]
             taken == TakeMarker(read, complete, at)
             asked == RequestCatchUp(taken)
             checked == IF u.waiting THEN "pending" ELSE "complete"
             f == MarkerFrontier(u, at)
             rest == {m \in u.unread : At[m] >= f}
  <1>1. v = NotePresented(asked)
    BY DEF ApplyReadState
  <1>2. DOMAIN u = Fields /\ u.frontier \in Second /\ Second \subseteq Nat
    BY SecondsAreNumbers DEF Sure, Accounts
  <1>3. /\ DOMAIN read = Fields /\ read.rows = u.rows /\ read.live = u.live
        /\ read.frontier = u.frontier /\ read.presented = u.presented /\ read.unread = u.unread
        /\ read.out = u.out /\ read.listed = u.listed /\ read.openedOnce = u.openedOnce
        /\ read.markerRead = TRUE /\ read.markerComplete = complete
        /\ read.inboxFailed = u.inboxFailed /\ read.historyFailed = u.historyFailed
        /\ read.waiting = u.waiting /\ read.coverage = u.coverage /\ read.known = u.known
        /\ read.selected = u.selected
    BY <1>2 DEF Fields
  <1> HIDE DEF read
  <1>4. Sure(read, p, K, X, ready, later) /\ Extends(read, u)
    <2>1. Accounts(read, p, K, X)
      BY <1>3 DEF Sure, Accounts
    <2>2. Words(read, ready, later)
      BY <1>3 DEF Sure, Words
    <2> QED
      BY <1>3, <2>1, <2>2 DEF Sure, Extends
  <1>5. Sure(taken, p, K, X, ready, later) /\ Extends(taken, read) /\ taken.markerRead
        /\ taken.selected = read.selected
    <2>1. \/ taken = read
          \/ taken = [read EXCEPT !.coverage = checked] /\ read.waiting
          \/ taken = [read EXCEPT !.frontier = f, !.marked = TRUE, !.known = TRUE,
                                  !.coverage = checked, !.presented = {}, !.unread = rest]
      <3>1. read.coverage # "unknown" /\ complete
        BY <1>4 DEF Sure, Words
      <3> QED
        BY <1>3, <3>1 DEF TakeMarker, MarkerFrontier
    <2>2. CASE taken = read
      BY <1>3, <1>4, <2>2, ExtendsSelf
    <2>3. checked # "unknown" /\ (checked = "complete" \/ u.waiting)
      OBVIOUS
    <2> HIDE DEF checked
    <2>4. CASE taken = [read EXCEPT !.coverage = checked] /\ read.waiting
      <3>1. /\ DOMAIN taken = Fields /\ taken.rows = read.rows /\ taken.live = read.live
            /\ taken.frontier = read.frontier /\ taken.presented = read.presented
            /\ taken.unread = read.unread /\ taken.out = read.out
            /\ taken.listed = read.listed /\ taken.openedOnce = read.openedOnce
            /\ taken.markerRead = read.markerRead
            /\ taken.markerComplete = read.markerComplete
            /\ taken.inboxFailed = read.inboxFailed /\ taken.historyFailed = read.historyFailed
            /\ taken.waiting = read.waiting /\ taken.coverage = checked
            /\ taken.known = read.known /\ taken.selected = read.selected
        BY <1>3, <2>4 DEF Fields
      <3>2. Accounts(taken, p, K, X)
        BY <1>4, <3>1 DEF Sure, Accounts
      <3>3. Words(taken, ready, later)
        BY <1>4, <2>3, <2>4, <3>1 DEF Sure, Words
      <3> QED
        BY <1>3, <3>1, <3>2, <3>3 DEF Sure, Extends
    <2>5. CASE taken = [read EXCEPT !.frontier = f, !.marked = TRUE, !.known = TRUE,
                                    !.coverage = checked, !.presented = {}, !.unread = rest]
      <3>1. f \in Second /\ (f = at \/ f = u.frontier)
        BY <1>2 DEF MarkerFrontier, Later
      <3>2. Below(f, K)
        BY <3>1 DEF Sure, Accounts
      <3>3. \A n \in (1 .. p) \ Mine : n \in u.unread => n \in rest \cup K
        <4> SUFFICES ASSUME NEW n \in (1 .. p) \ Mine, n \in u.unread
                     PROVE  n \in rest \cup K
          OBVIOUS
        <4>1. n \in Message /\ At[n] \in Nat /\ f \in Nat
          BY <1>2, <3>1, LogIsMessages, Seconds
        <4>2. CASE At[n] >= f
          BY <4>2
        <4>3. CASE At[n] < f
          BY <3>2, <4>1, <4>3 DEF Below
        <4> QED
          BY <4>1, <4>2, <4>3
      <3> HIDE DEF f, rest
      <3> DEFINE moved == [read EXCEPT !.frontier = f, !.marked = TRUE, !.known = TRUE]
      <3>31. /\ DOMAIN moved = Fields /\ moved.rows = read.rows /\ moved.live = read.live
             /\ moved.frontier = f /\ moved.out = read.out
             /\ moved.listed = read.listed /\ moved.openedOnce = read.openedOnce
             /\ moved.markerRead = read.markerRead
             /\ moved.markerComplete = read.markerComplete
             /\ moved.inboxFailed = read.inboxFailed /\ moved.historyFailed = read.historyFailed
             /\ moved.waiting = read.waiting
             /\ moved.known = TRUE /\ moved.selected = read.selected
        BY <1>3 DEF Fields
      <3>32. taken = [moved EXCEPT !.coverage = checked, !.presented = {}, !.unread = rest]
        BY <2>5
      <3> HIDE DEF moved
      <3>4. /\ DOMAIN taken = Fields /\ taken.rows = read.rows /\ taken.live = read.live
            /\ taken.frontier = f /\ taken.presented = {}
            /\ taken.unread = rest /\ taken.out = read.out
            /\ taken.listed = read.listed /\ taken.openedOnce = read.openedOnce
            /\ taken.markerRead = read.markerRead
            /\ taken.markerComplete = read.markerComplete
            /\ taken.inboxFailed = read.inboxFailed /\ taken.historyFailed = read.historyFailed
            /\ taken.waiting = read.waiting /\ taken.coverage = checked
            /\ taken.known = TRUE /\ taken.selected = read.selected
        BY <3>31, <3>32 DEF Fields
      <3>5. taken.listed => \A n \in (1 .. p) \ Mine :
              n \in taken.unread \cup K \cup X \/ taken.waiting \/ Sought(taken.out, n)
        BY <1>3, <1>4, <3>3, <3>4 DEF Sure, Accounts
      <3>6. Accounts(taken, p, K, X)
        BY <1>4, <3>1, <3>2, <3>4, <3>5 DEF Sure, Accounts
      <3>7. Words(taken, ready, later)
        BY <1>3, <1>4, <2>3, <3>4 DEF Sure, Words
      <3> QED
        BY <1>3, <3>4, <3>6, <3>7 DEF Sure, Extends
    <2> QED
      BY <2>1, <2>2, <2>4, <2>5
  <1> HIDE DEF taken
  <1>6. /\ Sure(asked, p, K, X, ready, later) /\ Extends(asked, taken) /\ ~asked.waiting
        /\ asked.selected = taken.selected
    BY <1>5, SureAsks
  <1> HIDE DEF asked
  <1>7. Sure(asked, p, K, X, after, later)
    BY <1>6 DEF Sure, Words
  <1>8. Sure(v, p, K, X, after, later) /\ Extends(v, asked) /\ v.selected = asked.selected
    BY <1>1, <1>7, SurePresents
  <1>9. Extends(v, taken)
    BY <1>6, <1>8, ExtendsBoth
  <1>10. Extends(v, read)
    BY <1>5, <1>9, ExtendsBoth
  <1> QED
    BY <1>3, <1>4, <1>5, <1>6, <1>8, <1>10, ExtendsBoth

\* A conversation that is not listed owes nothing, and has nothing to say.
LEMMA SureUnlisted ==
  ASSUME NEW u, NEW p, NEW K, NEW X, NEW Y, NEW ready, NEW later, NEW after,
         Sure(u, p, K, X, ready, later), ~u.listed
  PROVE  Sure(u, p, K, Y, ready, after)
  <1>1. Accounts(u, p, K, Y)
    BY DEF Sure, Accounts
  <1>2. Words(u, ready, after)
    BY DEF Sure, Words
  <1> QED
    BY <1>1, <1>2 DEF Sure

LEMMA SureCatchUp ==
  ASSUME NEW u, NEW p \in 0 .. MaxMessage, NEW K, NEW X, NEW Y, NEW ready, NEW later, NEW after,
         Sure(u, p, K, X, ready, later), NEW M, NEW complete, complete = TRUE,
         Leaves(p, X, M, K, Y),
         NEW v, v = ApplyCatchUp(u, M, complete)
  PROVE  Sure(v, p, K, Y, ready, after) /\ Extends(v, u) /\ v.selected = u.selected
  <1>1. CASE ~u.listed
    <2>1. v = u
      BY <1>1 DEF ApplyCatchUp
    <2> QED
      BY <1>1, <2>1, SureUnlisted, ExtendsSelf
  <1>2. CASE u.listed
    <2> DEFINE word == IF complete /\ ~Broken(u) THEN "complete" ELSE "failed"
               known == [u EXCEPT !.known = TRUE, !.coverage = word]
               counted == Count(known, M)
    <2>1. v = NotePresented(counted)
      BY <1>2 DEF ApplyCatchUp
    <2>2. word = "complete" /\ DOMAIN u = Fields
      BY DEF Sure, Words, Accounts, Broken
    <2> HIDE DEF word
    <2>3. /\ DOMAIN known = Fields /\ known.rows = u.rows /\ known.live = u.live
          /\ known.frontier = u.frontier /\ known.presented = u.presented
          /\ known.unread = u.unread
          /\ known.out = u.out /\ known.listed = u.listed /\ known.openedOnce = u.openedOnce
          /\ known.markerRead = u.markerRead /\ known.markerComplete = u.markerComplete
          /\ known.inboxFailed = u.inboxFailed /\ known.historyFailed = u.historyFailed
          /\ known.waiting = u.waiting /\ known.coverage = "complete" /\ known.known = TRUE
          /\ known.selected = u.selected
      BY <2>2 DEF Fields
    <2> HIDE DEF known
    <2>4. Accounts(known, p, K, X)
      BY <2>3 DEF Sure, Accounts
    <2>5. Words(known, ready, after)
      BY <2>3 DEF Sure, Words
    <2>6. Sure(known, p, K, X, ready, after) /\ Extends(known, u)
      BY <2>3, <2>4, <2>5 DEF Sure, Extends
    <2>7. /\ Sure(counted, p, K, Y, ready, after) /\ Extends(counted, known)
          /\ counted.selected = known.selected
      BY <2>6, SureCounts
    <2> HIDE DEF counted
    <2>8. /\ Sure(v, p, K, Y, ready, after) /\ Extends(v, counted)
          /\ v.selected = counted.selected
      BY <2>1, <2>7, SurePresents
    <2>9. Extends(v, known)
      BY <2>7, <2>8, ExtendsBoth
    <2> QED
      BY <2>3, <2>6, <2>7, <2>8, <2>9, ExtendsBoth
  <1> QED
    BY <1>1, <1>2

\* A seed speaks for every message up to the newest one it names.
LEMMA SureSeed ==
  ASSUME NEW u, NEW p \in 0 .. MaxMessage, NEW K, NEW X, NEW Y, NEW ready, NEW later, NEW after,
         Sure(u, p, K, X, ready, later), u.markerRead,
         NEW latest \in 0 .. p, NEW complete, complete = TRUE,
         NEW M, M = 1 .. latest, M \subseteq K, Leaves(p, X, M, K, Y),
         NEW v, v = ApplySeed(u, latest, complete)
  PROVE  Sure(v, p, K, Y, ready, after) /\ Extends(v, u) /\ v.selected = u.selected
  <1>0. \A n \in (1 .. p) \ Mine : n \in X => n \in K \cup Y
    BY DEF Leaves
  <1>1. CASE ~u.listed
    <2>1. v = u
      BY <1>1 DEF ApplySeed
    <2> QED
      BY <1>1, <2>1, SureUnlisted, ExtendsSelf
  <1>2. CASE u.listed
    <2> DEFINE word == IF Broken(u) THEN "failed"
                       ELSE IF ~u.markerRead \/ ~u.markerComplete THEN "unknown"
                       ELSE IF complete THEN "complete" ELSE "failed"
               said == [u EXCEPT !.coverage = word]
               known == [said EXCEPT !.known = TRUE, !.marked = FALSE]
               f == Later(u.frontier, At[latest])
               seeded == [known EXCEPT !.frontier = f, !.presented = {latest}]
               rest == {m \in seeded.unread : UnreadAt(seeded, m)}
               left == [seeded EXCEPT !.unread = rest]
    <2>0. ~Broken(u) /\ u.markerComplete /\ DOMAIN u = Fields /\ u.frontier \in Second
          /\ Second \subseteq Nat
      BY SecondsAreNumbers DEF Sure, Words, Accounts, Broken
    <2>1. /\ latest = 0 => v = known
          /\ latest # 0 => v = NotePresented([seeded EXCEPT !.unread = {m \in @ : UnreadAt(seeded, m)}])
      BY <1>2, <2>0 DEF ApplySeed
    <2>2. word = "complete"
      BY <2>0
    <2> HIDE DEF word
    <2>3. /\ DOMAIN known = Fields /\ known.rows = u.rows /\ known.live = u.live
          /\ known.frontier = u.frontier /\ known.presented = u.presented
          /\ known.unread = u.unread
          /\ known.out = u.out /\ known.listed = u.listed /\ known.openedOnce = u.openedOnce
          /\ known.markerRead = u.markerRead /\ known.markerComplete = u.markerComplete
          /\ known.inboxFailed = u.inboxFailed /\ known.historyFailed = u.historyFailed
          /\ known.waiting = u.waiting /\ known.coverage = "complete" /\ known.known = TRUE
          /\ known.selected = u.selected
      BY <2>0, <2>2 DEF Fields
    <2> HIDE DEF known
    <2>4. Accounts(known, p, K, X)
      BY <2>3 DEF Sure, Accounts
    <2>41. Accounts(known, p, K, Y)
      BY <1>0, <2>4, AccountsMore
    <2>5. Words(known, ready, after)
      BY <2>3 DEF Sure, Words
    <2>6. Sure(known, p, K, Y, ready, after) /\ Extends(known, u)
      BY <2>3, <2>41, <2>5 DEF Sure, Extends
    <2>7. CASE latest = 0
      BY <2>1, <2>3, <2>6, <2>7
    <2>8. CASE latest # 0
      <3>1. latest \in Message /\ At[latest] \in Second /\ latest \in 1 .. latest
        BY <2>8, LogIsMessages, SecondsAreNumbers
      <3>2. f \in Second /\ (f = u.frontier \/ f = At[latest])
        BY <2>0, <3>1 DEF Later
      <3>3. Below(f, K)
        <4>1. Below(At[latest], K)
          BY <3>1, BelowRow
        <4> QED
          BY <3>2, <4>1 DEF Sure, Accounts
      <3> HIDE DEF f
      <3>4. /\ seeded.unread = u.unread /\ seeded.frontier = f /\ seeded.presented = {latest}
            /\ DOMAIN seeded = Fields
        BY <2>3 DEF Fields
      <3>5. /\ seeded.rows = u.rows /\ seeded.live = u.live
            /\ seeded.out = u.out /\ seeded.listed = u.listed
            /\ seeded.openedOnce = u.openedOnce
            /\ seeded.markerRead = u.markerRead /\ seeded.markerComplete = u.markerComplete
            /\ seeded.inboxFailed = u.inboxFailed /\ seeded.historyFailed = u.historyFailed
            /\ seeded.waiting = u.waiting /\ seeded.coverage = "complete"
            /\ seeded.known = TRUE /\ seeded.selected = u.selected
        BY <2>3 DEF Fields
      <3>6. v = NotePresented(left)
        BY <2>1, <2>8
      <3> HIDE DEF seeded
      <3>7. \A n \in (1 .. p) \ Mine : n \in u.unread => n \in rest \cup K
        <4> SUFFICES ASSUME NEW n \in (1 .. p) \ Mine, n \in u.unread
                     PROVE  n \in rest \cup K
          OBVIOUS
        <4>1. n \in Message /\ At[n] \in Nat /\ f \in Nat
          BY <2>0, <3>2, LogIsMessages, Seconds
        <4>2. CASE UnreadAt(seeded, n)
          BY <3>4, <4>2
        <4>3. CASE At[n] < f
          BY <3>3, <4>1, <4>3 DEF Below
        <4>4. CASE n = latest
          BY <3>1, <4>4
        <4> QED
          BY <3>4, <4>1, <4>2, <4>3, <4>4 DEF UnreadAt
      <3> HIDE DEF rest
      <3>8. /\ left.unread = rest /\ left.frontier = f /\ left.presented = {latest}
            /\ DOMAIN left = Fields
        BY <3>4 DEF Fields
      <3>9. /\ left.rows = u.rows /\ left.live = u.live
            /\ left.out = u.out /\ left.listed = u.listed
            /\ left.openedOnce = u.openedOnce
            /\ left.markerRead = u.markerRead /\ left.markerComplete = u.markerComplete
            /\ left.inboxFailed = u.inboxFailed /\ left.historyFailed = u.historyFailed
            /\ left.waiting = u.waiting /\ left.coverage = "complete"
            /\ left.known = TRUE /\ left.selected = u.selected
        BY <3>4, <3>5 DEF Fields
      <3> HIDE DEF left
      <3>10. left.listed => \A n \in (1 .. p) \ Mine :
               n \in left.unread \cup K \cup Y \/ left.waiting \/ Sought(left.out, n)
        BY <2>3, <2>41, <3>7, <3>8, <3>9 DEF Accounts
      <3>11. left.presented \subseteq K
        BY <3>1, <3>8
      <3>12. Accounts(left, p, K, Y)
        BY <3>2, <3>3, <3>8, <3>9, <3>10, <3>11 DEF Sure, Accounts
      <3>13. Words(left, ready, after)
        BY <3>9 DEF Sure, Words
      <3>14. Sure(left, p, K, Y, ready, after) /\ Extends(left, u)
        BY <3>9, <3>12, <3>13 DEF Sure, Extends
      <3>15. Sure(v, p, K, Y, ready, after) /\ Extends(v, left) /\ v.selected = left.selected
        BY <3>6, <3>14, SurePresents
      <3> QED
        BY <3>9, <3>14, <3>15, ExtendsBoth
    <2> QED
      BY <2>7, <2>8
  <1> QED
    BY <1>1, <1>2

\* A page holds every row that did not come from a feed.
LEMMA SureHistory ==
  ASSUME NEW u, NEW p \in 0 .. MaxMessage, NEW K, NEW X, NEW ready, NEW later,
         Sure(u, p, K, X, ready, later),
         NEW last \in 0 .. p, 1 .. last \subseteq K, Fetched(u) \subseteq 1 .. last,
         NEW v, v = ApplyHistory(u, last)
  PROVE  /\ Sure(v, p, K, X, ready, later) /\ Extends(v, u)
         /\ 1 .. last \subseteq v.rows /\ v.selected = u.selected
  <1> DEFINE fetched == 1 .. last
             rows == fetched \cup u.live
             live == u.live \ fetched
             loaded == [u EXCEPT !.rows = rows, !.live = live, !.loading = FALSE,
                                 !.historyFailed = FALSE]
  <1>1. ~u.historyFailed /\ DOMAIN u = Fields
    BY DEF Sure, Words, Accounts
  <1>2. v = IF u.selected THEN LandOn(loaded, FocusedRow(u)) ELSE loaded
    BY <1>1 DEF ApplyHistory
  <1>3. u.rows \in SUBSET (1 .. p) /\ u.live \subseteq u.rows /\ p \in Nat
    BY LogIsMessages DEF Sure, Accounts
  <1>4. rows \in SUBSET (1 .. p) /\ live \subseteq rows
    BY <1>3
  <1>5. u.rows \subseteq rows
    BY DEF Fetched
  <1>6. \A r \in rows : 1 .. r \subseteq K
    <2>1. \A r \in fetched : 1 .. r \subseteq 1 .. last
      OBVIOUS
    <2>2. \A r \in u.live : 1 .. r \subseteq K
      BY <1>3 DEF Sure, Accounts
    <2> QED
      BY <2>1, <2>2
  <1>7. fetched \subseteq rows
    OBVIOUS
  <1> HIDE DEF rows, live
  <1>8. /\ DOMAIN loaded = Fields /\ loaded.rows = rows /\ loaded.live = live
        /\ loaded.frontier = u.frontier /\ loaded.presented = u.presented
        /\ loaded.unread = u.unread
        /\ loaded.out = u.out /\ loaded.listed = u.listed /\ loaded.openedOnce = u.openedOnce
        /\ loaded.markerRead = u.markerRead /\ loaded.markerComplete = u.markerComplete
        /\ loaded.inboxFailed = u.inboxFailed /\ ~loaded.historyFailed
        /\ loaded.waiting = u.waiting /\ loaded.coverage = u.coverage
        /\ loaded.known = u.known /\ loaded.selected = u.selected
    BY <1>1 DEF Fields
  <1> HIDE DEF loaded
  <1>9. Accounts(loaded, p, K, X)
    BY <1>4, <1>6, <1>8 DEF Sure, Accounts
  <1>10. Words(loaded, ready, later)
    BY <1>8 DEF Sure, Words
  <1>11. Sure(loaded, p, K, X, ready, later) /\ Extends(loaded, u)
    BY <1>5, <1>8, <1>9, <1>10 DEF Sure, Extends
  <1>12. CASE ~u.selected
    BY <1>2, <1>7, <1>8, <1>11, <1>12
  <1>13. CASE u.selected
    <2> DEFINE row == FocusedRow(u)
    <2>1. v = LandOn(loaded, row)
      BY <1>2, <1>13
    <2> HIDE DEF row
    <2>2. v = SetFocus(loaded, Position(loaded.rows, row)) \/ v = RestorePosition(loaded)
      BY <2>1 DEF LandOn
    <2>3. Sure(v, p, K, X, ready, later) /\ Extends(v, loaded) /\ v.selected = loaded.selected
      <3>1. CASE v = SetFocus(loaded, Position(loaded.rows, row))
        BY <1>11, <3>1, SureFocus
      <3>2. CASE v = RestorePosition(loaded)
        BY <1>11, <3>2, SureRestores
      <3> QED
        BY <2>2, <3>1, <3>2
    <2>4. fetched \subseteq v.rows
      BY <1>7, <1>8, <2>3 DEF Extends
    <2> QED
      BY <1>8, <1>11, <2>3, <2>4, ExtendsBoth
  <1> QED
    BY <1>12, <1>13

\* The conversation on screen leaves what the Inbox feed brings to its rows.
LEMMA SureInboxTimeline ==
  ASSUME NEW u, NEW p \in 0 .. MaxMessage, NEW K, NEW X, NEW Y, NEW ready, NEW later,
         Sure(u, p, K, X, ready, later), NEW m, NEW M, M = {m}, Leaves(p, X, M, K, Y),
         u.selected => m \in K \cup Y,
         NEW v, v = ApplyInboxTimeline(u, m)
  PROVE  Sure(v, p, K, Y, ready, later) /\ Extends(v, u) /\ v.selected = u.selected
  <1>1. CASE ~u.listed
    <2>1. v = u
      BY <1>1 DEF ApplyInboxTimeline
    <2> QED
      BY <1>1, <2>1, SureUnlisted, ExtendsSelf
  <1>2. CASE u.selected
    <2>1. v = u
      BY <1>2 DEF ApplyInboxTimeline
    <2>2. Accounts(u, p, K, Y)
      BY <1>2, AccountsMore DEF Sure, Leaves
    <2> QED
      BY <2>1, <2>2, ExtendsSelf DEF Sure
  <1>3. CASE u.listed /\ ~u.selected
    <2>1. v = Count(u, M)
      BY <1>3 DEF ApplyInboxTimeline
    <2> QED
      BY <2>1, SureCounts
  <1> QED
    BY <1>1, <1>2, <1>3

\* A message joins the rows of the conversation on screen when all before it are
\* spoken for.
LEMMA SureTimeline ==
  ASSUME NEW u, NEW p \in 0 .. MaxMessage, NEW K, NEW X, NEW Y, NEW ready, NEW later,
         Sure(u, p, K, X, ready, later), NEW m \in 1 .. p,
         NEW M, M = {m}, Leaves(p, X, M, K, Y),
         u.selected => 1 .. m \subseteq K,
         NEW v, v = ApplyTimeline(u, m)
  PROVE  /\ Sure(v, p, K, Y, ready, later) /\ Extends(v, u) /\ v.selected = u.selected
         /\ u.selected => m \in v.rows
  <1> DEFINE c == IF u.cover = "thread" THEN Count(u, M) ELSE u
             to == IF u.rows = {} \/ AtBottom(u) THEN Cardinality(u.rows) ELSE c.focus
             rows == u.rows \cup {m}
             live == u.live \cup {m}
  <1>1. CASE ~u.selected
    <2>1. v = ApplyInboxTimeline(u, m)
      BY <1>1 DEF ApplyTimeline
    <2> QED
      BY <1>1, <2>1, SureInboxTimeline
  <1>2. CASE u.selected
    <2>1. m \in 1 .. m
      OBVIOUS
    <2>2. \A n \in (1 .. p) \ Mine : n \in X => n \in K \cup Y
      BY <1>2, <2>1 DEF Leaves
    <2>3. Accounts(u, p, K, Y)
      BY <2>2, AccountsMore DEF Sure
    <2>4. Sure(u, p, K, Y, ready, later)
      BY <2>3 DEF Sure
    <2>5. Leaves(p, Y, M, K, Y)
      BY DEF Leaves
    <2>6. /\ m \in u.rows => v = c
          /\ m \notin u.rows => v = [c EXCEPT !.rows = @ \cup {m}, !.live = @ \cup {m},
               !.focus = IF u.rows = {} \/ AtBottom(u) THEN Cardinality(u.rows) ELSE @]
      BY <1>2 DEF ApplyTimeline
    <2>7. /\ Sure(c, p, K, Y, ready, later) /\ Extends(c, u)
          /\ c.selected = u.selected /\ c.rows = u.rows /\ c.live = u.live
      <3>1. CASE u.cover = "thread"
        <4>1. c = Count(u, M)
          BY <3>1
        <4> QED
          BY <2>4, <2>5, <4>1, SureCounts
      <3>2. CASE u.cover # "thread"
        BY <2>4, <3>2, ExtendsSelf
      <3> QED
        BY <3>1, <3>2
    <2>8. CASE m \in u.rows
      BY <2>6, <2>7, <2>8
    <2>9. CASE m \notin u.rows
      <3>1. DOMAIN c = Fields
        BY <2>7 DEF Sure, Accounts
      <3>2. v = [c EXCEPT !.rows = rows, !.live = live, !.focus = to]
        BY <2>6, <2>7, <2>9, <3>1 DEF Fields
      <3>3. rows \in SUBSET (1 .. p) /\ live \subseteq rows /\ u.rows \subseteq rows /\ m \in rows
        BY <2>4 DEF Sure, Accounts
      <3>4. \A r \in rows : 1 .. r \subseteq K
        BY <1>2, <2>4 DEF Sure, Accounts
      <3> HIDE DEF rows, live, to, c
      <3>5. /\ DOMAIN v = Fields /\ v.rows = rows /\ v.live = live
            /\ v.frontier = c.frontier /\ v.presented = c.presented /\ v.unread = c.unread
            /\ v.out = c.out /\ v.listed = c.listed /\ v.openedOnce = c.openedOnce
            /\ v.markerRead = c.markerRead /\ v.markerComplete = c.markerComplete
            /\ v.inboxFailed = c.inboxFailed /\ v.historyFailed = c.historyFailed
            /\ v.waiting = c.waiting /\ v.coverage = c.coverage /\ v.known = c.known
            /\ v.selected = c.selected
        BY <3>1, <3>2 DEF Fields
      <3>6. Accounts(v, p, K, Y)
        BY <2>7, <3>3, <3>4, <3>5 DEF Sure, Accounts
      <3>7. Words(v, ready, later)
        BY <2>7, <3>5 DEF Sure, Words
      <3>8. Extends(v, c)
        BY <2>7, <3>3, <3>5 DEF Extends
      <3> QED
        BY <2>7, <3>3, <3>5, <3>6, <3>7, <3>8, ExtendsBoth DEF Sure
    <2> QED
      BY <2>8, <2>9
  <1> QED
    BY <1>1, <1>2
-----------------------------------------------------------------------------
(* The keys.                                                               *)

LEMMA SureOpen ==
  ASSUME NEW u, NEW p \in 0 .. MaxMessage, NEW K, NEW X, NEW ready, NEW later,
         Sure(u, p, K, X, ready, later), u.listed, NEW v, v = Open(u)
  PROVE  Sure(v, p, K, X, ready, later) /\ Extends(v, u)
  <1> DEFINE on == [u EXCEPT !.selected = TRUE, !.loading = TRUE]
             set == RestorePosition(on)
             c == [type |-> "OpenChannel"]
  <1>1. DOMAIN u = Fields
    BY DEF Sure, Accounts
  <1>2. v = Push(set, c)
    BY DEF Open
  <1>3. SameWork(on, u)
    BY <1>1 DEF SameWork, Fields
  <1> HIDE DEF on
  <1>4. Sure(on, p, K, X, ready, later)
    BY <1>3, SureView
  <1>5. Sure(set, p, K, X, ready, later) /\ Extends(set, on)
    BY <1>4, SureRestores
  <1>6. c \in Outs /\ c.type \notin {"ReadProgress", "CatchUp", "Newest"} /\ c.type = "OpenChannel"
    BY DEF Outs
  <1> HIDE DEF set, c
  <1>7. Sure(v, p, K, X, ready, later) /\ Extends(v, set) /\ Has(v.out, c.type)
    BY <1>2, <1>5, <1>6, SurePush
  <1>8. Has(v.out, "OpenChannel")
    BY <1>6, <1>7
  <1>9. Extends(v, on)
    BY <1>5, <1>7, ExtendsBoth
  <1> QED
    BY <1>3, <1>7, <1>8, <1>9 DEF Extends, SameWork

LEMMA SureLeave ==
  ASSUME NEW u, NEW p, NEW K, NEW X, NEW ready, NEW later,
         Sure(u, p, K, X, ready, later), NEW v, v = Leave(u)
  PROVE  Sure(v, p, K, X, ready, later) /\ Extends(v, u)
  <1> DEFINE row == IF u.focus < Cardinality(u.rows) THEN AtPosition(u.rows, u.focus) ELSE 0
             away == [u EXCEPT !.selected = FALSE, !.cover = "none", !.focus = 0]
  <1>1. DOMAIN u = Fields
    BY DEF Sure, Accounts
  <1>2. v = [u EXCEPT !.selected = FALSE, !.cover = "none", !.focus = 0, !.fallback = FALSE,
                      !.saved = row]
    BY <1>1 DEF Leave, Fields
  <1> HIDE DEF row
  <1>3. v = [away EXCEPT !.fallback = FALSE, !.saved = row]
    BY <1>2
  <1>4. SameWork(away, u) /\ ~away.selected
    BY <1>1 DEF SameWork, Fields
  <1> HIDE DEF away
  <1>5. SameWork(v, u) /\ ~v.selected
    BY <1>3, <1>4 DEF SameWork, Fields
  <1>6. Sure(v, p, K, X, ready, later)
    BY <1>5, SureView
  <1> QED
    BY <1>5, <1>6 DEF Extends, SameWork

LEMMA SureCover ==
  ASSUME NEW u, NEW p, NEW K, NEW X, NEW ready, NEW later,
         Sure(u, p, K, X, ready, later), NEW view, NEW v, v = Cover(u, view)
  PROVE  Sure(v, p, K, X, ready, later) /\ Extends(v, u)
  <1> DEFINE row == FocusedRow(u)
  <1>1. DOMAIN u = Fields /\ v = [u EXCEPT !.cover = view, !.origin = row]
    BY DEF Sure, Accounts, Cover
  <1> HIDE DEF row
  <1>2. SameWork(v, u) /\ v.selected = u.selected
    BY <1>1 DEF SameWork, Fields
  <1>3. Sure(v, p, K, X, ready, later)
    BY <1>2, SureView DEF Sure, Words
  <1> QED
    BY <1>2, <1>3 DEF Extends, SameWork

LEMMA SureReturn ==
  ASSUME NEW u, NEW p \in 0 .. MaxMessage, NEW K, NEW X, NEW ready, NEW later,
         Sure(u, p, K, X, ready, later), u.cover \in {"help", "reader", "thread"},
         NEW v, v = Return(u)
  PROVE  Sure(v, p, K, X, ready, later) /\ Extends(v, u)
  <1> DEFINE to == IF u.cover # "help" /\ u.origin \in u.rows
                     THEN Position(u.rows, u.origin) ELSE u.focus
             back == [u EXCEPT !.cover = "none", !.origin = 0, !.focus = to]
             i == back.focus
  <1>1. DOMAIN u = Fields
    BY DEF Sure, Accounts
  <1>2. \/ v = NotePresented(back)
        \/ v = [back EXCEPT !.fallback = FALSE]
        \/ v = SetFocus(back, i)
    BY <1>1 DEF Return, Fields
  <1> HIDE DEF to, i
  <1>3. SameWork(back, u) /\ back.selected = u.selected
    BY <1>1 DEF SameWork, Fields
  <1> HIDE DEF back
  <1>4. Sure(back, p, K, X, ready, later)
    BY <1>3, SureView DEF Sure, Words
  <1>5. Extends(back, u)
    BY <1>3 DEF Extends, SameWork
  <1>6. CASE v = NotePresented(back)
    <2>1. Sure(v, p, K, X, ready, later) /\ Extends(v, back)
      BY <1>4, <1>6, SurePresents
    <2> QED
      BY <1>5, <2>1, ExtendsBoth
  <1>7. CASE v = [back EXCEPT !.fallback = FALSE]
    <2>1. DOMAIN back = Fields
      BY <1>3 DEF SameWork
    <2>2. SameWork(v, back) /\ v.selected = back.selected
      BY <1>7, <2>1 DEF SameWork, Fields
    <2>3. Sure(v, p, K, X, ready, later)
      BY <1>4, <2>2, SureView DEF Sure, Words
    <2>4. Extends(v, back)
      BY <2>2 DEF Extends, SameWork
    <2> QED
      BY <1>5, <2>3, <2>4, ExtendsBoth
  <1>8. CASE v = SetFocus(back, i)
    <2>1. Sure(v, p, K, X, ready, later) /\ Extends(v, back)
      BY <1>4, <1>8, SureFocus
    <2> QED
      BY <1>5, <2>1, ExtendsBoth
  <1> QED
    BY <1>2, <1>6, <1>7, <1>8
-----------------------------------------------------------------------------
(* The invariant, and the steps of the interface.                          *)

\* The messages a history page on its way holds, or will.
Pages(c, a, p) == {n \in 1 .. p : \/ Has(c, "OpenChannel")
                                  \/ \E r \in Items(a) : r.type = "History" /\ n <= r.last}

\* The messages that are brought, found or asked for; all while a connection is to
\* come, whose report renews every question.
OwedBy(l, f, c, a, p) == {n \in 1 .. p : \/ l # "up" \/ Has(f, "Connected") \/ Brought(f, n)
                                         \/ Sought(c, n) \/ Found(a, n)}

Resolves(c, a)     == Has(c, "LoadChannels") \/ Has(a, "ReadState")
Renews(l, f, c, a) == l # "up" \/ Has(f, "Connected") \/ Asks(c) \/ Answering(a)

Spoken == ui.rows \cup vouched \cup Pages(commands, answers, posted)

Accounted == Sure(ui, posted, Spoken, OwedBy(link, feed, commands, answers, posted),
                  Resolves(commands, answers), Renews(link, feed, commands, answers))

\* The conversation on screen has its feed, or will.  A message that nothing on the
\* feed tells, or that a later one overtakes there, is loaded or in a page to come.
Steady ==
    ui.selected =>
      /\ timeline \/ Has(commands, "OpenChannel")
      /\ \A n \in 1 .. posted : (link = "up" /\ Unsaid(feed, n)) \/ Ahead(feed, n)
                                  => n \in ui.rows \cup Pages(commands, answers, posted)

SpokenFor ==
    /\ Below(marker, Spoken) /\ (pending # NoRead => Below(pending, Spoken))
    /\ AllBelow(commands, "ReadProgress", Spoken) /\ AllBelow(answers, "ReadState", Spoken)

\* No answer tells of a failure; the list of channels comes with the markers, and a
\* lost connection is followed by another.
Flawless(a, f, l) ==
    /\ \A r \in Items(a) : /\ r.type # "HistoryFailed"
                           /\ r.type \in {"ReadState", "CatchUp", "Seed"} => r.complete = TRUE
    /\ ~Has(f, "InboxClosed")
    /\ \A i \in DOMAIN a : a[i].type = "Channels" => i + 1 \in DOMAIN a /\ a[i + 1].type = "ReadState"
    /\ \A i \in DOMAIN f : f[i].type = "Disconnected" =>
         l # "up" \/ \E j \in DOMAIN f : i < j /\ f[j].type = "Connected"

Ordered ==
    /\ Flawless(answers, feed, link)
    /\ inbox # "ended" /\ (ui.listed \/ Has(answers, "Channels") => inbox = "kept")
    /\ Asks(commands) \/ Answering(answers) => ui.markerRead

Caught == Accounted /\ Steady /\ SpokenFor /\ Ordered

NInv == faults = 0 => Caught

LEMMA HasJoin ==
  ASSUME NEW S, NEW q \in Seq(S), NEW r \in Seq(S)
  PROVE  /\ \A t : Has(q \o r, t) <=> Has(q, t) \/ Has(r, t)
         /\ Asks(q \o r) <=> Asks(q) \/ Asks(r)
         /\ Answering(q \o r) <=> Answering(q) \/ Answering(r)
         /\ \A n : Sought(q \o r, n) <=> Sought(q, n) \/ Sought(r, n)
         /\ \A n : Found(q \o r, n) <=> Found(q, n) \/ Found(r, n)
         /\ \A n : Brought(q \o r, n) <=> Brought(q, n) \/ Brought(r, n)
         /\ \A n : Unsaid(q \o r, n) <=> Unsaid(q, n) /\ Unsaid(r, n)
         /\ \A t, K : AllBelow(q \o r, t, K) <=> AllBelow(q, t, K) /\ AllBelow(r, t, K)
  <1>1. \A c : c \in Items(q \o r) <=> c \in Items(q) \/ c \in Items(r)
    BY ItemsJoin
  <1>2. \A t : Has(q \o r, t) <=> Has(q, t) \/ Has(r, t)
    BY <1>1, Zenon DEF Has
  <1>3. Asks(q \o r) <=> Asks(q) \/ Asks(r)
    BY <1>1, Zenon DEF Asks
  <1>4. Answering(q \o r) <=> Answering(q) \/ Answering(r)
    BY <1>1, Zenon DEF Answering
  <1>5. \A n : Sought(q \o r, n) <=> Sought(q, n) \/ Sought(r, n)
    BY <1>1, Zenon DEF Sought
  <1>6. \A n : Found(q \o r, n) <=> Found(q, n) \/ Found(r, n)
    BY <1>1, Zenon DEF Found
  <1>7. \A n : Brought(q \o r, n) <=> Brought(q, n) \/ Brought(r, n)
    BY <1>1, Zenon DEF Brought
  <1>8. \A n : Unsaid(q \o r, n) <=> Unsaid(q, n) /\ Unsaid(r, n)
    BY <1>1, Zenon DEF Unsaid
  <1>9. \A t, K : AllBelow(q \o r, t, K) <=> AllBelow(q, t, K) /\ AllBelow(r, t, K)
    BY <1>1, Zenon DEF AllBelow
  <1> QED
    BY <1>2, <1>3, <1>4, <1>5, <1>6, <1>7, <1>8, <1>9

\* What is left once the first record of a queue is taken.
LEMMA HasTaken ==
  ASSUME NEW S, NEW q \in Seq(S), q # <<>>, NEW c, c = Head(q)
  PROVE  /\ \A t : Has(q, t) <=> c.type = t \/ Has(Tail(q), t)
         /\ Asks(q) <=> c.type \in {"CatchUp", "Newest"} \/ Asks(Tail(q))
         /\ Answering(q) <=> c.type \in {"CatchUp", "Seed"} \/ Answering(Tail(q))
         /\ \A n : Sought(q, n) <=> \/ c.type = "Newest" \/ (c.type = "CatchUp" /\ c.since <= At[n])
                                    \/ Sought(Tail(q), n)
         /\ \A n : Found(q, n) <=> \/ c.type = "CatchUp" /\ n \in c.events
                                   \/ c.type = "Seed" /\ n <= c.latest
                                   \/ Found(Tail(q), n)
         /\ \A n : Brought(q, n) <=> \/ c.type \in {"InboxTimeline", "Timeline"} /\ c.id = n
                                     \/ Brought(Tail(q), n)
         /\ \A n : Unsaid(q, n) <=> ~Tells(c, n) /\ Unsaid(Tail(q), n)
         /\ \A t, K : AllBelow(q, t, K) <=> (c.type = t => Below(c.at, K)) /\ AllBelow(Tail(q), t, K)
  <1>1. \A r : r \in Items(q) <=> r = c \/ r \in Items(Tail(q))
    BY ItemsTaken
  <1>2. \A t : Has(q, t) <=> c.type = t \/ Has(Tail(q), t)
    BY <1>1, Zenon DEF Has
  <1>3. Asks(q) <=> c.type \in {"CatchUp", "Newest"} \/ Asks(Tail(q))
    BY <1>1, Zenon DEF Asks
  <1>4. Answering(q) <=> c.type \in {"CatchUp", "Seed"} \/ Answering(Tail(q))
    BY <1>1, Zenon DEF Answering
  <1>5. \A n : Sought(q, n) <=> \/ c.type = "Newest" \/ (c.type = "CatchUp" /\ c.since <= At[n])
                                \/ Sought(Tail(q), n)
    BY <1>1, Zenon DEF Sought
  <1>6. \A n : Found(q, n) <=> \/ c.type = "CatchUp" /\ n \in c.events
                               \/ c.type = "Seed" /\ n <= c.latest
                               \/ Found(Tail(q), n)
    BY <1>1, Zenon DEF Found
  <1>7. \A n : Brought(q, n) <=> \/ c.type \in {"InboxTimeline", "Timeline"} /\ c.id = n
                                 \/ Brought(Tail(q), n)
    BY <1>1, Zenon DEF Brought
  <1>8. \A n : Unsaid(q, n) <=> ~Tells(c, n) /\ Unsaid(Tail(q), n)
    BY <1>1, Zenon DEF Unsaid
  <1>9. \A t, K : AllBelow(q, t, K) <=> (c.type = t => Below(c.at, K)) /\ AllBelow(Tail(q), t, K)
    BY <1>1, Zenon DEF AllBelow
  <1> QED
    BY <1>2, <1>3, <1>4, <1>5, <1>6, <1>7, <1>8, <1>9

LEMMA NothingIn ==
  /\ \A t : ~Has(<<>>, t)
  /\ ~Asks(<<>>) /\ ~Answering(<<>>)
  /\ \A n : ~Sought(<<>>, n) /\ ~Found(<<>>, n) /\ ~Brought(<<>>, n)
  /\ \A t, K : AllBelow(<<>>, t, K)
  BY NoItems DEF Has, Asks, Answering, Sought, Found, Brought, AllBelow

LEMMA FlawlessTail ==
  ASSUME NEW S, NEW a \in Seq(S), a # <<>>, NEW f, NEW l, Flawless(a, f, l)
  PROVE  Flawless(Tail(a), f, l)
  <1>1. \A r \in Items(Tail(a)) : r \in Items(a)
    BY ItemsTaken
  <1>2. \A i \in DOMAIN Tail(a) : i \in Nat \ {0} /\ i + 1 \in DOMAIN a /\ Tail(a)[i] = a[i + 1]
    BY Taken
  <1>3. \A i \in DOMAIN a : i = 1 \/ (i - 1 \in DOMAIN Tail(a) /\ Tail(a)[i - 1] = a[i])
    BY Taken
  <1>4. ASSUME NEW i \in DOMAIN Tail(a), Tail(a)[i].type = "Channels"
        PROVE  i + 1 \in DOMAIN Tail(a) /\ Tail(a)[i + 1].type = "ReadState"
    <2>1. (i + 1) + 1 \in DOMAIN a /\ a[(i + 1) + 1].type = "ReadState"
      BY <1>2, <1>4 DEF Flawless
    <2>2. (i + 1) + 1 # 1 /\ ((i + 1) + 1) - 1 = i + 1
      BY <1>2
    <2> QED
      BY <1>3, <2>1, <2>2
  <1> QED
    BY <1>1, <1>4 DEF Flawless

LEMMA FlawlessFeedTail ==
  ASSUME NEW S, NEW f \in Seq(S), f # <<>>, NEW a, NEW l, Flawless(a, f, l)
  PROVE  /\ Flawless(a, Tail(f), l)
         /\ Head(f).type = "Disconnected" => l # "up" \/ Has(Tail(f), "Connected")
  <1>1. \A r \in Items(Tail(f)) : r \in Items(f)
    BY ItemsTaken
  <1>2. \A i \in DOMAIN Tail(f) : i \in Nat \ {0} /\ i + 1 \in DOMAIN f /\ Tail(f)[i] = f[i + 1]
    BY Taken
  <1>3. \A i \in DOMAIN f : i = 1 \/ (i - 1 \in DOMAIN Tail(f) /\ Tail(f)[i - 1] = f[i])
    BY Taken
  <1>31. DOMAIN f \subseteq Nat /\ 1 \in DOMAIN f /\ f[1] = Head(f)
    BY Taken
  <1>4. ASSUME NEW i \in DOMAIN Tail(f), Tail(f)[i].type = "Disconnected", l = "up"
        PROVE  \E j \in DOMAIN Tail(f) : i < j /\ Tail(f)[j].type = "Connected"
    <2>1. PICK j \in DOMAIN f : i + 1 < j /\ f[j].type = "Connected"
      BY <1>2, <1>4 DEF Flawless
    <2>2. j # 1 /\ i < j - 1
      BY <1>2, <1>31, <2>1
    <2> QED
      BY <1>3, <2>1, <2>2
  <1>5. ASSUME Head(f).type = "Disconnected", l = "up"
        PROVE  Has(Tail(f), "Connected")
    <2>1. PICK j \in DOMAIN f : 1 < j /\ f[j].type = "Connected"
      BY <1>31, <1>5 DEF Flawless
    <2>2. j - 1 \in DOMAIN Tail(f) /\ Tail(f)[j - 1].type = "Connected"
      BY <1>3, <2>1
    <2> QED
      BY <2>2 DEF Has, Items
  <1>6. ~Has(Tail(f), "InboxClosed")
    BY <1>1 DEF Flawless, Has
  <1>7. \A i \in DOMAIN Tail(f) : Tail(f)[i].type = "Disconnected" =>
          l # "up" \/ \E j \in DOMAIN Tail(f) : i < j /\ Tail(f)[j].type = "Connected"
    BY <1>4
  <1>8. Flawless(a, Tail(f), l)
    BY <1>6, <1>7 DEF Flawless
  <1> QED
    BY <1>5, <1>8

\* What every step of the interface does to the invariant, once the handler's
\* result v is sure, of K and of what the queues still owe.
LEMMA InterfaceKeeps ==
  ASSUME IInv, Caught, NEW v, Show(v),
         vouched \subseteq vouched', NEW K, K \subseteq Spoken \cup vouched' \cup v.rows,
         Sure(v, posted, K, OwedBy(link, feed', commands, answers', posted),
              Resolves(commands, answers'), Renews(link, feed', commands, answers')),
         ui.rows \subseteq v.rows, v.selected => ui.selected \/ Has(v.out, "OpenChannel"),
         ui.markerRead => v.markerRead,
         v.listed => inbox = "kept", Has(answers', "Channels") => inbox = "kept",
         Flawless(answers', feed', link),
         AllBelow(answers', "ReadState", Spoken), Answering(answers') => Answering(answers),
         \A n \in 1 .. posted : \A r \in Items(answers) :
           r.type = "History" /\ n <= r.last => r \in Items(answers') \/ n \in v.rows,
         ui.selected /\ v.selected => \A n \in 1 .. posted :
           (link = "up" /\ Unsaid(feed', n)) \/ Ahead(feed', n)
             => n \in v.rows \cup Pages(commands, answers, posted) \/ Has(v.out, "OpenChannel"),
         UNCHANGED <<link, inbox, timeline, pending, marker, posted>>
  PROVE  Caught'
  <1> DEFINE P == Pages(commands, answers, posted)
             Q == Pages(commands', answers', posted)
             L == v.rows \cup vouched' \cup Q
  <1>1. v.out \in Seq(Outs) /\ commands \in Seq(Outs) /\ DOMAIN v = Fields
    BY DEF IInv, Typed, Sure, Accounts
  <1>2. ui' = [v EXCEPT !.out = <<>>] /\ commands' = commands \o v.out
    BY DEF Show
  <1> DEFINE none == <<>>
  <1>3. none \in Seq(Outs)
    OBVIOUS
  <1>4. /\ \A t : ~Has(none, t)
        /\ ~Asks(none) /\ \A n : ~Sought(none, n)
        /\ \A t, M : AllBelow(none, t, M)
    BY NothingIn
  <1>5. ui' = [v EXCEPT !.out = none]
    BY <1>2
  <1> HIDE DEF none
  <1>6. /\ DOMAIN ui' = Fields /\ ui'.out = none
        /\ ui'.rows = v.rows /\ ui'.live = v.live /\ ui'.selected = v.selected
        /\ ui'.frontier = v.frontier /\ ui'.presented = v.presented /\ ui'.unread = v.unread
        /\ ui'.listed = v.listed /\ ui'.openedOnce = v.openedOnce
        /\ ui'.markerRead = v.markerRead /\ ui'.markerComplete = v.markerComplete
        /\ ui'.inboxFailed = v.inboxFailed /\ ui'.historyFailed = v.historyFailed
        /\ ui'.waiting = v.waiting /\ ui'.coverage = v.coverage /\ ui'.known = v.known
    BY <1>1, <1>5 DEF Fields
  <1>7. /\ \A t : Has(commands', t) <=> Has(commands, t) \/ Has(v.out, t)
        /\ Asks(commands') <=> Asks(commands) \/ Asks(v.out)
        /\ \A n : Sought(commands', n) <=> Sought(commands, n) \/ Sought(v.out, n)
        /\ \A t, M : AllBelow(commands', t, M) <=> AllBelow(commands, t, M) /\ AllBelow(v.out, t, M)
    BY <1>1, <1>2, HasJoin
  <1>8. \A n \in 1 .. posted : n \in P => n \in Q \cup v.rows
    BY <1>7 DEF Pages
  <1>9. Has(v.out, "OpenChannel") => \A n \in 1 .. posted : n \in Q
    BY <1>7 DEF Pages
  <1>10. P \subseteq 1 .. posted
    BY DEF Pages
  <1>11. Spoken = ui.rows \cup vouched \cup P
    BY DEF Spoken
  <1>12. Spoken' = L
    BY <1>6 DEF Spoken
  <1>13. Spoken \subseteq L /\ K \subseteq L
    BY <1>8, <1>10, <1>11
  <1> HIDE DEF P, Q, L
  <1> DEFINE Y == OwedBy(link, feed', commands, answers', posted)
             Z == OwedBy(link', feed', commands', answers', posted)
  <1>14. \A n \in 1 .. posted : (n \in Y => n \in Z) /\ (Sought(v.out, n) => n \in Z)
    BY <1>7 DEF OwedBy
  <1>15. Accounts(v, posted, K, Y)
    BY DEF Sure
  <1> HIDE DEF Y, Z
  <1>16. Accounts(v, posted, L, Z)
    <2>1. \A n \in (1 .. posted) \ Mine : n \in Y => n \in L \cup Z
      BY <1>14
    <2> QED
      BY <1>13, <1>15, <2>1, AccountsMore
  <1>17. Accounts(ui', posted, L, Z)
    <2>1. ui'.listed => \A n \in (1 .. posted) \ Mine :
            n \in ui'.unread \cup L \cup Z \/ ui'.waiting \/ Sought(ui'.out, n)
      BY <1>6, <1>14, <1>16 DEF Accounts
    <2> QED
      BY <1>3, <1>4, <1>6, <1>16, <2>1 DEF Accounts
  <1>18. Words(ui', Resolves(commands', answers'), Renews(link', feed', commands', answers'))
    BY <1>4, <1>6, <1>7 DEF Sure, Words, Resolves, Renews
  <1>19. Accounted'
    BY <1>12, <1>17, <1>18 DEF Accounted, Sure, Z
  <1>20. Steady'
    <2> SUFFICES ASSUME v.selected
                 PROVE  /\ timeline \/ Has(commands', "OpenChannel")
                        /\ \A n \in 1 .. posted : (link = "up" /\ Unsaid(feed', n)) \/ Ahead(feed', n)
                                                    => n \in v.rows \cup Q
      BY <1>6 DEF Steady, Q
    <2>1. CASE Has(v.out, "OpenChannel")
      BY <1>7, <1>9, <2>1
    <2>2. CASE ~Has(v.out, "OpenChannel")
      <3>1. ui.selected /\ (timeline \/ Has(commands, "OpenChannel"))
        BY <2>2 DEF Caught, Steady
      <3>2. \A n \in 1 .. posted : (link = "up" /\ Unsaid(feed', n)) \/ Ahead(feed', n)
              => n \in v.rows \cup P
        BY <2>2, <3>1 DEF P
      <3> QED
        BY <1>7, <1>8, <3>1, <3>2
    <2> QED
      BY <2>1, <2>2
  <1>21. SpokenFor'
    <2>1. /\ Below(marker, Spoken) /\ (pending # NoRead => Below(pending, Spoken))
          /\ AllBelow(commands, "ReadProgress", Spoken)
      BY DEF Caught, SpokenFor
    <2>2. Below(marker', L) /\ (pending' # NoRead => Below(pending', L))
      BY <1>13, <2>1, BelowMore
    <2>3. AllBelow(commands, "ReadProgress", L) /\ AllBelow(answers', "ReadState", L)
      BY <1>13, <2>1, BelowMore DEF AllBelow
    <2>4. AllBelow(v.out, "ReadProgress", L)
      BY <1>16 DEF Accounts
    <2>5. AllBelow(commands', "ReadProgress", L)
      BY <1>7, <2>3, <2>4
    <2> QED
      BY <1>12, <2>2, <2>3, <2>5 DEF SpokenFor
  <1>22. Ordered'
    <2>1. Asks(v.out) => v.markerRead
      BY DEF Sure, Words
    <2>2. Asks(commands') \/ Answering(answers') => v.markerRead
      BY <1>7, <2>1 DEF Caught, Ordered
    <2>3. inbox # "ended"
      BY DEF Caught, Ordered
    <2> QED
      BY <1>6, <2>2, <2>3 DEF Ordered
  <1> QED
    BY <1>19, <1>20, <1>21, <1>22 DEF Caught

LEMMA KeyStaysSure ==
  ASSUME IInv, Caught, NEW v, Show(v),
         Sure(v, posted, Spoken, OwedBy(link, feed, commands, answers, posted),
              Resolves(commands, answers), Renews(link, feed, commands, answers)),
         Extends(v, ui),
         UNCHANGED <<answers, feed, link, inbox, timeline, pending, marker, posted, vouched>>
  PROVE  Caught'
  <1> DEFINE K == Spoken
  <1>1. K \subseteq Spoken \cup vouched' \cup v.rows /\ vouched \subseteq vouched'
    OBVIOUS
  <1> HIDE DEF K
  <1>2. Sure(v, posted, K, OwedBy(link, feed', commands, answers', posted),
             Resolves(commands, answers'), Renews(link, feed', commands, answers'))
    BY DEF K
  <1>3. /\ ui.rows \subseteq v.rows /\ (v.selected => ui.selected \/ Has(v.out, "OpenChannel"))
        /\ ui.markerRead => v.markerRead
        /\ v.listed => ui.listed
    BY DEF Extends
  <1>4. /\ v.listed => inbox = "kept"
        /\ Has(answers', "Channels") => inbox = "kept"
        /\ Flawless(answers', feed', link)
        /\ AllBelow(answers', "ReadState", Spoken)
        /\ Answering(answers') => Answering(answers)
    BY <1>3 DEF Caught, Ordered, SpokenFor
  <1>5. \A n \in 1 .. posted : \A r \in Items(answers) :
          r.type = "History" /\ n <= r.last => r \in Items(answers') \/ n \in v.rows
    OBVIOUS
  <1>6. ui.selected /\ v.selected => \A n \in 1 .. posted :
          (link = "up" /\ Unsaid(feed', n)) \/ Ahead(feed', n)
            => n \in v.rows \cup Pages(commands, answers, posted) \/ Has(v.out, "OpenChannel")
    BY <1>3 DEF Caught, Steady
  <1> QED
    BY <1>1, <1>2, <1>3, <1>4, <1>5, <1>6, InterfaceKeeps

LEMMA KeysStaySure ==
  ASSUME IInv, Caught, OpenKey \/ LeaveKey \/ MoveKey \/ CoverKey \/ ReturnKey \/ Refresh \/ OtherClaim
  PROVE  Caught'
  <1> DEFINE X == OwedBy(link, feed, commands, answers, posted)
             ready == Resolves(commands, answers)
             later == Renews(link, feed, commands, answers)
             K == Spoken
             fit(v) == /\ Show(v) /\ Sure(v, posted, K, X, ready, later) /\ Extends(v, ui)
                       /\ UNCHANGED <<answers, feed, link, inbox, timeline, pending, marker,
                                      posted, vouched>>
  <1>1. posted \in 0 .. MaxMessage /\ ui.cover \in {"none", "help", "reader", "thread"}
    BY DEF IInv, Typed, WellFormed, Uis
  <1>2. Sure(ui, posted, K, X, ready, later)
    BY DEF Caught, Accounted
  <1>3. \A v : fit(v) => Caught'
    BY KeyStaysSure
  <1> HIDE DEF X, ready, later, K
  <1>4. \A v : Key(v) => /\ Show(v)
                         /\ UNCHANGED <<answers, feed, link, inbox, timeline, pending, marker,
                                        posted, vouched>>
    BY DEF Key
  <1>5. CASE OpenKey
    <2> DEFINE v == Open(ui)
    <2>1. ui.listed /\ Key(v)
      BY <1>5 DEF OpenKey
    <2>2. Sure(v, posted, K, X, ready, later) /\ Extends(v, ui)
      BY <1>1, <1>2, <2>1, SureOpen
    <2> HIDE DEF v
    <2> QED
      BY <1>3, <1>4, <2>1, <2>2
  <1>6. CASE LeaveKey
    <2> DEFINE v == Leave(ui)
    <2>1. Key(v)
      BY <1>6 DEF LeaveKey
    <2>2. Sure(v, posted, K, X, ready, later) /\ Extends(v, ui)
      BY <1>1, <1>2, SureLeave
    <2> HIDE DEF v
    <2> QED
      BY <1>3, <1>4, <2>1, <2>2
  <1>7. CASE MoveKey
    <2>1. PICK i \in {0, Newest} : Key(SetFocus(ui, i))
      BY <1>7 DEF MoveKey
    <2> DEFINE v == SetFocus(ui, i)
    <2>2. Sure(v, posted, K, X, ready, later) /\ Extends(v, ui)
      BY <1>1, <1>2, SureFocus
    <2>3. Key(v)
      BY <2>1
    <2> HIDE DEF v
    <2> QED
      BY <1>3, <1>4, <2>2, <2>3
  <1>8. CASE CoverKey
    <2>1. PICK view \in {"help", "reader", "thread"} : Key(Cover(ui, view))
      BY <1>8 DEF CoverKey
    <2> DEFINE v == Cover(ui, view)
    <2>2. Sure(v, posted, K, X, ready, later) /\ Extends(v, ui)
      BY <1>1, <1>2, SureCover
    <2>3. Key(v)
      BY <2>1
    <2> HIDE DEF v
    <2> QED
      BY <1>3, <1>4, <2>2, <2>3
  <1>9. CASE ReturnKey
    <2> DEFINE v == Return(ui)
    <2>1. ui.cover # "none" /\ Key(v)
      BY <1>9 DEF ReturnKey
    <2>2. ui.cover \in {"help", "reader", "thread"}
      BY <1>1, <2>1
    <2>3. Sure(v, posted, K, X, ready, later) /\ Extends(v, ui)
      BY <1>1, <1>2, <2>2, SureReturn
    <2> HIDE DEF v
    <2> QED
      BY <1>3, <1>4, <2>1, <2>3
  <1>10. CASE Refresh
    <2> DEFINE c == [type |-> "LoadChannels"]
               v == Push(ui, c)
    <2>1. Key(v)
      BY <1>10 DEF Refresh
    <2>2. c \in Outs /\ c.type \notin {"ReadProgress", "CatchUp", "Newest"}
      BY DEF Outs
    <2> HIDE DEF c
    <2>3. Sure(v, posted, K, X, ready, later) /\ Extends(v, ui)
      BY <1>2, <2>2, SurePush
    <2> HIDE DEF v
    <2> QED
      BY <1>3, <1>4, <2>1, <2>3
  <1>11. CASE OtherClaim
    <2> DEFINE c == [type |-> "ReadProgress", at |-> IF ui.marked THEN ui.frontier ELSE 0]
               v == Push(ui, c)
    <2>1. /\ Show(v)
          /\ UNCHANGED <<answers, feed, link, inbox, timeline, pending, marker, posted, vouched>>
      BY <1>11 DEF OtherClaim, RequestPublish
    <2>2. ui.frontier \in Second /\ Below(ui.frontier, K)
      BY <1>2 DEF Sure, Accounts
    <2>3. c \in Outs /\ Below(c.at, K) /\ c.type \notin {"CatchUp", "Newest"}
      BY <2>2, BelowNone, SecondsAreNumbers DEF Outs
    <2> HIDE DEF c
    <2>4. Sure(v, posted, K, X, ready, later) /\ Extends(v, ui)
      BY <1>2, <2>3, SurePush
    <2> HIDE DEF v
    <2> QED
      BY <1>3, <2>1, <2>4
  <1> QED
    BY <1>5, <1>6, <1>7, <1>8, <1>9, <1>10, <1>11

LEMMA HandleFeedStaysSure ==
  ASSUME IInv, Caught, HandleFeed
  PROVE  Caught'
  <1> DEFINE r == Head(feed)
             v == CASE r.type = "Connected"     -> ApplyConnected(ui)
                    [] r.type = "Disconnected"  -> ApplyDisconnected(ui)
                    [] r.type = "InboxTimeline" -> ApplyInboxTimeline(ui, r.id)
                    [] r.type = "Timeline"      -> ApplyTimeline(ui, r.id)
                    [] r.type = "InboxClosed"   -> ApplyInboxClosed(ui)
             X == OwedBy(link, feed, commands, answers, posted)
             Y == OwedBy(link, Tail(feed), commands, answers, posted)
             ready == Resolves(commands, answers)
             later == Renews(link, feed, commands, answers)
             after == Renews(link, Tail(feed), commands, answers)
             P == Pages(commands, answers, posted)
             K == IF r.type = "Timeline" /\ ui.selected THEN Spoken \cup {r.id} ELSE Spoken
  <1>1. /\ feed # <<>> /\ Show(v) /\ feed' = Tail(feed)
        /\ UNCHANGED <<answers, link, inbox, timeline, pending, marker, posted, vouched>>
    BY DEF HandleFeed
  <1>2. posted \in 0 .. MaxMessage /\ feed \in Seq(Reports(posted)) /\ posted \in Nat
    BY LogIsMessages DEF IInv, Typed
  <1>3. /\ r.type \in {"Connected", "Disconnected", "InboxClosed", "InboxTimeline", "Timeline"}
        /\ r.type \in {"InboxTimeline", "Timeline"} => r.id \in 1 .. posted
    <2>1. r \in Reports(posted)
      BY <1>1, <1>2, Taken
    <2> QED
      BY <2>1 DEF Reports
  <1>4. /\ \A t : Has(feed, t) <=> r.type = t \/ Has(Tail(feed), t)
        /\ \A n : Brought(feed, n) <=> \/ r.type \in {"InboxTimeline", "Timeline"} /\ r.id = n
                                       \/ Brought(Tail(feed), n)
        /\ \A n : Unsaid(feed, n) <=> ~Tells(r, n) /\ Unsaid(Tail(feed), n)
    BY <1>1, <1>2, HasTaken
  <1>5. \A n : Ahead(Tail(feed), n) => Ahead(feed, n) \/ Tells(r, n)
    BY <1>1, <1>2, AheadTaken
  <1>51. r.type = "Timeline" => \A n \in 1 .. posted : n <= r.id /\ n # r.id => Ahead(feed, n)
    BY <1>1, <1>2, AheadFirst
  <1>52. Flawless(answers, Tail(feed), link)
         /\ (r.type = "Disconnected" => link # "up" \/ Has(Tail(feed), "Connected"))
    BY <1>1, <1>2, FlawlessFeedTail DEF Caught, Ordered
  <1>53. r.type # "InboxClosed"
    BY <1>4 DEF Caught, Ordered, Flawless
  <1> HIDE DEF r
  <1>6. Sure(ui, posted, Spoken, X, ready, later)
    BY DEF Caught, Accounted
  <1>7. ui.selected => \A n \in 1 .. posted : (link = "up" /\ Unsaid(feed, n)) \/ Ahead(feed, n)
                         => n \in ui.rows \cup P
    BY DEF Caught, Steady
  <1>8. ui.rows \cup P \subseteq Spoken
    BY DEF Spoken
  <1>9. r.type # "Connected" => \A n \in 1 .. posted :
          n \in X => n \in Y \/ (r.type \in {"InboxTimeline", "Timeline"} /\ r.id = n)
    BY <1>4 DEF OwedBy
  <1>10. r.type # "Connected" => (later => after)
    BY <1>4 DEF Renews
  <1>11. ui.selected /\ r.type # "Connected" => \A n \in 1 .. posted :
           (link = "up" /\ Unsaid(Tail(feed), n)) \/ Ahead(Tail(feed), n)
             => n \in ui.rows \cup P \/ (r.type = "Timeline" /\ r.id = n)
    BY <1>4, <1>5, <1>7 DEF Tells
  <1>12. ui.selected /\ r.type = "InboxTimeline" => r.id \in Spoken \cup Y
    <2> SUFFICES ASSUME ui.selected, r.type = "InboxTimeline"
                 PROVE  r.id \in Spoken \cup Y
      OBVIOUS
    <2>1. r.id \in 1 .. posted /\ ~Tells(r, r.id)
      BY <1>3 DEF Tells
    <2>2. CASE link # "up"
      BY <2>1, <2>2 DEF OwedBy
    <2>3. CASE Unsaid(feed, r.id) /\ link = "up"
      BY <1>7, <1>8, <2>1, <2>3
    <2>4. CASE ~Unsaid(feed, r.id)
      <3>1. ~Unsaid(Tail(feed), r.id)
        BY <1>4, <2>1, <2>4
      <3>2. Has(Tail(feed), "Connected") \/ Brought(Tail(feed), r.id)
        BY <3>1 DEF Unsaid, Tells, Has, Brought
      <3> QED
        BY <2>1, <3>2 DEF OwedBy
    <2> QED
      BY <2>2, <2>3, <2>4
  <1>13. ui.selected /\ r.type = "Timeline" => 1 .. r.id \subseteq K
    <2> SUFFICES ASSUME ui.selected, r.type = "Timeline", NEW n \in 1 .. r.id
                 PROVE  n \in K
      OBVIOUS
    <2>1. n \in 1 .. posted /\ n <= r.id
      BY <1>2, <1>3
    <2>2. CASE n = r.id
      BY <2>2
    <2>3. CASE n # r.id
      BY <1>7, <1>8, <1>51, <2>1, <2>3
    <2> QED
      BY <2>2, <2>3
  <1>14. Sure(ui, posted, K, X, ready, later)
    <2>1. Spoken \subseteq K
      OBVIOUS
    <2>2. Accounts(ui, posted, K, X)
      BY <1>6, <2>1, AccountsMore DEF Sure
    <2> QED
      BY <1>6, <2>2 DEF Sure
  <1>15. r.type = "InboxTimeline" => r.id \in K \cup Y \/ ~ui.selected
    BY <1>12
  <1>16. r.type = "Timeline" /\ ui.selected => K \subseteq Spoken \cup {r.id}
    OBVIOUS
  <1>17. ~(r.type = "Timeline" /\ ui.selected) => K = Spoken
    OBVIOUS
  <1> HIDE DEF K, X, Y, ready, later, after, P
  <1>20. Sure(v, posted, K, Y, ready, after) /\ Extends(v, ui)
         /\ (r.type = "Connected" /\ v.selected => Has(v.out, "OpenChannel"))
         /\ (r.type = "Timeline" /\ ui.selected => r.id \in v.rows)
    <2>1. CASE r.type = "Connected"
      <3>1. v = ApplyConnected(ui)
        BY <2>1
      <3> HIDE DEF v
      <3>2. Sure(v, posted, K, Y, ready, after) /\ Extends(v, ui)
            /\ (v.selected => Has(v.out, "OpenChannel"))
        BY <1>2, <1>14, <3>1, SureConnected
      <3> QED
        BY <2>1, <3>2
    <2>2. CASE r.type = "Disconnected"
      <3>1. v = ApplyDisconnected(ui)
        BY <2>2
      <3> HIDE DEF v
      <3>2. after
        BY <1>52, <2>2 DEF after, Renews
      <3>3. Accounts(ui, posted, K, Y)
        <4>1. \A n \in (1 .. posted) \ Mine : n \in X => n \in K \cup Y
          BY <1>9, <2>2
        <4> QED
          BY <1>14, <4>1, AccountsMore DEF Sure
      <3>4. Sure(ui, posted, K, Y, ready, after)
        BY <1>10, <1>14, <2>2, <3>3 DEF Sure, Words
      <3>5. Sure(v, posted, K, Y, ready, after) /\ Extends(v, ui)
        BY <3>1, <3>2, <3>4, SureDisconnected
      <3> QED
        BY <2>2, <3>5
    <2>3. CASE r.type = "InboxTimeline"
      <3>1. v = ApplyInboxTimeline(ui, r.id)
        BY <2>3
      <3> HIDE DEF v
      <3>2. Sure(ui, posted, K, X, ready, after)
        BY <1>10, <1>14, <2>3 DEF Sure, Words
      <3> DEFINE m == r.id
                 M == {m}
      <3>3. Leaves(posted, X, M, K, Y) /\ v = ApplyInboxTimeline(ui, m)
            /\ (ui.selected => m \in K \cup Y)
        BY <1>9, <1>15, <2>3, <3>1 DEF Leaves
      <3>31. M = {m}
        OBVIOUS
      <3> HIDE DEF m, M
      <3>4. Sure(v, posted, K, Y, ready, after) /\ Extends(v, ui)
        BY <1>2, <3>2, <3>3, <3>31, SureInboxTimeline
      <3> QED
        BY <2>3, <3>4
    <2>4. CASE r.type = "Timeline"
      <3>1. v = ApplyTimeline(ui, r.id)
        BY <2>4
      <3> HIDE DEF v
      <3>2. Sure(ui, posted, K, X, ready, after)
        BY <1>10, <1>14, <2>4 DEF Sure, Words
      <3> DEFINE m == r.id
                 M == {m}
      <3>3. Leaves(posted, X, M, K, Y) /\ v = ApplyTimeline(ui, m)
        BY <1>9, <2>4, <3>1 DEF Leaves
      <3>31. M = {m}
        OBVIOUS
      <3>4. m \in 1 .. posted /\ (ui.selected => 1 .. m \subseteq K)
        BY <1>3, <1>13, <2>4
      <3> HIDE DEF m, M
      <3>5. Sure(v, posted, K, Y, ready, after) /\ Extends(v, ui)
            /\ (ui.selected => m \in v.rows)
        BY <1>2, <3>2, <3>3, <3>31, <3>4, SureTimeline
      <3> QED
        BY <2>4, <3>5 DEF m
    <2> QED
      BY <1>3, <1>53, <2>1, <2>2, <2>3, <2>4
  <1> HIDE DEF v
  <1>21. vouched \subseteq vouched' /\ K \subseteq Spoken \cup vouched' \cup v.rows
    BY <1>1, <1>16, <1>17, <1>20
  <1>22. Sure(v, posted, K, OwedBy(link, feed', commands, answers', posted),
              Resolves(commands, answers'), Renews(link, feed', commands, answers'))
    BY <1>1, <1>20 DEF Y, ready, after
  <1>23. /\ ui.rows \subseteq v.rows /\ (v.selected => ui.selected \/ Has(v.out, "OpenChannel"))
         /\ ui.markerRead => v.markerRead
         /\ v.listed => ui.listed
    BY <1>20 DEF Extends
  <1>24. /\ v.listed => inbox = "kept"
         /\ Has(answers', "Channels") => inbox = "kept"
         /\ Flawless(answers', feed', link)
         /\ AllBelow(answers', "ReadState", Spoken)
         /\ Answering(answers') => Answering(answers)
    BY <1>1, <1>23, <1>52 DEF Caught, Ordered, SpokenFor
  <1>25. \A n \in 1 .. posted : \A c \in Items(answers) :
           c.type = "History" /\ n <= c.last => c \in Items(answers') \/ n \in v.rows
    BY <1>1
  <1>26. ui.selected /\ v.selected => \A n \in 1 .. posted :
           (link = "up" /\ Unsaid(feed', n)) \/ Ahead(feed', n)
             => n \in v.rows \cup Pages(commands, answers, posted) \/ Has(v.out, "OpenChannel")
    BY <1>1, <1>11, <1>20, <1>23 DEF P
  <1> QED
    BY <1>1, <1>21, <1>22, <1>23, <1>24, <1>25, <1>26, InterfaceKeeps

LEMMA HandleAnswerStaysSure ==
  ASSUME IInv, Caught, HandleAnswer
  PROVE  Caught'
  <1> DEFINE a == Head(answers)
             rest == Tail(answers)
             v == CASE a.type = "Channels"  -> ApplyChannels(ui)
                    [] a.type = "ReadState" -> ApplyReadState(ui, a.complete, a.at)
                    [] a.type = "CatchUp"   -> ApplyCatchUp(ui, a.events, a.complete)
                    [] a.type = "Seed"      -> ApplySeed(ui, a.latest, a.complete)
                    [] a.type = "History"   -> ApplyHistory(ui, a.last)
                    [] a.type = "HistoryFailed" -> ApplyHistoryFailed(ui)
             X == OwedBy(link, feed, commands, answers, posted)
             Y == OwedBy(link, feed, commands, rest, posted)
             ready == Resolves(commands, answers)
             still == Resolves(commands, rest)
             later == Renews(link, feed, commands, answers)
             after == Renews(link, feed, commands, rest)
             K == Spoken \cup vouched'
  <1>1. /\ answers # <<>> /\ Show(v) /\ answers' = rest
        /\ vouched' = IF a.type = "Seed" /\ a.complete THEN vouched \cup 1 .. a.latest ELSE vouched
        /\ UNCHANGED <<inbox, timeline, pending, marker, feed, link, posted>>
    BY DEF HandleAnswer
  <1>2. posted \in 0 .. MaxMessage /\ answers \in Seq(Answers(posted)) /\ heads \in BOOLEAN
    BY DEF IInv, Typed
  <1>3. /\ a.type \in {"Channels", "HistoryFailed", "ReadState", "CatchUp", "Seed", "History"}
        /\ a.type = "ReadState" => a.complete \in BOOLEAN /\ a.at \in Second
        /\ a.type = "CatchUp" => a.events \in SUBSET (1 .. posted)
        /\ a.type = "Seed" => a.latest \in 0 .. posted
        /\ a.type = "History" => a.last \in 0 .. posted
    <2>1. a \in Answers(posted)
      BY <1>1, <1>2, Taken
    <2> QED
      BY <2>1, AnswerKinds
  <1>4. /\ \A t : Has(answers, t) <=> a.type = t \/ Has(rest, t)
        /\ Answering(answers) <=> a.type \in {"CatchUp", "Seed"} \/ Answering(rest)
        /\ \A n : Found(answers, n) <=> \/ a.type = "CatchUp" /\ n \in a.events
                                        \/ a.type = "Seed" /\ n <= a.latest
                                        \/ Found(rest, n)
        /\ \A t, M : AllBelow(answers, t, M) <=> (a.type = t => Below(a.at, M)) /\ AllBelow(rest, t, M)
    BY <1>1, <1>2, HasTaken
  <1>5. a \in Items(answers) /\ \A r \in Items(answers) : r = a \/ r \in Items(rest)
    BY <1>1, <1>2, ItemsTaken
  <1>6. /\ a.type # "HistoryFailed"
        /\ a.type \in {"ReadState", "CatchUp", "Seed"} => a.complete = TRUE
    BY <1>5 DEF Caught, Ordered, Flawless
  <1>7. Flawless(rest, feed, link)
    BY <1>1, <1>2, FlawlessTail DEF Caught, Ordered
  <1>8. a.type = "Channels" => Has(rest, "ReadState")
    <2> SUFFICES ASSUME a.type = "Channels"
                 PROVE  Has(rest, "ReadState")
      OBVIOUS
    <2>1. 1 \in DOMAIN answers /\ answers[1] = a
      BY <1>1, <1>2, Taken
    <2>2. 1 + 1 \in DOMAIN answers /\ answers[1 + 1].type = "ReadState"
      BY <2>1 DEF Caught, Ordered, Flawless
    <2>3. \A i \in DOMAIN answers : i = 1 \/ (i - 1 \in DOMAIN rest /\ rest[i - 1] = answers[i])
      BY <1>1, <1>2, Taken
    <2>4. 1 \in DOMAIN rest /\ rest[1] = answers[1 + 1]
      BY <2>2, <2>3
    <2> QED
      BY <2>2, <2>4 DEF Has, Items
  <1>9. a.type = "History" => Fetched(ui) \subseteq 1 .. a.last
    <2>1. 1 \in DOMAIN answers /\ answers[1] = a
      BY <1>1, <1>2, Taken
    <2> QED
      BY <2>1 DEF IInv, HistoriesGrow, Fetched
  <1>10. a.type = "ReadState" => Below(a.at, Spoken)
    <2>1. AllBelow(answers, "ReadState", Spoken)
      BY DEF Caught, SpokenFor
    <2> QED
      BY <1>4, <2>1
  <1>11. a.type = "History" => 1 .. a.last \subseteq Spoken
    <2> SUFFICES ASSUME a.type = "History", NEW n \in 1 .. a.last
                 PROVE  n \in Spoken
      OBVIOUS
    <2>1. n \in 1 .. posted /\ n <= a.last
      BY <1>2, <1>3, LogIsMessages
    <2>2. n \in Pages(commands, answers, posted)
      BY <1>5, <2>1 DEF Pages
    <2> QED
      BY <2>2 DEF Spoken
  <1>12. a.type = "Seed" => 1 .. a.latest \subseteq vouched'
    BY <1>1, <1>6
  <1>13. vouched \subseteq vouched'
    BY <1>1
  <1>14. a.type = "Seed" => ui.markerRead
    BY <1>4 DEF Caught, Ordered
  <1>15. /\ a.type = "Channels"  => v = ApplyChannels(ui)
         /\ a.type = "ReadState" => v = ApplyReadState(ui, a.complete, a.at)
         /\ a.type = "CatchUp"   => v = ApplyCatchUp(ui, a.events, a.complete)
         /\ a.type = "Seed"      => v = ApplySeed(ui, a.latest, a.complete)
         /\ a.type = "History"   => v = ApplyHistory(ui, a.last)
    OBVIOUS
  <1> HIDE DEF a, v, rest
  <1>16. Sure(ui, posted, Spoken, X, ready, later)
    BY DEF Caught, Accounted
  <1>17. \A n \in 1 .. posted : n \in X => \/ n \in Y
                                           \/ a.type = "CatchUp" /\ n \in a.events
                                           \/ a.type = "Seed" /\ n <= a.latest
    BY <1>4 DEF OwedBy
  <1>18. a.type \notin {"CatchUp", "Seed"} => (later => after)
    BY <1>4 DEF Renews
  <1>19. a.type # "ReadState" => (ready => still)
    BY <1>4 DEF Resolves
  <1>20. a.type = "Channels" => still
    BY <1>8 DEF Resolves
  <1>21. Spoken \subseteq K /\ vouched' \subseteq K
    OBVIOUS
  <1> HIDE DEF K, X, Y, ready, still, later, after
  <1>22. Sure(ui, posted, K, X, ready, later)
    <2>1. Accounts(ui, posted, K, X)
      BY <1>16, <1>21, AccountsMore DEF Sure
    <2> QED
      BY <1>16, <2>1 DEF Sure
  <1>23. a.type \notin {"CatchUp", "Seed"} => Sure(ui, posted, K, Y, ready, after)
    <2> SUFFICES ASSUME a.type \notin {"CatchUp", "Seed"}
                 PROVE  Sure(ui, posted, K, Y, ready, after)
      OBVIOUS
    <2>1. \A n \in (1 .. posted) \ Mine : n \in X => n \in K \cup Y
      BY <1>17
    <2>2. Accounts(ui, posted, K, Y)
      BY <1>22, <2>1, AccountsMore DEF Sure
    <2>3. Words(ui, ready, after)
      BY <1>18, <1>22 DEF Sure, Words
    <2> QED
      BY <2>2, <2>3 DEF Sure
  <1>24. /\ Sure(v, posted, K, Y, still, after)
         /\ ui.rows \subseteq v.rows /\ (v.selected => ui.selected \/ Has(v.out, "OpenChannel"))
         /\ ui.markerRead => v.markerRead
         /\ v.listed => ui.listed \/ a.type = "Channels"
         /\ a.type = "History" => 1 .. a.last \subseteq v.rows
    <2> DEFINE complete == a.complete
    <2>1. CASE a.type = "Channels"
      <3>1. v = ApplyChannels(ui) /\ still
        BY <1>15, <1>20, <2>1
      <3>2. Sure(ui, posted, K, Y, still, after)
        BY <1>19, <1>23, <2>1 DEF Sure, Words
      <3>3. /\ Sure(v, posted, K, Y, still, after)
            /\ ui.rows \subseteq v.rows /\ (v.selected => ui.selected \/ Has(v.out, "OpenChannel"))
            /\ ui.markerRead => v.markerRead
        BY <1>2, <3>1, <3>2, SureChannels
      <3> QED
        BY <2>1, <3>3
    <2>2. CASE a.type = "ReadState"
      <3> DEFINE at == a.at
      <3>1. v = ApplyReadState(ui, complete, at) /\ complete = TRUE /\ at \in Second
        BY <1>3, <1>6, <1>15, <2>2
      <3>2. Below(at, K)
        BY <1>10, <1>21, <2>2, BelowMore
      <3>3. Sure(ui, posted, K, Y, ready, after)
        BY <1>23, <2>2
      <3> HIDE DEF at, complete
      <3>4. Sure(v, posted, K, Y, still, after) /\ Extends(v, ui)
        BY <1>2, <3>1, <3>2, <3>3, SureReadState
      <3> QED
        BY <2>2, <3>4 DEF Extends
    <2>3. CASE a.type = "CatchUp"
      <3> DEFINE M == a.events
      <3>1. v = ApplyCatchUp(ui, M, complete) /\ complete = TRUE
        BY <1>6, <1>15, <2>3
      <3>2. Leaves(posted, X, M, K, Y)
        BY <1>17, <2>3 DEF Leaves
      <3> HIDE DEF M, complete
      <3>3. Sure(v, posted, K, Y, ready, after) /\ Extends(v, ui)
        BY <1>2, <1>22, <3>1, <3>2, SureCatchUp
      <3>4. Sure(v, posted, K, Y, still, after)
        BY <1>19, <2>3, <3>3 DEF Sure, Words
      <3> QED
        BY <2>3, <3>3, <3>4 DEF Extends
    <2>4. CASE a.type = "Seed"
      <3> DEFINE latest == a.latest
      <3>1. /\ v = ApplySeed(ui, latest, complete) /\ complete = TRUE /\ latest \in 0 .. posted
            /\ ui.markerRead
        BY <1>3, <1>6, <1>14, <1>15, <2>4
      <3> DEFINE M == 1 .. latest
      <3>2. M \subseteq K
        BY <1>12, <1>21, <2>4
      <3>3. Leaves(posted, X, M, K, Y)
        <4>1. \A n \in 1 .. posted : n <= latest => n \in M
          BY <1>2, <3>1, LogIsMessages
        <4> QED
          BY <1>17, <2>4, <4>1 DEF Leaves
      <3>31. M = 1 .. latest
        OBVIOUS
      <3> HIDE DEF latest, complete, M
      <3>4. Sure(v, posted, K, Y, ready, after) /\ Extends(v, ui)
        BY <1>2, <1>22, <3>1, <3>2, <3>3, <3>31, SureSeed
      <3>5. Sure(v, posted, K, Y, still, after)
        BY <1>19, <2>4, <3>4 DEF Sure, Words
      <3> QED
        BY <2>4, <3>4, <3>5 DEF Extends
    <2>5. CASE a.type = "History"
      <3> DEFINE last == a.last
      <3>1. v = ApplyHistory(ui, last) /\ last \in 0 .. posted /\ Fetched(ui) \subseteq 1 .. last
        BY <1>3, <1>9, <1>15, <2>5
      <3>2. 1 .. last \subseteq K
        BY <1>11, <1>21, <2>5
      <3>3. Sure(ui, posted, K, Y, ready, after)
        BY <1>23, <2>5
      <3> HIDE DEF last
      <3>4. Sure(v, posted, K, Y, ready, after) /\ Extends(v, ui) /\ 1 .. last \subseteq v.rows
        BY <1>2, <3>1, <3>2, <3>3, SureHistory
      <3>5. Sure(v, posted, K, Y, still, after)
        BY <1>19, <2>5, <3>4 DEF Sure, Words
      <3> QED
        BY <2>5, <3>4, <3>5 DEF Extends, last
    <2> QED
      BY <1>3, <1>6, <2>1, <2>2, <2>3, <2>4, <2>5
  <1>25. K \subseteq Spoken \cup vouched' \cup v.rows
    BY DEF K
  <1>26. Sure(v, posted, K, OwedBy(link, feed', commands, answers', posted),
              Resolves(commands, answers'), Renews(link, feed', commands, answers'))
    BY <1>1, <1>24 DEF Y, still, after
  <1>27. /\ v.listed => inbox = "kept"
         /\ Has(answers', "Channels") => inbox = "kept"
         /\ Flawless(answers', feed', link)
         /\ AllBelow(answers', "ReadState", Spoken)
         /\ Answering(answers') => Answering(answers)
    BY <1>1, <1>4, <1>7, <1>24 DEF Caught, Ordered, SpokenFor
  <1>28. \A n \in 1 .. posted : \A r \in Items(answers) :
           r.type = "History" /\ n <= r.last => r \in Items(answers') \/ n \in v.rows
    <2> SUFFICES ASSUME NEW n \in 1 .. posted, a.type = "History", n <= a.last
                 PROVE  n \in v.rows
      BY <1>1, <1>5
    <2>1. n \in 1 .. a.last
      BY <1>2, <1>3, LogIsMessages
    <2> QED
      BY <1>24, <2>1
  <1>29. ui.selected /\ v.selected => \A n \in 1 .. posted :
           (link = "up" /\ Unsaid(feed', n)) \/ Ahead(feed', n)
             => n \in v.rows \cup Pages(commands, answers, posted) \/ Has(v.out, "OpenChannel")
    BY <1>1, <1>24 DEF Caught, Steady
  <1> QED
    BY <1>1, <1>13, <1>24, <1>25, <1>26, <1>27, <1>28, <1>29, InterfaceKeeps
-----------------------------------------------------------------------------
(* The steps of the command pump that succeed.                             *)

LEMMA FlawlessJoin ==
  ASSUME NEW S, NEW a \in Seq(S), NEW r \in Seq(S), NEW T, NEW f \in Seq(T), NEW s \in Seq(T),
         NEW l, Flawless(a, f, l), Flawless(r, s, l)
  PROVE  Flawless(a \o r, f \o s, l)
  <1> DEFINE b == a \o r
             g == f \o s
  <1>1. /\ \A c : c \in Items(b) <=> c \in Items(a) \/ c \in Items(r)
        /\ \A c : c \in Items(g) <=> c \in Items(f) \/ c \in Items(s)
    BY ItemsJoin
  <1>2. /\ Len(a) \in Nat /\ DOMAIN a = 1 .. Len(a) /\ DOMAIN r = 1 .. Len(r)
        /\ Len(f) \in Nat /\ DOMAIN f = 1 .. Len(f) /\ DOMAIN s = 1 .. Len(s)
        /\ Len(r) \in Nat /\ Len(s) \in Nat
    OBVIOUS
  <1>3. /\ \A i \in DOMAIN a : i \in DOMAIN b /\ b[i] = a[i]
        /\ \A i \in DOMAIN r : Len(a) + i \in DOMAIN b /\ b[Len(a) + i] = r[i]
        /\ \A i \in DOMAIN b : i \in DOMAIN a \/ (i - Len(a) \in DOMAIN r /\ b[i] = r[i - Len(a)])
    BY Joined
  <1>4. /\ \A i \in DOMAIN f : i \in DOMAIN g /\ g[i] = f[i]
        /\ \A i \in DOMAIN s : Len(f) + i \in DOMAIN g /\ g[Len(f) + i] = s[i]
        /\ \A i \in DOMAIN g : i \in DOMAIN f \/ (i - Len(f) \in DOMAIN s /\ g[i] = s[i - Len(f)])
    BY Joined
  <1>41. DOMAIN b \subseteq Int /\ DOMAIN g \subseteq Int
    OBVIOUS
  <1> HIDE DEF b, g
  <1>5. ASSUME NEW i \in DOMAIN b, b[i].type = "Channels"
        PROVE  i + 1 \in DOMAIN b /\ b[i + 1].type = "ReadState"
    <2>1. CASE i \in DOMAIN a
      <3>1. i + 1 \in DOMAIN a /\ a[i + 1].type = "ReadState"
        BY <1>3, <1>5, <2>1 DEF Flawless
      <3> QED
        BY <1>3, <3>1
    <2>2. CASE i - Len(a) \in DOMAIN r /\ b[i] = r[i - Len(a)]
      <3> DEFINE k == i - Len(a)
      <3>1. k + 1 \in DOMAIN r /\ r[k + 1].type = "ReadState"
        BY <1>5, <2>2 DEF Flawless
      <3>2. Len(a) + (k + 1) = i + 1
        BY <1>2, <1>41
      <3> HIDE DEF k
      <3>3. Len(a) + (k + 1) \in DOMAIN b /\ b[Len(a) + (k + 1)] = r[k + 1]
        BY <1>3, <3>1
      <3> QED
        BY <3>1, <3>2, <3>3
    <2> QED
      BY <1>3, <2>1, <2>2
  <1>6. ASSUME NEW i \in DOMAIN g, g[i].type = "Disconnected", l = "up"
        PROVE  \E j \in DOMAIN g : i < j /\ g[j].type = "Connected"
    <2>1. CASE i \in DOMAIN f
      <3>1. PICK j \in DOMAIN f : i < j /\ f[j].type = "Connected"
        BY <1>4, <1>6, <2>1 DEF Flawless
      <3> QED
        BY <1>4, <3>1
    <2>2. CASE i - Len(f) \in DOMAIN s /\ g[i] = s[i - Len(f)]
      <3>1. PICK j \in DOMAIN s : i - Len(f) < j /\ s[j].type = "Connected"
        BY <1>6, <2>2 DEF Flawless
      <3>2. i < Len(f) + j
        BY <1>2, <1>41, <3>1
      <3> QED
        BY <1>4, <3>1, <3>2
    <2> QED
      BY <1>4, <2>1, <2>2
  <1>7. \A c \in Items(b) : /\ c.type # "HistoryFailed"
                            /\ c.type \in {"ReadState", "CatchUp", "Seed"} => c.complete = TRUE
    BY <1>1 DEF Flawless
  <1>8. ~Has(g, "InboxClosed")
    BY <1>1 DEF Flawless, Has
  <1>9. Flawless(b, g, l)
    BY <1>5, <1>6, <1>7, <1>8 DEF Flawless
  <1> QED
    BY <1>9 DEF b, g

LEMMA WorldKeeps ==
  ASSUME IInv, Caught, UNCHANGED <<ui, posted>>, Spoken \subseteq Spoken',
         Leaves(posted, OwedBy(link, feed, commands, answers, posted), Spoken', Spoken',
                OwedBy(link', feed', commands', answers', posted)),
         Resolves(commands, answers) => Resolves(commands', answers'),
         Renews(link, feed, commands, answers) => Renews(link', feed', commands', answers'),
         Steady', SpokenFor', Ordered'
  PROVE  Caught'
  <1> DEFINE X == OwedBy(link, feed, commands, answers, posted)
             Y == OwedBy(link', feed', commands', answers', posted)
             ready == Resolves(commands, answers)
             still == Resolves(commands', answers')
             later == Renews(link, feed, commands, answers)
             after == Renews(link', feed', commands', answers')
             K == Spoken
             L == Spoken'
  <1>1. Sure(ui, posted, K, X, ready, later)
    BY DEF Caught, Accounted
  <1>2. \A n \in (1 .. posted) \ Mine : n \in X => n \in L \cup Y
    BY DEF Leaves
  <1>3. K \subseteq L /\ (ready => still) /\ (later => after)
    OBVIOUS
  <1> HIDE DEF X, Y, K, L, ready, still, later, after
  <1>4. Accounts(ui, posted, L, Y)
    BY <1>1, <1>2, <1>3, AccountsMore DEF Sure
  <1>5. Words(ui, still, after)
    BY <1>1, <1>3 DEF Sure, Words
  <1>6. Sure(ui, posted, L, Y, still, after)
    BY <1>4, <1>5 DEF Sure
  <1>7. Accounted'
    BY <1>6 DEF Accounted, L, Y, still, after
  <1> QED
    BY <1>7 DEF Caught

\* The records r answer the commands that c holds and d does not.
Settles(c, d, r, p) ==
    /\ Has(c, "LoadChannels") => Has(d, "LoadChannels") \/ Has(r, "ReadState")
    /\ Has(c, "OpenChannel") =>
         \/ Has(d, "OpenChannel")
         \/ \A n \in 1 .. p : \E x \in Items(r) : x.type = "History" /\ n <= x.last
    /\ \A n \in 1 .. p : Sought(c, n) => Sought(d, n) \/ Found(r, n)
    /\ Asks(c) => Asks(d) \/ Answering(r)
    /\ Asks(d) \/ Answering(r) => Asks(c)
    /\ \A K : AllBelow(c, "ReadProgress", K) => AllBelow(d, "ReadProgress", K)

\* What the reports s bring ahead of a message is no later than a page to come.
Overtakes(s, p, P) == \A n \in 1 .. p : Ahead(s, n) => n \in P

LEMMA PumpStaysSure ==
  ASSUME IInv, Caught, NEW r \in Seq(Answers(posted)), answers' = answers \o r,
         NEW s \in Seq(Reports(posted)), feed' = feed \o s,
         Settles(commands, commands', r, posted), Flawless(r, s, link),
         AllBelow(r, "ReadState", Spoken),
         Overtakes(s, posted, Pages(commands', answers', posted)),
         inbox' = "kept" \/ (inbox' = inbox /\ ~Has(r, "Channels")),
         \/ timeline' = TRUE
         \/ timeline' = timeline /\ (Has(commands, "OpenChannel") => Has(commands', "OpenChannel")),
         Below(marker', Spoken), pending' # NoRead => Below(pending', Spoken),
         UNCHANGED <<ui, link, posted, vouched>>
  PROVE  Caught'
  <1> DEFINE P == Pages(commands, answers, posted)
             Q == Pages(commands', answers', posted)
  <1>1. answers \in Seq(Answers(posted)) /\ feed \in Seq(Reports(posted))
    BY DEF IInv, Typed
  <1>2. /\ \A t : Has(answers', t) <=> Has(answers, t) \/ Has(r, t)
        /\ Answering(answers') <=> Answering(answers) \/ Answering(r)
        /\ \A n : Found(answers', n) <=> Found(answers, n) \/ Found(r, n)
        /\ \A t, K : AllBelow(answers', t, K) <=> AllBelow(answers, t, K) /\ AllBelow(r, t, K)
    BY <1>1, HasJoin
  <1>3. /\ \A t : Has(feed', t) <=> Has(feed, t) \/ Has(s, t)
        /\ \A n : Brought(feed', n) <=> Brought(feed, n) \/ Brought(s, n)
        /\ \A n : Unsaid(feed', n) <=> Unsaid(feed, n) /\ Unsaid(s, n)
    BY <1>1, HasJoin
  <1>4. \A n : Ahead(feed', n) => Ahead(feed, n) \/ Ahead(s, n)
    BY <1>1, AheadJoins
  <1>5. \A x : x \in Items(answers') <=> x \in Items(answers) \/ x \in Items(r)
    BY <1>1, ItemsJoin
  <1>6. P \subseteq Q
    <2> SUFFICES ASSUME NEW n \in P
                 PROVE  n \in Q
      OBVIOUS
    <2>1. n \in 1 .. posted
      BY DEF Pages
    <2>2. CASE Has(commands, "OpenChannel")
      <3>1. Has(commands', "OpenChannel") \/ \E x \in Items(r) : x.type = "History" /\ n <= x.last
        BY <2>1, <2>2 DEF Settles
      <3> QED
        BY <1>5, <2>1, <3>1 DEF Pages
    <2>3. CASE ~Has(commands, "OpenChannel")
      <3>1. \E x \in Items(answers) : x.type = "History" /\ n <= x.last
        BY <2>3 DEF Pages
      <3> QED
        BY <1>5, <2>1, <3>1 DEF Pages
    <2> QED
      BY <2>2, <2>3
  <1>7. Spoken = ui.rows \cup vouched \cup P /\ Spoken' = ui.rows \cup vouched \cup Q
    BY DEF Spoken
  <1> HIDE DEF P, Q
  <1>8. Spoken \subseteq Spoken'
    BY <1>6, <1>7
  <1> DEFINE K == Spoken
             L == Spoken'
  <1>9. Leaves(posted, OwedBy(link, feed, commands, answers, posted), L, L,
               OwedBy(link', feed', commands', answers', posted))
    <2> DEFINE X == OwedBy(link, feed, commands, answers, posted)
               Y == OwedBy(link', feed', commands', answers', posted)
    <2>1. \A n \in 1 .. posted : n \in X => n \in Y
      BY <1>2, <1>3 DEF OwedBy, Settles
    <2> HIDE DEF X, Y
    <2>2. Leaves(posted, X, L, L, Y)
      BY <2>1 DEF Leaves
    <2> QED
      BY <2>2 DEF X, Y
  <1>10. /\ Resolves(commands, answers) => Resolves(commands', answers')
         /\ Renews(link, feed, commands, answers) => Renews(link', feed', commands', answers')
    BY <1>2, <1>3 DEF Resolves, Renews, Settles
  <1>11. Steady'
    <2> SUFFICES ASSUME ui.selected
                 PROVE  /\ timeline' \/ Has(commands', "OpenChannel")
                        /\ \A n \in 1 .. posted : (link = "up" /\ Unsaid(feed', n)) \/ Ahead(feed', n)
                                                    => n \in ui.rows \cup Q
      BY DEF Steady, Q
    <2>1. timeline' \/ Has(commands', "OpenChannel")
      BY DEF Caught, Steady
    <2>2. \A n \in 1 .. posted : (link = "up" /\ Unsaid(feed, n)) \/ Ahead(feed, n)
            => n \in ui.rows \cup P
      BY DEF Caught, Steady, P
    <2>3. \A n \in 1 .. posted : Ahead(s, n) => n \in Q
      BY DEF Overtakes, Q
    <2> QED
      BY <1>3, <1>4, <1>6, <2>1, <2>2, <2>3
  <1>12. SpokenFor'
    <2>1. AllBelow(commands', "ReadProgress", K) /\ AllBelow(answers', "ReadState", K)
      BY <1>2 DEF Settles, Caught, SpokenFor
    <2>2. Below(marker', K) /\ (pending' # NoRead => Below(pending', K)) /\ K \subseteq L
      BY <1>8
    <2> HIDE DEF K, L
    <2>3. AllBelow(commands', "ReadProgress", L) /\ AllBelow(answers', "ReadState", L)
      BY <2>1, <2>2, BelowMore DEF AllBelow
    <2>4. Below(marker', L) /\ (pending' # NoRead => Below(pending', L))
      BY <2>2, BelowMore
    <2> QED
      BY <2>3, <2>4 DEF SpokenFor, L
  <1>13. Ordered'
    <2>1. Flawless(answers', feed', link)
      BY <1>1, FlawlessJoin DEF Caught, Ordered
    <2>2. Asks(commands') \/ Answering(answers') => ui.markerRead
      BY <1>2 DEF Caught, Ordered, Settles
    <2>3. inbox' # "ended" /\ (ui.listed \/ Has(answers', "Channels") => inbox' = "kept")
      BY <1>2 DEF Caught, Ordered
    <2> QED
      BY <2>1, <2>2, <2>3 DEF Ordered
  <1> HIDE DEF K, L
  <1> QED
    BY <1>8, <1>9, <1>10, <1>11, <1>12, <1>13, WorldKeeps DEF L

\* Reports that only bring messages, after answers without a fault.
Brings(s) == \A x \in Items(s) : x.type \in {"InboxTimeline", "Timeline"}

LEMMA FlawlessOne ==
  ASSUME NEW c, c.type \notin {"HistoryFailed", "Channels"},
         c.type \in {"ReadState", "CatchUp", "Seed"} => c.complete = TRUE,
         NEW s, Brings(s), NEW l
  PROVE  Flawless(<<c>>, s, l)
  <1> DEFINE q == <<c>>
  <1>1. Items(q) = {c} /\ DOMAIN q = {1} /\ q[1] = c
    BY OneItem
  <1> HIDE DEF q
  <1>2. ~Has(s, "InboxClosed") /\ \A i \in DOMAIN s : s[i].type # "Disconnected"
    BY DEF Brings, Has, Items
  <1>3. Flawless(q, s, l)
    BY <1>1, <1>2 DEF Flawless
  <1> QED
    BY <1>3 DEF q

LEMMA FlawlessTwo ==
  ASSUME NEW a, NEW b, a.type = "Channels", b.type = "ReadState", b.complete = TRUE,
         NEW s, Brings(s), NEW l
  PROVE  /\ Flawless(<<a, b>>, s, l)
         /\ Items(<<a, b>>) = {a, b}
  <1> DEFINE q == <<a, b>>
  <1>1. DOMAIN q = {1, 2} /\ q[1] = a /\ q[2] = b /\ 1 + 1 = 2
    OBVIOUS
  <1> HIDE DEF q
  <1>2. Items(q) = {a, b}
    BY <1>1 DEF Items
  <1>3. ~Has(s, "InboxClosed") /\ \A i \in DOMAIN s : s[i].type # "Disconnected"
    BY DEF Brings, Has, Items
  <1>4. \A i \in DOMAIN q : q[i].type = "Channels" => i + 1 \in DOMAIN q /\ q[i + 1].type = "ReadState"
    BY <1>1
  <1>5. Flawless(q, s, l)
    BY <1>2, <1>3, <1>4 DEF Flawless
  <1> QED
    BY <1>2, <1>5 DEF q

LEMMA FlawlessNone ==
  ASSUME NEW s, Brings(s), NEW l
  PROVE  Flawless(<<>>, s, l)
  <1> DEFINE q == <<>>
  <1>1. Items(q) = {} /\ DOMAIN q = {}
    BY NoItems
  <1> HIDE DEF q
  <1>2. ~Has(s, "InboxClosed") /\ \A i \in DOMAIN s : s[i].type # "Disconnected"
    BY DEF Brings, Has, Items
  <1>3. Flawless(q, s, l)
    BY <1>1, <1>2 DEF Flawless
  <1> QED
    BY <1>3 DEF q

LEMMA NothingBrought ==
  ASSUME NEW S, NEW q \in Seq(S)
  PROVE  /\ <<>> \in Seq(S) /\ q \o <<>> = q
         /\ Brings(<<>>) /\ \A n : ~Ahead(<<>>, n)
  BY NoItems DEF Brings, Ahead

LEMMA SinceBrings ==
  ASSUME NEW p \in Nat, posted = p, NEW type \in {"Timeline", "InboxTimeline"}, NEW from \in Overlap
  PROVE  /\ Since(type, from) \in Seq(Reports(p)) /\ Brings(Since(type, from))
         /\ type = "InboxTimeline" => \A n : ~Ahead(Since(type, from), n)
  <1> DEFINE s == Since(type, from)
  <1>1. s \in Seq(Reports(p))
    BY EventsSince
  <1>2. \A i \in DOMAIN s : s[i].type = type
    BY DEF Since
  <1> HIDE DEF s
  <1>3. Brings(s)
    BY <1>2 DEF Brings, Items
  <1>4. type = "InboxTimeline" => \A n : ~Ahead(s, n)
    BY <1>2 DEF Ahead
  <1> QED
    BY <1>1, <1>3, <1>4 DEF s

LEMMA ReplayBrings ==
  ASSUME IInv, NEW type \in {"Timeline", "InboxTimeline"}, Replay(type)
  PROVE  \E s \in Seq(Reports(posted)) :
           /\ feed' = feed \o s /\ Brings(s)
           /\ type = "InboxTimeline" => \A n : ~Ahead(s, n)
  <1>1. posted \in Nat /\ feed \in Seq(Reports(posted))
    BY Ready
  <1>2. CASE link = "up"
    <2>1. PICK from \in Overlap : feed' = feed \o Since(type, from)
      BY <1>2 DEF Replay
    <2> DEFINE s == Since(type, from)
    <2>2. /\ s \in Seq(Reports(posted)) /\ Brings(s)
          /\ type = "InboxTimeline" => \A n : ~Ahead(s, n)
      BY <1>1, SinceBrings
    <2>3. feed' = feed \o s
      BY <2>1
    <2> HIDE DEF s
    <2> QED
      BY <2>2, <2>3
  <1>3. CASE link # "up"
    <2> DEFINE s == <<>>
    <2>1. /\ s \in Seq(Reports(posted)) /\ feed \o s = feed
          /\ Brings(s) /\ \A n : ~Ahead(s, n)
      BY <1>1, NothingBrought
    <2>2. feed' = feed
      BY <1>3 DEF Replay
    <2> HIDE DEF s
    <2> QED
      BY <2>1, <2>2
  <1> QED
    BY <1>2, <1>3

LEMMA TakenCommand ==
  ASSUME IInv, NEW type, Take(type)
  PROVE  /\ \A t : Has(commands, t) <=> type = t \/ Has(commands', t)
         /\ Asks(commands) <=> type \in {"CatchUp", "Newest"} \/ Asks(commands')
         /\ \A n : Sought(commands, n) <=> \/ type = "Newest"
                                           \/ (type = "CatchUp" /\ Head(commands).since <= At[n])
                                           \/ Sought(commands', n)
         /\ \A t, K : AllBelow(commands, t, K) <=> /\ type = t => Below(Head(commands).at, K)
                                                   /\ AllBelow(commands', t, K)
  <1> DEFINE c == Head(commands)
             d == Tail(commands)
  <1>1. commands \in Seq(Outs) /\ commands # <<>> /\ c.type = type /\ commands' = d /\ c = Head(commands)
    BY Ready DEF Take
  <1>2. /\ \A t : Has(commands, t) <=> c.type = t \/ Has(d, t)
        /\ Asks(commands) <=> c.type \in {"CatchUp", "Newest"} \/ Asks(d)
        /\ \A n : Sought(commands, n) <=> \/ c.type = "Newest"
                                          \/ (c.type = "CatchUp" /\ c.since <= At[n])
                                          \/ Sought(d, n)
        /\ \A t, K : AllBelow(commands, t, K) <=> (c.type = t => Below(c.at, K)) /\ AllBelow(d, t, K)
    BY <1>1, HasTaken
  <1> HIDE DEF c, d
  <1> QED
    BY <1>1, <1>2

\* What the relay's marker and the claim that waits speak for.
LEMMA ClaimsSpokenFor ==
  ASSUME Caught
  PROVE  /\ Below(marker, Spoken) /\ (pending # NoRead => Below(pending, Spoken))
         /\ AllBelow(commands, "ReadProgress", Spoken)
  BY DEF Caught, SpokenFor

LEMMA LoadChannelsStaysSure ==
  ASSUME IInv, Caught, LoadChannels, faults = 0, faults' = 0
  PROVE  Caught'
  <1> DEFINE a == [type |-> "Channels"]
             b == [type |-> "ReadState", complete |-> TRUE, at |-> marker]
             r == <<a, b>>
  <1>1. /\ Take("LoadChannels") /\ inbox' = "kept" /\ Replay("InboxTimeline")
        /\ timeline' = timeline /\ pending' = pending /\ marker' = marker
        /\ UNCHANGED <<ui, link, posted, vouched>>
        /\ answers' = answers \o r
    <2>1. ~Fails
      BY DEF Fails
    <2>2. Answer(r)
      BY <2>1, Zenon DEF LoadChannels
    <2>3. answers' = answers \o r
      BY <2>2 DEF Answer
    <2> QED
      BY <2>3 DEF LoadChannels, PumpElse, ghosts
  <1>2. a.type = "Channels" /\ b.type = "ReadState" /\ b.complete = TRUE /\ b.at = marker
    OBVIOUS
  <1>3. a \in Answers(posted) /\ b \in Answers(posted)
    BY Ready DEF Answers
  <1> HIDE DEF a, b
  <1>4. PICK s \in Seq(Reports(posted)) :
          feed' = feed \o s /\ Brings(s) /\ \A n : ~Ahead(s, n)
    BY <1>1, ReplayBrings
  <1>5. r \in Seq(Answers(posted))
    BY <1>3
  <1>6. Flawless(r, s, link) /\ Items(r) = {a, b}
    BY <1>2, <1>4, FlawlessTwo
  <1> HIDE DEF r
  <1>7. Below(marker, Spoken) /\ (pending # NoRead => Below(pending, Spoken))
    BY ClaimsSpokenFor
  <1>8. Has(r, "ReadState") /\ ~Answering(r) /\ AllBelow(r, "ReadState", Spoken)
    BY <1>2, <1>6, <1>7 DEF Has, Answering, AllBelow
  <1>9. /\ \A t : Has(commands, t) <=> "LoadChannels" = t \/ Has(commands', t)
        /\ Asks(commands) <=> Asks(commands')
        /\ \A n : Sought(commands, n) <=> Sought(commands', n)
        /\ \A K : AllBelow(commands, "ReadProgress", K) => AllBelow(commands', "ReadProgress", K)
    BY <1>1, TakenCommand
  <1>10. Settles(commands, commands', r, posted)
    BY <1>8, <1>9 DEF Settles
  <1>11. Overtakes(s, posted, Pages(commands', answers', posted))
    BY <1>4 DEF Overtakes
  <1>12. timeline' = timeline /\ (Has(commands, "OpenChannel") => Has(commands', "OpenChannel"))
    BY <1>1, <1>9
  <1>13. Below(marker', Spoken) /\ (pending' # NoRead => Below(pending', Spoken))
    BY <1>1, <1>7
  <1> QED
    BY <1>1, <1>4, <1>5, <1>6, <1>8, <1>10, <1>11, <1>12, <1>13, PumpStaysSure

LEMMA OpenChannelStaysSure ==
  ASSUME IInv, Caught, OpenChannel, faults = 0, faults' = 0
  PROVE  Caught'
  <1> DEFINE a == [type |-> "History", last |-> posted]
             r == <<a>>
  <1>1. /\ Take("OpenChannel") /\ timeline' = TRUE
        /\ IF timeline THEN UNCHANGED feed ELSE Replay("Timeline")
        /\ inbox' = inbox /\ pending' = pending /\ marker' = marker
        /\ UNCHANGED <<ui, link, posted, vouched>>
        /\ answers' = answers \o r
    BY DEF OpenChannel, Succeeds, Fails, Answer, PumpElse, ghosts
  <1>2. a.type = "History" /\ a.last = posted
    OBVIOUS
  <1>3. a \in Answers(posted)
    BY Ready DEF Answers
  <1> HIDE DEF a
  <1>4. PICK s \in Seq(Reports(posted)) : feed' = feed \o s /\ Brings(s)
    <2>1. CASE timeline
      <3> DEFINE s == <<>>
      <3>1. s \in Seq(Reports(posted)) /\ feed \o s = feed /\ Brings(s)
        BY Ready, NothingBrought
      <3>2. feed' = feed
        BY <1>1, <2>1
      <3> HIDE DEF s
      <3> QED
        BY <3>1, <3>2
    <2>2. CASE ~timeline
      BY <1>1, <2>2, ReplayBrings
    <2> QED
      BY <2>1, <2>2
  <1>5. r \in Seq(Answers(posted)) /\ Items(r) = {a}
    BY <1>3, OneItem
  <1>6. Flawless(r, s, link)
    BY <1>2, <1>4, FlawlessOne
  <1> HIDE DEF r
  <1>7. Below(marker, Spoken) /\ (pending # NoRead => Below(pending, Spoken))
    BY ClaimsSpokenFor
  <1>8. /\ ~Has(r, "Channels") /\ ~Answering(r) /\ AllBelow(r, "ReadState", Spoken)
        /\ \A n \in 1 .. posted : \E x \in Items(r) : x.type = "History" /\ n <= x.last
    <2>1. posted \in Nat
      BY Ready
    <2> QED
      BY <1>2, <1>5, <2>1 DEF Has, Answering, AllBelow
  <1>9. /\ \A t : Has(commands, t) <=> "OpenChannel" = t \/ Has(commands', t)
        /\ Asks(commands) <=> Asks(commands')
        /\ \A n : Sought(commands, n) <=> Sought(commands', n)
        /\ \A K : AllBelow(commands, "ReadProgress", K) => AllBelow(commands', "ReadProgress", K)
    BY <1>1, TakenCommand
  <1>10. Settles(commands, commands', r, posted)
    BY <1>8, <1>9 DEF Settles
  <1>11. Overtakes(s, posted, Pages(commands', answers', posted))
    <2>1. answers \in Seq(Answers(posted))
      BY Ready
    <2>2. \A x \in Items(r) : x \in Items(answers')
      BY <1>1, <1>5, <2>1, ItemsJoin
    <2> QED
      BY <1>8, <2>2 DEF Overtakes, Pages
  <1>12. Below(marker', Spoken) /\ (pending' # NoRead => Below(pending', Spoken))
    BY <1>1, <1>7
  <1> QED
    BY <1>1, <1>4, <1>5, <1>6, <1>8, <1>10, <1>11, <1>12, PumpStaysSure

\* A question is taken, and answered for every message it asked for.
LEMMA QuestionStaysSure ==
  ASSUME IInv, Caught, NEW type \in {"CatchUp", "Newest"}, Take(type), NEW a \in Answers(posted),
         a.type \in {"CatchUp", "Seed"}, a.complete = TRUE, answers' = answers \o <<a>>,
         \A n \in 1 .. posted : type = "Newest" \/ Head(commands).since <= At[n]
                                  => \/ a.type = "CatchUp" /\ n \in a.events
                                     \/ a.type = "Seed" /\ n <= a.latest,
         UNCHANGED <<ui, link, posted, vouched, feed, inbox, timeline, pending, marker>>
  PROVE  Caught'
  <1> DEFINE r == <<a>>
             s == <<>>
  <1>1. answers' = answers \o r /\ r \in Seq(Answers(posted)) /\ Items(r) = {a}
    BY OneItem
  <1>2. s \in Seq(Reports(posted)) /\ feed \o s = feed /\ Brings(s) /\ \A n : ~Ahead(s, n)
    BY Ready, NothingBrought
  <1>3. Flawless(r, s, link)
    BY <1>2, FlawlessOne
  <1> HIDE DEF r, s
  <1>4. Below(marker', Spoken) /\ (pending' # NoRead => Below(pending', Spoken))
    BY ClaimsSpokenFor
  <1>5. /\ ~Has(r, "Channels") /\ Answering(r) /\ AllBelow(r, "ReadState", Spoken)
        /\ \A n \in 1 .. posted : type = "Newest" \/ Head(commands).since <= At[n] => Found(r, n)
    BY <1>1 DEF Has, Answering, AllBelow, Found
  <1>6. /\ \A t : Has(commands, t) <=> type = t \/ Has(commands', t)
        /\ Asks(commands)
        /\ \A n : Sought(commands, n) => \/ type = "Newest"
                                         \/ Head(commands).since <= At[n]
                                         \/ Sought(commands', n)
        /\ \A K : AllBelow(commands, "ReadProgress", K) => AllBelow(commands', "ReadProgress", K)
    BY TakenCommand
  <1>7. Settles(commands, commands', r, posted)
    BY <1>5, <1>6 DEF Settles
  <1>8. Overtakes(s, posted, Pages(commands', answers', posted))
    BY <1>2 DEF Overtakes
  <1>9. feed' = feed \o s
    BY <1>2
  <1>10. timeline' = timeline /\ (Has(commands, "OpenChannel") => Has(commands', "OpenChannel"))
    BY <1>6
  <1> QED
    BY <1>1, <1>2, <1>3, <1>4, <1>5, <1>7, <1>8, <1>9, <1>10, PumpStaysSure

LEMMA CatchUpsStaySure ==
  ASSUME IInv, Caught, CatchUp \/ CatchUpNewest, faults = 0, faults' = 0
  PROVE  Caught'
  <1>1. ~Fails
    BY DEF Fails
  <1>2. CASE CatchUp
    <2> DEFINE missed == {m \in 1 .. posted : At[m] >= Head(commands).since}
               type == "CatchUp"
               a == [type |-> "CatchUp", events |-> missed, complete |-> TRUE]
    <2>1. Answer(<<a>>)
      BY <1>1, <1>2, Zenon DEF CatchUp
    <2>2. Take(type) /\ UNCHANGED <<ui, link, posted, vouched, feed, inbox, timeline, pending, marker>>
      BY <1>2 DEF CatchUp, PumpElse, ghosts
    <2>3. a.type = "CatchUp" /\ a.complete = TRUE /\ a.events = missed /\ a \in Answers(posted)
      BY DEF Answers
    <2>4. Head(commands) \in Outs /\ Head(commands).type = "CatchUp"
      BY <2>2, CommandTaken
    <2>5. Head(commands).since \in Nat
      BY <2>4, SecondsAreNumbers DEF Outs
    <2>6. \A n \in 1 .. posted : Head(commands).since <= At[n] => n \in missed
      BY <2>5, Ready, LogIsMessages, Seconds
    <2>7. answers' = answers \o <<a>>
      BY <2>1 DEF Answer
    <2>8. type \in {"CatchUp", "Newest"} /\ type # "Newest"
      OBVIOUS
    <2> HIDE DEF a, missed, type
    <2>9. \A n \in 1 .. posted : type = "Newest" \/ Head(commands).since <= At[n]
                                   => \/ a.type = "CatchUp" /\ n \in a.events
                                      \/ a.type = "Seed" /\ n <= a.latest
      BY <2>3, <2>6, <2>8
    <2> QED
      BY <2>2, <2>3, <2>7, <2>8, <2>9, QuestionStaysSure
  <1>3. CASE CatchUpNewest
    <2> DEFINE type == "Newest"
               a == [type |-> "Seed", latest |-> posted, complete |-> TRUE]
    <2>1. Answer(<<a>>)
      BY <1>1, <1>3, Zenon DEF CatchUpNewest
    <2>2. Take(type) /\ UNCHANGED <<ui, link, posted, vouched, feed, inbox, timeline, pending, marker>>
      BY <1>3 DEF CatchUpNewest, PumpElse, ghosts
    <2>3. a.type = "Seed" /\ a.complete = TRUE /\ a.latest = posted /\ a \in Answers(posted)
      BY Ready DEF Answers
    <2>4. answers' = answers \o <<a>>
      BY <2>1 DEF Answer
    <2>5. type \in {"CatchUp", "Newest"}
      OBVIOUS
    <2> HIDE DEF a, type
    <2>6. \A n \in 1 .. posted : n <= a.latest
      BY <2>3, Ready
    <2>7. \A n \in 1 .. posted : type = "Newest" \/ Head(commands).since <= At[n]
                                   => \/ a.type = "CatchUp" /\ n \in a.events
                                      \/ a.type = "Seed" /\ n <= a.latest
      BY <2>3, <2>6
    <2> QED
      BY <2>2, <2>3, <2>4, <2>5, <2>7, QuestionStaysSure
  <1> QED
    BY <1>2, <1>3

LEMMA ReadProgressStaysSure ==
  ASSUME IInv, Caught, ReadProgress
  PROVE  Caught'
  <1> DEFINE r == <<>>
             s == <<>>
  <1>1. /\ Take("ReadProgress") /\ pending' = Head(commands).at
        /\ UNCHANGED <<ui, link, posted, vouched, answers, inbox, timeline, marker, feed>>
    BY DEF ReadProgress, PumpElse, ghosts
  <1>2. s \in Seq(Reports(posted)) /\ feed \o s = feed /\ Brings(s) /\ \A n : ~Ahead(s, n)
    BY Ready, NothingBrought
  <1>3. r \in Seq(Answers(posted)) /\ answers \o r = answers /\ Items(r) = {}
    BY Ready, NoAnswer, NoItems
  <1>4. Flawless(r, s, link)
    BY <1>2, FlawlessNone
  <1> HIDE DEF r, s
  <1>5. ~Has(r, "Channels") /\ ~Answering(r) /\ AllBelow(r, "ReadState", Spoken)
    BY <1>3 DEF Has, Answering, AllBelow
  <1>6. /\ \A t : Has(commands, t) <=> "ReadProgress" = t \/ Has(commands', t)
        /\ Asks(commands) <=> Asks(commands')
        /\ \A n : Sought(commands, n) <=> Sought(commands', n)
        /\ \A K : AllBelow(commands, "ReadProgress", K)
                    => Below(Head(commands).at, K) /\ AllBelow(commands', "ReadProgress", K)
    BY <1>1, TakenCommand
  <1>7. Settles(commands, commands', r, posted)
    BY <1>5, <1>6 DEF Settles
  <1>8. Below(marker', Spoken) /\ Below(pending', Spoken)
    BY <1>1, <1>6, ClaimsSpokenFor
  <1>9. Overtakes(s, posted, Pages(commands', answers', posted))
    BY <1>2 DEF Overtakes
  <1>10. feed' = feed \o s /\ answers' = answers \o r
    BY <1>1, <1>2, <1>3
  <1>11. timeline' = timeline /\ (Has(commands, "OpenChannel") => Has(commands', "OpenChannel"))
    BY <1>1, <1>6
  <1> QED
    BY <1>1, <1>2, <1>3, <1>4, <1>5, <1>7, <1>8, <1>9, <1>10, <1>11, PumpStaysSure

LEMMA PublishReadStaysSure ==
  ASSUME IInv, Caught, PublishRead, faults = 0, faults' = 0
  PROVE  Caught'
  <1> DEFINE at == Later(marker, pending)
             a == [type |-> "ReadState", complete |-> TRUE, at |-> at]
             r == <<a>>
             s == <<>>
  <1>1. /\ pending # NoRead /\ pending' = NoRead /\ marker' = at
        /\ UNCHANGED <<ui, link, posted, vouched, commands, inbox, timeline, feed>>
        /\ answers' = answers \o r
    <2>1. ~Fails
      BY DEF Fails
    <2>2. marker' = at /\ Answer(<<[type |-> "ReadState", complete |-> TRUE, at |-> marker']>>)
      BY <2>1, Zenon DEF PublishRead
    <2>3. Answer(r)
      BY <2>2
    <2>4. answers' = answers \o r
      BY <2>3 DEF Answer
    <2> QED
      BY <2>2, <2>4 DEF PublishRead, PumpElse, ghosts
  <1>2. (at = marker \/ at = pending) /\ at \in Second
    BY <1>1, Ready DEF Later
  <1>3. Below(at, Spoken)
    BY <1>1, <1>2, ClaimsSpokenFor
  <1>4. a.type = "ReadState" /\ a.complete = TRUE /\ a.at = at /\ a \in Answers(posted)
    BY <1>2 DEF Answers
  <1> HIDE DEF at, a
  <1>5. r \in Seq(Answers(posted)) /\ Items(r) = {a}
    BY <1>4, OneItem
  <1>6. s \in Seq(Reports(posted)) /\ feed \o s = feed /\ Brings(s) /\ \A n : ~Ahead(s, n)
    BY Ready, NothingBrought
  <1>7. Flawless(r, s, link)
    BY <1>4, <1>6, FlawlessOne
  <1> HIDE DEF r, s
  <1>8. ~Has(r, "Channels") /\ ~Answering(r) /\ AllBelow(r, "ReadState", Spoken)
    BY <1>3, <1>4, <1>5 DEF Has, Answering, AllBelow
  <1>9. Settles(commands, commands', r, posted)
    BY <1>1, <1>8 DEF Settles
  <1>10. Overtakes(s, posted, Pages(commands', answers', posted))
    BY <1>6 DEF Overtakes
  <1>11. feed' = feed \o s /\ ~(pending' # NoRead) /\ Below(marker', Spoken)
    BY <1>1, <1>3, <1>6
  <1>12. timeline' = timeline /\ (Has(commands, "OpenChannel") => Has(commands', "OpenChannel"))
    BY <1>1
  <1> QED
    BY <1>1, <1>5, <1>6, <1>7, <1>8, <1>9, <1>10, <1>11, <1>12, PumpStaysSure
-----------------------------------------------------------------------------
(* The relay, the connection and the other terminal.                       *)

LEMMA OtherTerminalStaysSure ==
  ASSUME IInv, Caught, OtherTerminal
  PROVE  Caught'
  <1>1. PICK m \in 1 .. posted : /\ marker' = At[m]
                                 /\ vouched' = vouched \cup {n \in 1 .. posted : At[n] < At[m]}
    BY DEF OtherTerminal
  <1>2. UNCHANGED <<ui, commands, answers, feed, link, inbox, timeline, pending, posted>>
    BY DEF OtherTerminal
  <1> DEFINE K == Spoken
             L == Spoken'
             X == OwedBy(link, feed, commands, answers, posted)
  <1>3. L = K \cup vouched'
    BY <1>1, <1>2 DEF Spoken
  <1>4. posted \in Nat /\ 1 .. posted \subseteq Message
    BY Ready, LogIsMessages
  <1>5. Below(marker', L)
    <2> SUFFICES ASSUME NEW n \in Message, At[n] < marker'
                 PROVE  n \in L
      BY DEF Below
    <2>1. m \in Message /\ n \in Nat \ {0} /\ m \in Nat /\ At[n] \in Nat /\ At[m] \in Nat
      BY <1>4, Seconds DEF Message
    <2>2. ~(m <= n)
      BY <1>1, <2>1, Seconds
    <2>3. n \in 1 .. posted
      BY <1>4, <2>1, <2>2
    <2> QED
      BY <1>1, <1>3, <2>3
  <1>6. Caught
    OBVIOUS
  <1>7. Leaves(posted, X, L, L, OwedBy(link', feed', commands', answers', posted))
    BY <1>2 DEF Leaves
  <1>8. Steady'
    BY <1>2 DEF Caught, Steady
  <1>9. Ordered'
    BY <1>2 DEF Caught, Ordered
  <1>10. AllBelow(commands, "ReadProgress", K) /\ AllBelow(answers, "ReadState", K)
         /\ (pending # NoRead => Below(pending, K))
    BY DEF Caught, SpokenFor
  <1> HIDE DEF K, L
  <1>11. K \subseteq L
    BY <1>3
  <1>12. AllBelow(commands, "ReadProgress", L) /\ AllBelow(answers, "ReadState", L)
         /\ (pending # NoRead => Below(pending, L))
    BY <1>10, <1>11, BelowMore DEF AllBelow
  <1>13. SpokenFor'
    BY <1>2, <1>5, <1>12 DEF SpokenFor, L
  <1>14. /\ Resolves(commands, answers) => Resolves(commands', answers')
         /\ Renews(link, feed, commands, answers) => Renews(link', feed', commands', answers')
    BY <1>2
  <1> QED
    BY <1>2, <1>7, <1>8, <1>9, <1>11, <1>13, <1>14, WorldKeeps DEF K, L

\* What a step of the connection alone has to keep: it renews every question.
LEMMA ConnectionStaysSure ==
  ASSUME IInv, Caught, UNCHANGED <<ui, commands, answers, timeline, pending, marker, vouched, posted>>,
         link' # "up" \/ Has(feed', "Connected"),
         \A n : Ahead(feed', n) => Ahead(feed, n),
         link' = "up" => \A n : ~Unsaid(feed', n),
         Flawless(answers, feed', link'), inbox' = inbox \/ (inbox' = "kept" /\ inbox # "none")
  PROVE  Caught'
  <1> DEFINE L == Spoken'
             X == OwedBy(link, feed, commands, answers, posted)
             Y == OwedBy(link', feed', commands', answers', posted)
  <1>1. Spoken \subseteq Spoken'
    BY DEF Spoken
  <1>2. X \subseteq Y
    BY DEF OwedBy
  <1>3. Leaves(posted, X, L, L, Y)
    BY <1>2 DEF Leaves
  <1>4. Steady'
    BY DEF Caught, Steady
  <1>5. SpokenFor'
    <2>1. Spoken' = Spoken
      BY DEF Spoken
    <2> QED
      BY <2>1 DEF Caught, SpokenFor
  <1>6. Ordered'
    BY DEF Caught, Ordered
  <1>7. /\ Resolves(commands, answers) => Resolves(commands', answers')
        /\ Renews(link, feed, commands, answers) => Renews(link', feed', commands', answers')
    BY DEF Renews
  <1> QED
    BY <1>1, <1>3, <1>4, <1>5, <1>6, <1>7, WorldKeeps

LEMMA DropStaysSure ==
  ASSUME IInv, Caught, Drop
  PROVE  Caught'
  <1> DEFINE c == [type |-> "Disconnected"]
             s == <<c>>
  <1>1. /\ link' = "down" /\ feed' = Append(feed, c)
        /\ UNCHANGED <<ui, commands, answers, timeline, pending, marker, vouched, posted, inbox>>
    BY DEF Drop, FeedElse, ghosts
  <1>2. c \in Reports(posted) /\ c.type = "Disconnected"
    BY DEF Reports
  <1> HIDE DEF c
  <1>3. feed \in Seq(Reports(posted)) /\ s \in Seq(Reports(posted)) /\ Items(s) = {c}
        /\ DOMAIN s = {1} /\ s[1] = c
    BY <1>2, Ready, OneItem
  <1>4. feed' = feed \o s
    BY <1>1, <1>3
  <1> HIDE DEF s
  <1>5. \A n : ~Ahead(s, n)
    BY <1>2, <1>3 DEF Ahead
  <1>6. \A n : Ahead(feed', n) => Ahead(feed, n)
    BY <1>3, <1>4, <1>5, AheadJoins
  <1>7. Has(feed', "InboxClosed") => Has(feed, "InboxClosed") \/ Has(s, "InboxClosed")
    BY <1>3, <1>4, HasJoin
  <1>8. ~Has(feed', "InboxClosed")
    BY <1>2, <1>3, <1>7 DEF Caught, Ordered, Flawless, Has
  <1>9. Flawless(answers, feed', link')
    BY <1>1, <1>8 DEF Caught, Ordered, Flawless
  <1> QED
    BY <1>1, <1>6, <1>9, ConnectionStaysSure

LEMMA ConnectStaysSure ==
  ASSUME IInv, Caught, Connect
  PROVE  Caught'
  <1> DEFINE c == [type |-> "Connected"]
             one == <<c>>
             f == feed \o one
  <1>1. PICK from \in Overlap :
          feed' = feed \o one \o Since("Timeline", IF timeline THEN from ELSE posted)
                       \o Since("InboxTimeline", IF inbox = "none" THEN posted ELSE from)
    BY DEF Connect
  <1>2. /\ link' = "up" /\ inbox' = IF inbox = "none" THEN "none" ELSE "kept"
        /\ UNCHANGED <<ui, commands, answers, timeline, pending, marker, vouched, posted>>
    BY DEF Connect, FeedElse, ghosts
  <1> DEFINE x == IF timeline THEN from ELSE posted
             y == IF inbox = "none" THEN posted ELSE from
             s == Since("Timeline", x)
             t == Since("InboxTimeline", y)
             g == f \o s
  <1>3. c \in Reports(posted) /\ c.type = "Connected"
    BY DEF Reports
  <1>4. feed' = g \o t
    BY <1>1
  <1>5. x \in Overlap /\ y \in Overlap
    BY DEF Overlap
  <1> HIDE DEF c, x, y
  <1>6. /\ s \in Seq(Reports(posted)) /\ Brings(s)
        /\ t \in Seq(Reports(posted)) /\ Brings(t)
    BY <1>5, Ready, SinceBrings
  <1>7. feed \in Seq(Reports(posted)) /\ one \in Seq(Reports(posted)) /\ Items(one) = {c}
        /\ DOMAIN one = {1} /\ one[1] = c
    BY <1>3, Ready, OneItem
  <1> HIDE DEF one, s, t
  <1>8. f \in Seq(Reports(posted))
    BY <1>7, Joined
  <1>81. g \in Seq(Reports(posted))
    BY <1>6, <1>8, Joined
  <1>9. Has(one, "Connected") /\ \A n : ~Unsaid(one, n) /\ ~Ahead(one, n)
    <2>1. Has(one, "Connected")
      BY <1>3, <1>7 DEF Has
    <2>2. \A n : Tells(c, n)
      BY <1>3 DEF Tells
    <2>3. \A n : ~Unsaid(one, n)
      BY <1>7, <2>2 DEF Unsaid
    <2>4. \A n : ~Ahead(one, n)
      BY <1>3, <1>7 DEF Ahead
    <2> QED
      BY <2>1, <2>3, <2>4
  <1>10. Has(f, "Connected") /\ \A n : ~Unsaid(f, n) /\ (Ahead(f, n) => Ahead(feed, n))
    <2>1. /\ Has(f, "Connected") <=> Has(feed, "Connected") \/ Has(one, "Connected")
          /\ \A n : Unsaid(f, n) <=> Unsaid(feed, n) /\ Unsaid(one, n)
      BY <1>7, HasJoin
    <2>2. \A n : Ahead(f, n) => Ahead(feed, n) \/ Ahead(one, n)
      BY <1>7, AheadJoins
    <2> QED
      BY <1>9, <2>1, <2>2
  <1>11. Flawless(answers, f, "up")
    <2>1. /\ \A i \in DOMAIN feed : i \in Int /\ i < Len(feed) + 1
          /\ Len(feed) + 1 \in DOMAIN f /\ f[Len(feed) + 1] = c
          /\ \A i \in DOMAIN f : i \in DOMAIN feed \/ f[i] = c
      <3>1. DOMAIN feed = 1 .. Len(feed) /\ Len(feed) \in Nat
        BY <1>7
      <3>2. /\ Len(feed) + 1 \in DOMAIN f /\ f[Len(feed) + 1] = one[1]
            /\ \A i \in DOMAIN f : i \in DOMAIN feed \/ (i - Len(feed) \in DOMAIN one /\ f[i] = one[i - Len(feed)])
        BY <1>7, Joined
      <3> QED
        BY <1>7, <3>1, <3>2
    <2>2. \A i \in DOMAIN f : f[i].type = "Disconnected" =>
            \E j \in DOMAIN f : i < j /\ f[j].type = "Connected"
      BY <1>3, <2>1
    <2>3. Has(f, "InboxClosed") => Has(feed, "InboxClosed") \/ Has(one, "InboxClosed")
      BY <1>7, HasJoin
    <2>4. ~Has(f, "InboxClosed")
      BY <1>3, <1>7, <2>3 DEF Caught, Ordered, Flawless, Has
    <2> QED
      BY <2>2, <2>4 DEF Caught, Ordered, Flawless
  <1> HIDE DEF f
  <1>12. Has(g, "Connected") /\ \A n : ~Unsaid(g, n) /\ (Ahead(g, n) => Ahead(feed, n))
    <2>1. /\ Has(g, "Connected") <=> Has(f, "Connected") \/ Has(s, "Connected")
          /\ \A n : Unsaid(g, n) <=> Unsaid(f, n) /\ Unsaid(s, n)
      BY <1>6, <1>8, HasJoin
    <2>2. \A n : Ahead(g, n) => Ahead(f, n) \/ Unsaid(f, n)
      BY <1>6, <1>8, AheadJoins
    <2> QED
      BY <1>10, <2>1, <2>2
  <1> DEFINE none == <<>>
             up == "up"
  <1>13. answers \in Seq(Answers(posted)) /\ none \in Seq(Answers(posted)) /\ answers \o none = answers
    BY Ready, NoAnswer
  <1>14. Flawless(none, s, up) /\ Flawless(none, t, up)
    BY <1>6, FlawlessNone
  <1>141. Flawless(answers, f, up)
    BY <1>11
  <1> HIDE DEF none, up
  <1>15. Flawless(answers, g, up)
    <2>1. Flawless(answers \o none, f \o s, up)
      BY <1>6, <1>8, <1>13, <1>14, <1>141, FlawlessJoin
    <2> QED
      BY <1>13, <2>1
  <1>16. Flawless(answers, g \o t, up)
    <2>1. Flawless(answers \o none, g \o t, up)
      BY <1>6, <1>81, <1>13, <1>14, <1>15, FlawlessJoin
    <2> QED
      BY <1>13, <2>1
  <1> HIDE DEF g
  <1>17. Has(feed', "Connected") /\ \A n : ~Unsaid(feed', n) /\ (Ahead(feed', n) => Ahead(feed, n))
    <2>1. /\ Has(feed', "Connected") <=> Has(g, "Connected") \/ Has(t, "Connected")
          /\ \A n : Unsaid(feed', n) <=> Unsaid(g, n) /\ Unsaid(t, n)
      BY <1>4, <1>6, <1>81, HasJoin
    <2>2. \A n : Ahead(feed', n) => Ahead(g, n) \/ Unsaid(g, n)
      BY <1>4, <1>6, <1>81, AheadJoins
    <2> QED
      BY <1>12, <2>1, <2>2
  <1>18. Flawless(answers, feed', link')
    BY <1>2, <1>4, <1>16 DEF up
  <1>19. inbox' = inbox \/ (inbox' = "kept" /\ inbox # "none")
    BY <1>2
  <1> QED
    BY <1>2, <1>17, <1>18, <1>19, ConnectionStaysSure

LEMMA AccountsLonger ==
  ASSUME NEW u, NEW p \in Nat, NEW K, NEW X, Accounts(u, p, K, X),
         u.listed => p + 1 \in X
  PROVE  Accounts(u, p + 1, K, X)
  <1>1. /\ 1 .. p \subseteq 1 .. p + 1
        /\ \A n \in 1 .. p + 1 : n \in 1 .. p \/ n = p + 1
    OBVIOUS
  <1>2. u.rows \in SUBSET (1 .. p + 1)
    BY <1>1 DEF Accounts
  <1>3. u.listed => \A n \in (1 .. p + 1) \ Mine :
                      n \in u.unread \cup K \cup X \/ u.waiting \/ Sought(u.out, n)
    BY <1>1 DEF Accounts
  <1> QED
    BY <1>2, <1>3 DEF Accounts

\* What a new message changes of what the feed reports.
LEMMA PostReports ==
  ASSUME IInv, Caught, Post, NEW q, q = posted + 1
  PROVE  /\ feed' \in Seq(Reports(q))
         /\ \A t : Has(feed, t) => Has(feed', t)
         /\ \A n : /\ Brought(feed, n) => Brought(feed', n)
                   /\ Unsaid(feed', n) => Unsaid(feed, n)
                   /\ Ahead(feed', n) => Ahead(feed, n) \/ (link = "up" /\ Unsaid(feed, n))
         /\ link = "up" => /\ inbox = "kept" => Brought(feed', q)
                           /\ timeline => ~Unsaid(feed', q)
         /\ Flawless(answers, feed', link)
  <1>1. /\ posted \in Nat /\ q \in Nat /\ feed \in Seq(Reports(posted))
        /\ Reports(posted) \subseteq Reports(q)
    BY Ready, LongerLog
  <1>2. feed \in Seq(Reports(q))
    BY <1>1
  <1>3. Flawless(answers, feed, link)
    BY DEF Caught, Ordered
  <1>4. CASE link # "up"
    <2>1. feed' = feed
      BY <1>4 DEF Post
    <2> QED
      BY <1>2, <1>3, <1>4, <2>1
  <1>5. CASE link = "up"
    <2> DEFINE a == [type |-> "InboxTimeline", id |-> q]
               b == [type |-> "Timeline", id |-> q]
               one == IF inbox = "kept" THEN <<a>> ELSE <<>>
               two == IF timeline THEN <<b>> ELSE <<>>
    <2>1. feed' = feed \o one \o two \/ feed' = feed \o two \o one
      BY <1>5 DEF Post, Deliver
    <2>2. /\ a \in Reports(q) /\ a.type = "InboxTimeline" /\ a.id = q
          /\ b \in Reports(q) /\ b.type = "Timeline" /\ b.id = q
      BY <1>1 DEF Reports
    <2> HIDE DEF a, b
    <2>3. /\ one \in Seq(Reports(q)) /\ Brings(one) /\ (inbox = "kept" => Brought(one, q))
      <3>1. CASE inbox = "kept"
        <4>1. one = <<a>>
          BY <3>1
        <4>2. <<a>> \in Seq(Reports(q)) /\ Items(<<a>>) = {a}
          BY <2>2, OneItem
        <4> HIDE DEF one
        <4> QED
          BY <2>2, <4>1, <4>2 DEF Brings, Brought
      <3>2. CASE inbox # "kept"
        <4>1. one = <<>>
          BY <3>2
        <4> HIDE DEF one
        <4> QED
          BY <1>2, <3>2, <4>1, NothingBrought
      <3> QED
        BY <3>1, <3>2
    <2>4. /\ two \in Seq(Reports(q)) /\ Brings(two) /\ (timeline => ~Unsaid(two, q))
      <3>1. CASE timeline
        <4>1. two = <<b>>
          BY <3>1
        <4>2. <<b>> \in Seq(Reports(q)) /\ Items(<<b>>) = {b}
          BY <2>2, OneItem
        <4> HIDE DEF two
        <4> QED
          BY <2>2, <4>1, <4>2 DEF Brings, Unsaid, Tells
      <3>2. CASE ~timeline
        <4>1. two = <<>>
          BY <3>2
        <4> HIDE DEF two
        <4> QED
          BY <1>2, <3>2, <4>1, NothingBrought
      <3> QED
        BY <3>1, <3>2
    <2> HIDE DEF one, two
    <2>5. PICK s \in Seq(Reports(q)), t \in Seq(Reports(q)) :
            /\ feed' = (feed \o s) \o t /\ Brings(s) /\ Brings(t)
            /\ inbox = "kept" => Brought(s, q) \/ Brought(t, q)
            /\ timeline => ~Unsaid(s, q) \/ ~Unsaid(t, q)
      BY <2>1, <2>3, <2>4
    <2> DEFINE f == feed \o s
    <2>6. f \in Seq(Reports(q)) /\ f \o t \in Seq(Reports(q))
      BY <1>2, Joined
    <2>7. /\ \A y : Has(f, y) <=> Has(feed, y) \/ Has(s, y)
          /\ \A n : Brought(f, n) <=> Brought(feed, n) \/ Brought(s, n)
          /\ \A n : Unsaid(f, n) <=> Unsaid(feed, n) /\ Unsaid(s, n)
      BY <1>2, HasJoin
    <2>8. \A n : Ahead(f, n) => Ahead(feed, n) \/ Unsaid(feed, n)
      BY <1>2, AheadJoins
    <2> DEFINE none == <<>>
    <2>9. answers \in Seq(Answers(posted)) /\ none \in Seq(Answers(posted)) /\ answers \o none = answers
      BY Ready, NoAnswer
    <2>10. Flawless(none, s, link) /\ Flawless(none, t, link)
      BY <2>5, FlawlessNone
    <2> HIDE DEF none
    <2>11. Flawless(answers, f, link)
      <3>1. Flawless(answers \o none, feed \o s, link)
        BY <1>2, <1>3, <2>9, <2>10, FlawlessJoin
      <3> QED
        BY <2>9, <3>1
    <2> HIDE DEF f
    <2>12. /\ \A y : Has(feed', y) <=> Has(f, y) \/ Has(t, y)
           /\ \A n : Brought(feed', n) <=> Brought(f, n) \/ Brought(t, n)
           /\ \A n : Unsaid(feed', n) <=> Unsaid(f, n) /\ Unsaid(t, n)
      BY <2>5, <2>6, HasJoin DEF f
    <2>13. \A n : Ahead(feed', n) => Ahead(f, n) \/ Unsaid(f, n)
      BY <2>5, <2>6, AheadJoins DEF f
    <2>14. Flawless(answers, feed', link)
      <3>1. Flawless(answers \o none, f \o t, link)
        BY <2>6, <2>9, <2>10, <2>11, FlawlessJoin
      <3> QED
        BY <2>5, <2>9, <3>1 DEF f
    <2>15. feed' \in Seq(Reports(q))
      BY <2>5, <2>6 DEF f
    <2> QED
      BY <1>5, <2>5, <2>7, <2>8, <2>12, <2>13, <2>14, <2>15
  <1> QED
    BY <1>4, <1>5

LEMMA PostStaysSure ==
  ASSUME IInv, Caught, Post
  PROVE  Caught'
  <1> DEFINE q == posted + 1
             P == Pages(commands, answers, posted)
             Q == Pages(commands', answers', posted')
             K == Spoken
             L == Spoken'
             X == OwedBy(link, feed, commands, answers, posted)
             Y == OwedBy(link', feed', commands', answers', posted')
             ready == Resolves(commands, answers)
             later == Renews(link, feed, commands, answers)
             after == Renews(link', feed', commands', answers')
  <1>1. /\ posted' = q
        /\ UNCHANGED <<inbox, link, ui, commands, answers, timeline, pending, marker, vouched>>
    BY DEF Post, FeedElse, ghosts
  <1>2. posted \in Nat /\ 1 .. posted \subseteq 1 .. q /\ q \in 1 .. q
        /\ \A n \in 1 .. q : n \in 1 .. posted \/ n = q
    BY Ready
  <1>20. q = posted + 1
    OBVIOUS
  <1> HIDE DEF q
  <1>3. /\ feed' \in Seq(Reports(q))
        /\ \A t : Has(feed, t) => Has(feed', t)
        /\ \A n : /\ Brought(feed, n) => Brought(feed', n)
                  /\ Unsaid(feed', n) => Unsaid(feed, n)
                  /\ Ahead(feed', n) => Ahead(feed, n) \/ (link = "up" /\ Unsaid(feed, n))
        /\ link = "up" => /\ inbox = "kept" => Brought(feed', q)
                          /\ timeline => ~Unsaid(feed', q)
        /\ Flawless(answers, feed', link)
    BY <1>20, PostReports
  <1>4. P \subseteq Q /\ (Has(commands, "OpenChannel") => \A n \in 1 .. q : n \in Q)
    BY <1>1, <1>2 DEF Pages
  <1>5. L = ui.rows \cup vouched \cup Q
    BY <1>1 DEF Spoken
  <1>6. K \subseteq L
    BY <1>4, <1>5 DEF Spoken
  <1>7. X \subseteq Y /\ (ui.listed => q \in Y)
    <2>1. X \subseteq Y
      BY <1>1, <1>2, <1>3 DEF OwedBy
    <2>2. ui.listed => link # "up" \/ Brought(feed', q)
      BY <1>3 DEF Caught, Ordered
    <2> QED
      BY <1>1, <1>2, <2>1, <2>2 DEF OwedBy
  <1>8. Resolves(commands', answers') = ready /\ (later => after)
    BY <1>1, <1>3 DEF Renews
  <1>9. Sure(ui, posted, K, X, ready, later)
    BY DEF Caught, Accounted
  <1>10. ui.selected => timeline \/ Has(commands, "OpenChannel")
    BY DEF Caught, Steady
  <1>11. ui.selected => \A n \in 1 .. posted : (link = "up" /\ Unsaid(feed, n)) \/ Ahead(feed, n)
           => n \in ui.rows \cup P
    BY DEF Caught, Steady
  <1>12. ~Ahead(feed', q)
    <2>1. ASSUME NEW i \in DOMAIN feed', feed'[i].type = "Timeline", q <= feed'[i].id
          PROVE  Tells(feed'[i], q) /\ i \in 1 .. i
      <3>1. feed'[i] \in Reports(q) /\ i \in Nat \ {0}
        BY <1>3
      <3>2. feed'[i].id \in 1 .. q
        BY <2>1, <3>1 DEF Reports
      <3>3. feed'[i].id = q
        BY <1>2, <1>20, <2>1, <3>2
      <3> QED
        BY <2>1, <3>1, <3>3 DEF Tells
    <2> QED
      BY <2>1 DEF Ahead
  <1>13. /\ Below(marker, K) /\ (pending # NoRead => Below(pending, K))
         /\ AllBelow(commands, "ReadProgress", K) /\ AllBelow(answers, "ReadState", K)
    BY DEF Caught, SpokenFor
  <1>14. Steady'
    <2> SUFFICES ASSUME ui.selected
                 PROVE  /\ timeline \/ Has(commands, "OpenChannel")
                        /\ \A n \in 1 .. q : (link = "up" /\ Unsaid(feed', n)) \/ Ahead(feed', n)
                                                 => n \in ui.rows \cup Q
      BY <1>1 DEF Steady, Q
    <2> SUFFICES ASSUME NEW n \in 1 .. q, (link = "up" /\ Unsaid(feed', n)) \/ Ahead(feed', n)
                 PROVE  n \in ui.rows \cup Q
      BY <1>10
    <2>1. CASE Has(commands, "OpenChannel")
      BY <1>4, <2>1
    <2>2. CASE n \in 1 .. posted
      BY <1>3, <1>4, <1>11, <2>2
    <2>3. CASE n = q /\ timeline
      BY <1>3, <1>12, <2>3
    <2> QED
      BY <1>2, <1>10, <2>1, <2>2, <2>3
  <1> HIDE DEF K, L, X, Y, P, Q, ready, later, after
  <1>15. Accounts(ui, posted, L, Y)
    <2>1. \A n \in (1 .. posted) \ Mine : n \in X => n \in L \cup Y
      BY <1>7
    <2> QED
      BY <1>6, <1>9, <2>1, AccountsMore DEF Sure
  <1>16. Accounts(ui, q, L, Y)
    BY <1>2, <1>7, <1>15, <1>20, AccountsLonger
  <1>17. Words(ui, ready, after)
    BY <1>8, <1>9 DEF Sure, Words
  <1>18. Accounted'
    BY <1>1, <1>8, <1>16, <1>17 DEF Accounted, Sure, L, Y, after
  <1>19. SpokenFor'
    <2>1. /\ Below(marker, L) /\ (pending # NoRead => Below(pending, L))
          /\ AllBelow(commands, "ReadProgress", L) /\ AllBelow(answers, "ReadState", L)
      BY <1>6, <1>13, BelowMore DEF AllBelow
    <2> QED
      BY <1>1, <2>1 DEF SpokenFor, L
  <1>21. Ordered'
    BY <1>1, <1>3 DEF Caught, Ordered
  <1> QED
    BY <1>14, <1>18, <1>19, <1>21 DEF Caught
-----------------------------------------------------------------------------
(* Every step keeps it, and nothing is missed.                             *)

LEMMA CaughtStands ==
  ASSUME Caught, UNCHANGED vars
  PROVE  Caught'
  <1>1. UNCHANGED <<ui, commands, answers, inbox, timeline, pending, marker, feed, link, posted, vouched>>
    BY DEF vars, pump, ghosts
  <1>2. Spoken' = Spoken
    BY <1>1 DEF Spoken
  <1>3. Accounted'
    BY <1>1, <1>2 DEF Caught, Accounted
  <1>4. Steady' /\ Ordered'
    BY <1>1 DEF Caught, Steady, Ordered
  <1>5. SpokenFor'
    BY <1>1, <1>2 DEF Caught, SpokenFor
  <1> QED
    BY <1>3, <1>4, <1>5 DEF Caught

LEMMA InitNInv == Init => NInv
  <1> SUFFICES ASSUME Init
               PROVE  Caught
    BY DEF NInv
  <1> DEFINE none == <<>>
  <1>1. /\ commands = none /\ answers = none /\ feed = none /\ ui.out = none
        /\ link = "off" /\ inbox = "none" /\ pending = NoRead
        /\ marker = elsewhere /\ vouched = {m \in 1 .. posted : At[m] < elsewhere}
    BY DEF Init
  <1>2. /\ ~ui.listed /\ ~ui.selected /\ ~ui.markerRead /\ ~ui.inboxFailed /\ ~ui.historyFailed
        /\ ~ui.waiting /\ ui.coverage = "complete"
        /\ ui.rows = {} /\ ui.live = {} /\ ui.frontier = 0 /\ ui.presented = {}
    BY DEF Init
  <1>3. DOMAIN ui = Fields
    BY DEF Init, Fields
  <1>4. none \in Seq(Outs) /\ Items(none) = {} /\ DOMAIN none = {}
    BY NoItems
  <1> HIDE DEF none
  <1>5. posted \in Nat /\ 1 .. posted \subseteq Message /\ 0 \in Second
    BY InitIInv, Ready, LogIsMessages
  <1>6. Below(marker, vouched)
    <2>1. CASE elsewhere = 0
      BY <1>1, <2>1, BelowNone
    <2>2. CASE elsewhere # 0
      <3>1. PICK m \in 1 .. posted : elsewhere = At[m]
        BY <2>2 DEF Init
      <3> SUFFICES ASSUME NEW n \in Message, At[n] < At[m]
                   PROVE  n \in vouched
        BY <1>1, <3>1 DEF Below
      <3>2. m \in Message /\ n \in Nat \ {0} /\ m \in Nat /\ At[n] \in Nat /\ At[m] \in Nat
        BY <1>5, Seconds DEF Message
      <3>3. ~(m <= n)
        BY <3>2, Seconds
      <3>4. n \in 1 .. posted
        BY <1>5, <3>2, <3>3
      <3> QED
        BY <1>1, <3>1, <3>4
    <2> QED
      BY <2>1, <2>2
  <1>7. vouched \subseteq Spoken
    BY DEF Spoken
  <1> DEFINE K == Spoken
             X == OwedBy(link, feed, commands, answers, posted)
             ready == Resolves(commands, answers)
             later == Renews(link, feed, commands, answers)
  <1> HIDE DEF K, X, ready, later
  <1>8. \A t, M : AllBelow(none, t, M)
    BY <1>4 DEF AllBelow
  <1>9. Accounts(ui, posted, K, X)
    <2>1. Below(ui.frontier, K)
      BY <1>2, BelowNone
    <2> QED
      BY <1>1, <1>2, <1>3, <1>4, <1>5, <1>8, <2>1 DEF Accounts
  <1>10. Words(ui, ready, later)
    BY <1>1, <1>2, <1>4 DEF Words, Asks
  <1>11. Accounted
    BY <1>9, <1>10 DEF Accounted, Sure, K, X, ready, later
  <1>12. Steady
    BY <1>2 DEF Steady
  <1>13. SpokenFor
    BY <1>1, <1>6, <1>7, <1>8, BelowMore DEF SpokenFor
  <1>14. Ordered
    <2>1. ~Has(answers, "Channels") /\ ~Asks(commands) /\ ~Answering(answers)
      BY <1>1, <1>4 DEF Has, Asks, Answering
    <2>2. Flawless(answers, feed, link)
      BY <1>1, <1>4 DEF Flawless, Has
    <2> QED
      BY <1>1, <1>2, <2>1, <2>2 DEF Ordered
  <1> QED
    BY <1>11, <1>12, <1>13, <1>14 DEF Caught

LEMMA FaultsCounted ==
  ASSUME IInv, [Next]_vars, faults' = 0
  PROVE  faults = 0
  <1>1. faults' = faults \/ faults' = faults + 1
    <2>1. CASE HandleAnswer \/ HandleFeed \/ OtherClaim
      BY <2>1 DEF HandleAnswer, HandleFeed, OtherClaim, counters
    <2>2. CASE OpenKey \/ LeaveKey \/ MoveKey \/ CoverKey \/ ReturnKey \/ Refresh
      BY <2>2 DEF OpenKey, LeaveKey, MoveKey, CoverKey, ReturnKey, Refresh, Key
    <2>3. CASE CommandStep
      BY <2>3 DEF CommandStep, LoadChannels, LoadChannelsFails, OpenChannel, CatchUp, CatchUpNewest,
         ReadProgress, PublishRead, Succeeds, Fails
    <2>4. CASE FeedStep
      BY <2>4 DEF FeedStep, Post, Connect, Drop, CloseInbox, OtherTerminal, Fails
    <2>5. CASE UNCHANGED vars
      BY <2>5 DEF vars, counters
    <2> QED
      BY <2>1, <2>2, <2>3, <2>4, <2>5 DEF Next, InterfaceStep
  <1> QED
    BY <1>1, Ready

LEMMA StepStaysSure == IInv /\ NInv /\ [Next]_vars => NInv'
  <1> SUFFICES ASSUME IInv, NInv, [Next]_vars, faults' = 0
               PROVE  Caught'
    BY DEF NInv
  <1>1. faults = 0
    BY FaultsCounted
  <1>2. Caught
    BY <1>1 DEF NInv
  <1>3. ~Fails
    BY <1>1 DEF Fails
  <1>4. CASE HandleAnswer
    BY <1>2, <1>4, HandleAnswerStaysSure
  <1>5. CASE HandleFeed
    BY <1>2, <1>5, HandleFeedStaysSure
  <1>6. CASE OpenKey \/ LeaveKey \/ MoveKey \/ CoverKey \/ ReturnKey \/ Refresh \/ OtherClaim
    BY <1>2, <1>6, KeysStaySure
  <1>7. CASE CommandStep
    <2>1. ~LoadChannelsFails
      BY <1>3 DEF LoadChannelsFails
    <2> QED
      BY <1>1, <1>2, <1>7, <2>1, LoadChannelsStaysSure, OpenChannelStaysSure, CatchUpsStaySure,
         ReadProgressStaysSure, PublishReadStaysSure DEF CommandStep
  <1>8. CASE FeedStep
    <2>1. ~CloseInbox
      BY <1>3 DEF CloseInbox
    <2> QED
      BY <1>2, <1>8, <2>1, PostStaysSure, ConnectStaysSure, DropStaysSure, OtherTerminalStaysSure
         DEF FeedStep
  <1>9. CASE UNCHANGED vars
    BY <1>2, <1>9, CaughtStands
  <1> QED
    BY <1>4, <1>5, <1>6, <1>7, <1>8, <1>9 DEF Next, InterfaceStep

\* "A live feed alone would only see what it was connected for" (App::apply,
\* Connected): in every reachable state where nothing is on its way and no query
\* has failed, the conversation is known and complete, and every message of others
\* in its log is loaded, counted as unread, or vouched for by a marker or a seed,
\* whatever drops, reconnects, stale answers and keys came between.
THEOREM NothingStaysMissed == Spec => []NothingMissed
  <1>1. IInv /\ NInv => NothingMissed
    <2> SUFFICES ASSUME IInv, NInv, Quiescent, faults = 0
                 PROVE  /\ ui.coverage = "complete" /\ ui.known
                        /\ \A m \in (1 .. posted) \ Mine : m \in ui.rows \cup ui.unread \cup vouched
      BY DEF NothingMissed
    <2> DEFINE none == <<>>
    <2>1. commands = none /\ answers = none /\ feed = none /\ ui.out = none
      BY DEF Quiescent, IInv, Typed
    <2>2. ui.listed /\ link = "up"
      BY DEF Quiescent
    <2>3. /\ \A t : ~Has(none, t)
          /\ ~Asks(none) /\ ~Answering(none)
          /\ \A n : ~Sought(none, n) /\ ~Found(none, n) /\ ~Brought(none, n)
      BY NothingIn
    <2>4. Items(none) = {}
      BY NoItems
    <2> HIDE DEF none
    <2>5. Sure(ui, posted, Spoken, OwedBy(link, feed, commands, answers, posted),
               Resolves(commands, answers), Renews(link, feed, commands, answers))
      BY DEF NInv, Caught, Accounted
    <2>6. ~Resolves(commands, answers) /\ ~Renews(link, feed, commands, answers)
      BY <2>1, <2>2, <2>3 DEF Resolves, Renews
    <2>7. \A n : n \notin OwedBy(link, feed, commands, answers, posted)
      BY <2>1, <2>2, <2>3 DEF OwedBy
    <2>8. Spoken = ui.rows \cup vouched
      BY <2>1, <2>3, <2>4 DEF Spoken, Pages
    <2>9. ~ui.waiting
      BY <2>1, <2>3, <2>5, <2>6 DEF Sure, Words
    <2>10. ui.coverage = "complete" /\ ui.known
      BY <2>1, <2>2, <2>3, <2>5, <2>6, <2>9 DEF Sure, Words
    <2>11. \A m \in (1 .. posted) \ Mine : m \in ui.unread \cup Spoken
      BY <2>1, <2>2, <2>3, <2>5, <2>7, <2>9 DEF Sure, Accounts
    <2> QED
      BY <2>8, <2>10, <2>11
  <1>2. Spec => []NInv
    BY InboxStaysInOrder, InitNInv, StepStaysSure, PTL DEF Spec
  <1> QED
    BY <1>1, <1>2, InboxStaysInOrder, PTL
=============================================================================
