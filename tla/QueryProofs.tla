----------------------------- MODULE QueryProofs -----------------------------
(***************************************************************************)
(* The limiter keeps its quota and is the continuously refilled one, for   *)
(* any keys, quota and length of a minute.                                 *)
(***************************************************************************)
EXTENDS Query, TLAPS

USE QuotaAssumption, MinuteAssumption, MaxWindowAssumption

\* Every request admitted in the window has been paid for.
Paid == \A k \in Keys : admitted[k] * Minute + Refilled(k) <= Capacity + window * Quota

BucketInv == BucketTypeOK /\ Paid

LEMMA CapacityType == Capacity \in Nat
  BY DEF Capacity

\* The products of the refill.
LEMMA Products ==
  ASSUME NEW a \in Nat
  PROVE  /\ a * Quota \in Nat /\ a * Minute \in Nat
         /\ (a + 1) * Quota = a * Quota + Quota
         /\ (a + 1) * Minute = a * Minute + Minute
         /\ 0 * Quota = 0 /\ 0 * Minute = 0
  OBVIOUS

LEMMA RefilledFacts ==
  ASSUME BucketTypeOK, NEW k \in Keys
  PROVE  /\ Refilled(k) \in 0..Capacity
         /\ tokens[k] \in Nat /\ age[k] \in 0..Minute /\ age[k] * Quota \in Nat
         /\ age[k] = Minute => Refilled(k) = Capacity
<1>1. tokens[k] \in 0..Capacity /\ age[k] \in 0..Minute
  BY DEF BucketTypeOK
<1>2. tokens[k] \in Nat /\ age[k] \in Nat /\ age[k] * Quota \in Nat
  BY <1>1, CapacityType, Products
<1>3. Refilled(k) \in 0..Capacity
  BY <1>2, CapacityType DEF Refilled
<1>4. ASSUME age[k] = Minute PROVE Refilled(k) = Capacity
  <2>1. age[k] * Quota = Capacity
    BY <1>4 DEF Capacity
  <2>2. QED
    BY <1>2, <2>1, CapacityType DEF Refilled
<1>5. QED
  BY <1>1, <1>2, <1>3, <1>4

LEMMA BucketInitInvariant == BucketInit => BucketInv
<1>1. SUFFICES ASSUME BucketInit PROVE BucketInv
  OBVIOUS
<1>2. BucketTypeOK
  BY <1>1, CapacityType DEF BucketInit, BucketTypeOK
<1>3. Paid
  <2>1. SUFFICES ASSUME NEW k \in Keys
                 PROVE  admitted[k] * Minute + Refilled(k) <= Capacity + window * Quota
    BY DEF Paid
  <2>2. admitted[k] = 0 /\ window = 0 /\ Refilled(k) \in 0..Capacity
    BY <1>1, <1>2, RefilledFacts DEF BucketInit
  <2>3. admitted[k] * Minute = 0 /\ window * Quota = 0
    BY <2>2, Products
  <2>4. QED
    BY <2>2, <2>3, CapacityType
<1>4. QED
  BY <1>2, <1>3 DEF BucketInv

-----------------------------------------------------------------------------
(* The steps of the bucket. *)

\* A tick raises every level by Quota, up to the capacity.
LEMMA TickFacts ==
  ASSUME BucketTypeOK, TickBuckets, NEW k \in Keys
  PROVE  /\ Refilled(k)' \in 0..Capacity
         /\ Refilled(k)' = IF Refilled(k) + Quota > Capacity THEN Capacity ELSE Refilled(k) + Quota
<1>1. /\ tokens' = tokens
      /\ age'[k] = IF age[k] < Minute THEN age[k] + 1 ELSE age[k]
  BY DEF TickBuckets
<1>2. /\ Refilled(k) \in 0..Capacity
      /\ tokens[k] \in Nat /\ age[k] \in 0..Minute /\ age[k] * Quota \in Nat
      /\ age[k] = Minute => Refilled(k) = Capacity
  BY RefilledFacts
<1>3. CASE age[k] < Minute
  <2>1. age'[k] * Quota = age[k] * Quota + Quota
    BY <1>1, <1>2, <1>3, Products
  <2>2. Refilled(k)' = IF tokens[k] + (age[k] * Quota + Quota) > Capacity
                       THEN Capacity ELSE tokens[k] + (age[k] * Quota + Quota)
    BY <1>1, <2>1 DEF Refilled, Capacity
  <2>3. Refilled(k) = IF tokens[k] + age[k] * Quota > Capacity
                      THEN Capacity ELSE tokens[k] + age[k] * Quota
    BY DEF Refilled
  <2>4. QED
    BY <1>2, <2>2, <2>3, CapacityType
<1>4. CASE age[k] = Minute
  <2>1. Refilled(k)' = Refilled(k)
    BY <1>1, <1>4 DEF Refilled, Capacity
  <2>2. QED
    BY <1>2, <1>4, <2>1, CapacityType
<1>5. QED
  BY <1>2, <1>3, <1>4

\* A request pays a token or nothing, and leaves the other keys alone.
LEMMA AllowFacts ==
  ASSUME BucketTypeOK, NEW k \in Keys, Admit(k) \/ Deny(k), NEW l \in Keys
  PROVE  /\ tokens'[l] \in 0..Capacity /\ age'[l] \in 0..Minute
         /\ Admit(k) /\ l = k => /\ Refilled(k) >= Minute
                                /\ Refilled(l)' = Refilled(l) - Minute
         /\ ~Admit(k) \/ l # k => Refilled(l)' = Refilled(l)
<1>1. /\ Refilled(l) \in 0..Capacity
      /\ tokens[l] \in 0..Capacity /\ age[l] \in 0..Minute
  BY RefilledFacts DEF BucketTypeOK
<1>2. CASE l # k
  <2>1. tokens'[l] = tokens[l] /\ age'[l] = age[l]
    BY <1>2 DEF Admit, Deny, BucketTypeOK
  <2>2. QED
    BY <1>1, <1>2, <2>1 DEF Refilled, Capacity
<1>3. CASE l = k /\ Admit(k)
  <2>1. /\ tokens'[l] = Refilled(l) - Minute /\ age'[l] = 0
        /\ Refilled(l) >= Minute
    BY <1>3 DEF Admit, BucketTypeOK
  <2>2. age'[l] * Quota = 0
    BY <2>1, Products
  <2>3. tokens'[l] \in 0..Capacity
    BY <1>1, <2>1, CapacityType
  <2>4. Refilled(l)' = tokens'[l]
    BY <2>2, <2>3, CapacityType DEF Refilled, Capacity
  <2>5. QED
    BY <1>1, <1>3, <2>1, <2>3, <2>4
<1>4. CASE l = k /\ Deny(k) /\ ~Admit(k)
  <2>1. tokens'[l] = Refilled(l) /\ age'[l] = 0
    BY <1>4 DEF Deny, BucketTypeOK
  <2>2. age'[l] * Quota = 0
    BY <2>1, Products
  <2>3. Refilled(l)' = tokens'[l]
    BY <1>1, <2>1, <2>2, CapacityType DEF Refilled, Capacity
  <2>4. QED
    BY <1>1, <1>4, <2>1, <2>3
<1>5. QED
  BY <1>2, <1>3, <1>4

LEMMA FreshFacts ==
  ASSUME Fresh, NEW k \in Keys
  PROVE  /\ Refilled(k)' = Capacity
         /\ tokens'[k] \in 0..Capacity /\ age'[k] \in 0..Minute
<1>1. tokens'[k] = Capacity /\ age'[k] = 0
  BY DEF Fresh
<1>2. age'[k] * Quota = 0
  BY <1>1, Products
<1>3. QED
  BY <1>1, <1>2, CapacityType DEF Refilled, Capacity

LEMMA BucketNextInvariant == BucketInv /\ [BucketNext]_bucketVars => BucketInv'
<1>1. SUFFICES ASSUME BucketInv, [BucketNext]_bucketVars PROVE BucketInv'
  OBVIOUS
<1>2. BucketTypeOK /\ Paid
  BY <1>1 DEF BucketInv
<1>3. SUFFICES BucketTypeOK' /\ Paid'
  BY DEF BucketInv
<1>4. CASE UNCHANGED bucketVars
  BY <1>2, <1>4 DEF bucketVars, BucketTypeOK, Paid, Refilled, Capacity
<1>5. ASSUME NewWindow, \A k \in Keys : Refilled(k)' \in 0..Capacity
      PROVE  Paid'
  <2>1. SUFFICES ASSUME NEW k \in Keys
                 PROVE  admitted'[k] * Minute + Refilled(k)' <= Capacity + window' * Quota
    BY DEF Paid, Capacity
  <2>2. admitted'[k] = 0 /\ window' = 0
    BY <1>5 DEF NewWindow
  <2>3. admitted'[k] * Minute = 0 /\ window' * Quota = 0
    BY <2>2, Products
  <2>4. Refilled(k)' \in 0..Capacity
    BY <1>5
  <2>5. QED
    BY <2>3, <2>4, CapacityType
<1>6. CASE TickBuckets
  <2>1. tokens' \in [Keys -> 0..Capacity] /\ age' \in [Keys -> 0..Minute]
    BY <1>2, <1>6 DEF TickBuckets, BucketTypeOK
  <2>2. \A k \in Keys : Refilled(k)' \in 0..Capacity
    BY <1>2, <1>6, TickFacts
  <2>3. CASE NewWindow
    BY <1>5, <2>1, <2>2, <2>3 DEF NewWindow, BucketTypeOK, Capacity
  <2>4. CASE window < MaxWindow /\ window' = window + 1 /\ UNCHANGED admitted
    <3>1. window \in 0..MaxWindow /\ admitted \in [Keys -> Nat]
      BY <1>2 DEF BucketTypeOK
    <3>2. BucketTypeOK'
      BY <2>1, <2>4, <3>1 DEF BucketTypeOK, Capacity
    <3>3. SUFFICES ASSUME NEW k \in Keys
                   PROVE  admitted[k] * Minute + Refilled(k)' <= Capacity + (window + 1) * Quota
      BY <2>4, <3>2 DEF Paid, Capacity
    <3>4. /\ (window + 1) * Quota = window * Quota + Quota
          /\ window * Quota \in Nat /\ admitted[k] * Minute \in Nat
      BY <3>1, Products
    <3>5. admitted[k] * Minute + Refilled(k) <= Capacity + window * Quota
      BY <1>2 DEF Paid
    <3>6. Refilled(k) \in 0..Capacity /\ Refilled(k)' \in 0..Capacity
      BY <1>2, <2>2, RefilledFacts
    <3>7. Refilled(k)' <= Refilled(k) + Quota
      BY <1>2, <1>6, <3>6, TickFacts, CapacityType
    <3>8. QED
      BY <3>4, <3>5, <3>6, <3>7, CapacityType
  <2>5. QED
    BY <1>6, <2>3, <2>4 DEF TickBuckets
<1>7. CASE RestartBuckets
  <2>1. \A k \in Keys : Refilled(k)' \in 0..Capacity
    BY <1>7, FreshFacts, CapacityType DEF RestartBuckets
  <2>2. BucketTypeOK'
    BY <1>7, CapacityType DEF RestartBuckets, Fresh, NewWindow, BucketTypeOK, Capacity
  <2>3. QED
    BY <1>5, <1>7, <2>1, <2>2 DEF RestartBuckets
<1>8. ASSUME NEW k \in Keys, Admit(k) \/ Deny(k)
      PROVE  BucketTypeOK' /\ Paid'
  <2>1. window' = window /\ window \in 0..MaxWindow /\ admitted \in [Keys -> Nat]
    BY <1>2, <1>8 DEF Admit, Deny, BucketTypeOK
  <2>2. admitted' \in [Keys -> Nat]
    BY <1>8, <2>1 DEF Admit, Deny
  <2>3. tokens' \in [Keys -> 0..Capacity] /\ age' \in [Keys -> 0..Minute]
    <3>1. \A l \in Keys : tokens'[l] \in 0..Capacity /\ age'[l] \in 0..Minute
      BY <1>2, <1>8, AllowFacts
    <3>2. /\ tokens' = [l \in Keys |-> tokens'[l]]
          /\ age' = [l \in Keys |-> age'[l]]
      BY <1>2, <1>8 DEF Admit, Deny, BucketTypeOK
    <3>3. QED
      BY <3>1, <3>2
  <2>4. BucketTypeOK'
    BY <2>1, <2>2, <2>3 DEF BucketTypeOK, Capacity
  <2>5. SUFFICES ASSUME NEW l \in Keys
                 PROVE  admitted'[l] * Minute + Refilled(l)' <= Capacity + window * Quota
    BY <2>1, <2>4 DEF Paid, Capacity
  <2>6. admitted[l] * Minute + Refilled(l) <= Capacity + window * Quota
    BY <1>2 DEF Paid
  <2>7. /\ admitted[l] \in Nat /\ admitted[l] * Minute \in Nat /\ window * Quota \in Nat
        /\ (admitted[l] + 1) * Minute = admitted[l] * Minute + Minute
    BY <2>1, Products
  <2>8. Refilled(l) \in 0..Capacity
    BY <1>2, RefilledFacts
  <2>9. CASE Admit(k) /\ l = k
    <3>1. admitted'[l] = admitted[l] + 1
      BY <2>1, <2>9 DEF Admit
    <3>2. Refilled(l)' = Refilled(l) - Minute
      BY <1>2, <2>9, AllowFacts
    <3>3. QED
      BY <2>6, <2>7, <2>8, <3>1, <3>2, CapacityType
  <2>10. CASE ~(Admit(k) /\ l = k)
    <3>1. admitted'[l] = admitted[l]
      BY <1>8, <2>1, <2>10 DEF Admit, Deny
    <3>2. Refilled(l)' = Refilled(l)
      BY <1>2, <1>8, <2>10, AllowFacts
    <3>3. QED
      BY <2>6, <3>1, <3>2
  <2>11. QED
    BY <2>9, <2>10
<1>9. QED
  BY <1>1, <1>4, <1>6, <1>7, <1>8 DEF BucketNext

-----------------------------------------------------------------------------
(* The continuous level. *)

LEMMA LevelIs ==
  /\ \A k \in Keys : Level[k] = Refilled(k)
  /\ Level' = [k \in Keys |-> Refilled(k)']
  /\ Eager!Full = Capacity
  BY DEF Level, Refilled, Capacity, Eager!Full

LEMMA LevelInit == BucketInit => Eager!Init
<1>1. SUFFICES ASSUME BucketInit, NEW k \in Keys PROVE Refilled(k) = Capacity
  BY LevelIs DEF Eager!Init, Level
<1>2. tokens[k] = Capacity /\ age[k] = 0
  BY <1>1 DEF BucketInit
<1>3. age[k] * Quota = 0
  BY <1>2, Products
<1>4. QED
  BY <1>2, <1>3, CapacityType DEF Refilled

\* A step of the lazy bucket is one of the continuous level, or leaves it alone.
LEMMA LevelStep ==
  ASSUME BucketTypeOK, [BucketNext]_bucketVars
  PROVE  [Eager!Next]_Level
<1>1. CASE TickBuckets
  <2>1. Level' = [k \in Keys |-> IF Level[k] + Quota > Eager!Full THEN Eager!Full
                                                                 ELSE Level[k] + Quota]
    BY <1>1, TickFacts, LevelIs
  <2>2. QED
    BY <2>1 DEF Eager!Next, Eager!Tick
<1>2. CASE RestartBuckets
  <2>1. Level' = [k \in Keys |-> Eager!Full]
    BY <1>2, FreshFacts, LevelIs DEF RestartBuckets
  <2>2. QED
    BY <2>1 DEF Eager!Next, Eager!Restart
<1>3. ASSUME NEW k \in Keys, Admit(k)
      PROVE  Eager!Next
  <2>1. /\ Level[k] >= Minute
        /\ \A l \in Keys : Refilled(l)' = IF l = k THEN Level[k] - Minute ELSE Level[l]
    BY <1>3, AllowFacts, LevelIs
  <2>2. Level' = [Level EXCEPT ![k] = @ - Minute]
    BY <2>1, LevelIs DEF Level
  <2>3. QED
    BY <2>1, <2>2 DEF Eager!Next, Eager!Pass
<1>4. ASSUME NEW k \in Keys, Deny(k), ~Admit(k)
      PROVE  UNCHANGED Level
  <2>1. \A l \in Keys : Refilled(l)' = Refilled(l)
    BY <1>4, AllowFacts
  <2>2. QED
    BY <2>1, LevelIs DEF Level
<1>5. CASE UNCHANGED bucketVars
  BY <1>5 DEF bucketVars, Level, Refilled, Capacity
<1>6. QED
  BY <1>1, <1>2, <1>3, <1>4, <1>5 DEF BucketNext

-----------------------------------------------------------------------------
(* The answers. *)

\* Between two questions a client's handler holds nothing.
IdleHoldsNothing ==
  \A c \in Clients :
    at[c] \notin {"segments", "answer"} => hits[c] = {} /\ refs[c] = NoRefs

\* What was deleted before the question stays deleted, and is neither found nor quoted.
HiddenUnread ==
  \A c \in Clients : \A v \in hidden[c] :
    videos[v].deleted /\ v \notin hits[c] /\ refs[c][v] = "no"

\* A hit was complete when it was found, and is tagged unless its row has gone.
CompletedIsTagged == \A v \in Videos : videos[v].status = "completed" => videos[v].tagged
HitsAreTagged == \A c \in Clients : \A v \in hits[c] : v \in lost[c] \/ videos[v].tagged
BareIsLost == \A c \in Clients, v \in Videos : refs[c][v] = "bare" => v \in lost[c]

AnswerInv ==
  QueryTypeOK /\ IdleHoldsNothing /\ HiddenUnread /\ CompletedIsTagged /\ HitsAreTagged /\ BareIsLost

LEMMA RowFacts ==
  /\ NoVideo \in VideoRow /\ InsertedVideo(NoID) \in VideoRow
  /\ NoVideo.status = "none" /\ ~NoVideo.deleted /\ ~NoVideo.tagged
  /\ InsertedVideo(NoID).status = "processing" /\ ~InsertedVideo(NoID).deleted
  /\ \A row \in VideoRow :
       /\ WithSegments(row) \in VideoRow /\ WithSegments(row).tagged
       /\ WithSegments(row).deleted = row.deleted /\ WithSegments(row).status = row.status
       /\ WithVideoStatus(row, "completed") \in VideoRow
       /\ WithVideoStatus(row, "completed").tagged = row.tagged
       /\ WithVideoStatus(row, "completed").deleted = row.deleted
       /\ SoftDeleted(row) \in VideoRow /\ SoftDeleted(row).deleted
       /\ SoftDeleted(row).tagged = row.tagged /\ SoftDeleted(row).status = row.status
  BY DEF VideoRow, VideoStatus, VideoID, NoID, Content, Summary, NoVideo, InsertedVideo,
         WithSegments, WithVideoStatus, SoftDeleted

LEMMA AnswerInitInvariant == Init => AnswerInv
  BY RowFacts DEF Init, AnswerInv, QueryTypeOK, IdleHoldsNothing, HiddenUnread, CompletedIsTagged,
     HitsAreTagged, BareIsLost, NoRefs, Quoted, Places, Replies

\* A handler goes on, knowing what it knew.
LEMMA PassInvariant ==
  ASSUME AnswerInv, NEW c \in Clients, at[c] \notin {"segments", "answer"},
         NEW place \in Places, Pass(c, place), Reads
  PROVE  AnswerInv'
<1>1. at' = [at EXCEPT ![c] = place] /\ UNCHANGED <<scope, videos, key, reply, hits, refs, lost, hidden>>
  BY DEF Pass, Reads, Goto
<1>2. \A d \in Clients : at'[d] \notin {"segments", "answer"} => at[d] \notin {"segments", "answer"}
  BY <1>1 DEF AnswerInv, QueryTypeOK
<1>3. QED
  BY <1>1, <1>2 DEF AnswerInv, QueryTypeOK, IdleHoldsNothing, HiddenUnread, CompletedIsTagged,
     HitsAreTagged, BareIsLost

\* A handler answers, and forgets.
LEMMA AnswerInvariant ==
  ASSUME AnswerInv, NEW c \in Clients, NEW r \in Replies, Answer(c, r), Reads
  PROVE  AnswerInv'
<1>1. /\ at' = [at EXCEPT ![c] = "idle"] /\ reply' = [reply EXCEPT ![c] = r]
      /\ hits' = [hits EXCEPT ![c] = {}] /\ refs' = [refs EXCEPT ![c] = NoRefs]
      /\ lost' = [lost EXCEPT ![c] = {}] /\ hidden' = [hidden EXCEPT ![c] = {}]
      /\ UNCHANGED <<scope, videos, key>>
  BY DEF Answer, Forget, Goto, Reads
<1>2. QueryTypeOK'
  BY <1>1 DEF AnswerInv, QueryTypeOK, Places, NoRefs, Quoted
<1>3. \A d \in Clients :
        \/ d = c /\ hits'[d] = {} /\ refs'[d] = NoRefs /\ hidden'[d] = {}
        \/ /\ at'[d] = at[d] /\ hits'[d] = hits[d] /\ refs'[d] = refs[d]
           /\ lost'[d] = lost[d] /\ hidden'[d] = hidden[d]
  BY <1>1 DEF AnswerInv, QueryTypeOK
<1>4. IdleHoldsNothing' /\ HiddenUnread' /\ CompletedIsTagged' /\ HitsAreTagged'
  BY <1>1, <1>3 DEF AnswerInv, IdleHoldsNothing, HiddenUnread, CompletedIsTagged, HitsAreTagged,
     NoRefs
<1>5. BareIsLost'
  BY <1>1, <1>3 DEF AnswerInv, BareIsLost, NoRefs
<1>6. QED
  BY <1>2, <1>4, <1>5 DEF AnswerInv

LEMMA AskInvariant ==
  ASSUME AnswerInv, NEW c \in Clients, Ask(c)
  PROVE  AnswerInv'
<1>1. /\ at[c] = "idle" /\ at' = [at EXCEPT ![c] = "key"]
      /\ reply' = [reply EXCEPT ![c] = "none"]
      /\ hidden' = [hidden EXCEPT ![c] = {v \in Videos : videos[v].deleted}]
      /\ UNCHANGED <<scope, videos, hits, refs, lost>>
  BY DEF Ask, Goto
<1>2. QueryTypeOK'
  <2>1. key' \in [Clients -> Keys]
    BY DEF Ask, AnswerInv, QueryTypeOK
  <2>2. {v \in Videos : videos[v].deleted} \in SUBSET Videos
    OBVIOUS
  <2>3. hidden' \in [Clients -> SUBSET Videos]
    BY <1>1, <2>2 DEF AnswerInv, QueryTypeOK
  <2>4. at' \in [Clients -> Places] /\ reply' \in [Clients -> Replies]
    BY <1>1 DEF AnswerInv, QueryTypeOK, Places, Replies
  <2>5. QED
    BY <1>1, <2>1, <2>3, <2>4 DEF AnswerInv, QueryTypeOK
<1>3. hits[c] = {} /\ refs[c] = NoRefs
  BY <1>1 DEF AnswerInv, IdleHoldsNothing
<1>4. HiddenUnread'
  <2>1. \A d \in Clients : d # c => hidden'[d] = hidden[d]
    BY <1>1 DEF AnswerInv, QueryTypeOK
  <2>2. hidden'[c] = {v \in Videos : videos[v].deleted}
    BY <1>1 DEF AnswerInv, QueryTypeOK
  <2>3. QED
    BY <1>1, <1>3, <2>1, <2>2 DEF AnswerInv, HiddenUnread, NoRefs
<1>5. \A d \in Clients : at'[d] \notin {"segments", "answer"} => at[d] \notin {"segments", "answer"}
  BY <1>1 DEF AnswerInv, QueryTypeOK
<1>6. QED
  BY <1>1, <1>2, <1>4, <1>5 DEF AnswerInv, IdleHoldsNothing, CompletedIsTagged, HitsAreTagged,
     BareIsLost

LEMMA SearchInvariant ==
  ASSUME AnswerInv, NEW c \in Clients, at[c] = "search", Reads,
         NEW found \in SUBSET Nearest,
         hits' = [hits EXCEPT ![c] = found], Goto(c, "segments"),
         UNCHANGED <<reply, refs, lost, hidden>>
  PROVE  AnswerInv'
<1>1. at' = [at EXCEPT ![c] = "segments"] /\ UNCHANGED <<scope, videos, key>>
  BY DEF Goto, Reads
<1>2. \A v \in found : v \in Videos /\ videos[v].status = "completed" /\ ~videos[v].deleted
  BY DEF Nearest, Searchable
<1>3. /\ hits'[c] = found /\ at'[c] = "segments"
      /\ \A d \in Clients : d # c => hits'[d] = hits[d] /\ at'[d] = at[d]
  BY <1>1 DEF AnswerInv, QueryTypeOK
<1>4. QueryTypeOK'
  BY <1>1, <1>2 DEF AnswerInv, QueryTypeOK, Places
<1>5. IdleHoldsNothing'
  BY <1>3 DEF AnswerInv, IdleHoldsNothing
<1>6. HiddenUnread'
  BY <1>1, <1>2, <1>3 DEF AnswerInv, HiddenUnread
<1>7. HitsAreTagged'
  BY <1>1, <1>2, <1>3 DEF AnswerInv, HitsAreTagged, CompletedIsTagged
<1>8. QED
  BY <1>1, <1>4, <1>5, <1>6, <1>7 DEF AnswerInv, CompletedIsTagged, BareIsLost

LEMMA ListInvariant ==
  ASSUME AnswerInv, NEW c \in Clients, ListSegments(c)
  PROVE  AnswerInv'
<1>0. PICK v \in hits[c] :
        /\ refs' = [refs EXCEPT ![c][v] =
                       IF videos[v].tagged /\ v \notin lost[c] /\ @ # "bare"
                         THEN "listed" ELSE "bare"]
        /\ \/ /\ hits' = [hits EXCEPT ![c] = @ \ {v}]
              /\ Goto(c, IF hits[c] = {v} THEN "answer" ELSE "segments")
           \/ UNCHANGED <<hits, at>>
  BY DEF ListSegments
<1>1. PICK rest \in {hits[c], hits[c] \ {v}}, place \in {"answer", "segments"} :
        hits' = [hits EXCEPT ![c] = rest] /\ at' = [at EXCEPT ![c] = place]
  <2>1. CASE UNCHANGED <<hits, at>>
    <3>1. hits' = [hits EXCEPT ![c] = hits[c]] /\ at' = [at EXCEPT ![c] = "segments"]
      BY <2>1 DEF ListSegments, AnswerInv, QueryTypeOK
    <3> QED
      BY <3>1
  <2>2. CASE /\ hits' = [hits EXCEPT ![c] = @ \ {v}]
             /\ Goto(c, IF hits[c] = {v} THEN "answer" ELSE "segments")
    BY <2>2 DEF Goto
  <2> QED
    BY <1>0, <2>1, <2>2
<1>2. UNCHANGED <<scope, videos, key, reply, lost, hidden>>
  BY DEF ListSegments, Reads
<1>3. /\ v \in Videos /\ v \notin hidden[c]
      /\ v \in lost[c] \/ videos[v].tagged
  BY DEF AnswerInv, QueryTypeOK, HiddenUnread, HitsAreTagged
<1>4. PICK r \in {"listed", "bare"} :
        /\ refs' = [refs EXCEPT ![c] = [refs[c] EXCEPT ![v] = r]]
        /\ r = "bare" => v \in lost[c]
  <2>1. refs[c][v] = "bare" => v \in lost[c]
    BY <1>3 DEF AnswerInv, BareIsLost
  <2> QED
    BY <1>0, <1>3, <2>1
<1>6. /\ at'[c] \in {"answer", "segments"} /\ hits'[c] \subseteq hits[c]
      /\ refs'[c] = [refs[c] EXCEPT ![v] = r]
      /\ \A d \in Clients : d # c => hits'[d] = hits[d] /\ at'[d] = at[d] /\ refs'[d] = refs[d]
  BY <1>1, <1>4 DEF AnswerInv, QueryTypeOK
<1>7. [refs[c] EXCEPT ![v] = r] \in Quoted
  BY DEF AnswerInv, QueryTypeOK, Quoted
<1>8. QueryTypeOK'
  <2>1. at' \in [Clients -> Places]
    BY <1>1 DEF AnswerInv, QueryTypeOK, Places
  <2>2. hits' \in [Clients -> SUBSET Videos]
    BY <1>1 DEF AnswerInv, QueryTypeOK
  <2>3. refs' \in [Clients -> Quoted]
    <3>1. refs \in [Clients -> Quoted]
      BY DEF AnswerInv, QueryTypeOK
    <3>2. QED
      BY <1>4, <1>7, <3>1
  <2>4. QED
    BY <1>2, <2>1, <2>2, <2>3 DEF AnswerInv, QueryTypeOK
<1>9. \A u \in Videos : refs'[c][u] = IF u = v THEN r ELSE refs[c][u]
  BY <1>6 DEF AnswerInv, QueryTypeOK, Quoted
<1>10. IdleHoldsNothing'
  BY <1>6 DEF AnswerInv, IdleHoldsNothing
<1>11. HiddenUnread'
  <2>1. SUFFICES ASSUME NEW d \in Clients, NEW u \in hidden[d]
                 PROVE  videos[u].deleted /\ u \notin hits'[d] /\ refs'[d][u] = "no"
    BY <1>2 DEF HiddenUnread
  <2>2. u \in Videos /\ videos[u].deleted /\ u \notin hits[d] /\ refs[d][u] = "no"
    BY DEF AnswerInv, QueryTypeOK, HiddenUnread
  <2>3. d = c => u # v
    BY <1>3
  <2>4. QED
    BY <1>6, <1>9, <2>2, <2>3
<1>12. HitsAreTagged'
  BY <1>2, <1>6 DEF AnswerInv, HitsAreTagged
<1>13. BareIsLost'
  BY <1>2, <1>4, <1>6, <1>9 DEF AnswerInv, BareIsLost
<1>14. QED
  BY <1>2, <1>8, <1>10, <1>11, <1>12, <1>13 DEF AnswerInv, CompletedIsTagged

LEMMA ServeInvariant ==
  ASSUME AnswerInv, NEW c \in Clients, Serve(c)
  PROVE  AnswerInv'
<1>1. CASE Authenticate(c)
  BY <1>1, PassInvariant, AnswerInvariant DEF Authenticate, Places, Replies
<1>2. CASE CheckScope(c)
  BY <1>2, PassInvariant, AnswerInvariant DEF CheckScope, Places, Replies
<1>3. CASE Limit(c)
  BY <1>3, PassInvariant, AnswerInvariant DEF Limit, Places, Replies
<1>4. CASE EmbedQuestion(c)
  BY <1>4, PassInvariant DEF EmbedQuestion, Places
<1>5. CASE Search(c)
  BY <1>5, SearchInvariant, AnswerInvariant DEF Search, Replies
<1>6. CASE ListSegments(c)
  BY <1>6, ListInvariant
<1>7. CASE AnswerQuery(c)
  BY <1>7, AnswerInvariant DEF AnswerQuery, Replies
<1>8. CASE Fails(c)
  BY <1>8, AnswerInvariant DEF Fails, Replies
<1>9. QED
  BY <1>1, <1>2, <1>3, <1>4, <1>5, <1>6, <1>7, <1>8 DEF Serve

\* Runs, retries and deletions.
LEMMA VideoInvariant ==
  ASSUME AnswerInv, NEW v \in Videos, Run(v) \/ Delete(v)
  PROVE  AnswerInv'
<1>1. videos \in [Videos -> VideoRow] /\ videos[v] \in VideoRow
  BY DEF AnswerInv, QueryTypeOK
<1>2. ASSUME NEW row \in VideoRow, Update(v, row), UNCHANGED <<lost, hidden>>,
             videos[v].deleted => row.deleted,
             videos[v].tagged => row.tagged,
             row.status = "completed" => row.tagged
      PROVE  AnswerInv'
  <2>1. videos' = [videos EXCEPT ![v] = row] /\ UNCHANGED <<scope, at, key, hits, refs, reply>>
    BY <1>2 DEF Update
  <2>2. \A u \in Videos : videos'[u] = IF u = v THEN row ELSE videos[u]
    BY <1>1, <2>1
  <2>3. QueryTypeOK'
    BY <1>1, <1>2, <2>1 DEF AnswerInv, QueryTypeOK
  <2>4. IdleHoldsNothing' /\ BareIsLost'
    BY <1>2, <2>1 DEF AnswerInv, IdleHoldsNothing, BareIsLost
  <2>5. \A c \in Clients : hidden[c] \subseteq Videos /\ hits[c] \subseteq Videos
    BY DEF AnswerInv, QueryTypeOK
  <2>6. HiddenUnread' /\ CompletedIsTagged' /\ HitsAreTagged'
    BY <1>2, <2>1, <2>2, <2>5 DEF AnswerInv, HiddenUnread, CompletedIsTagged, HitsAreTagged
  <2>7. QED
    BY <2>3, <2>4, <2>6 DEF AnswerInv
<1>3. CASE videos[v] = NoVideo /\ Update(v, InsertedVideo(NoID)) /\ UNCHANGED <<lost, hidden>>
  BY <1>2, <1>3, RowFacts
<1>4. CASE /\ videos[v].status = "processing"
           /\ Update(v, IF videos[v].tagged THEN WithVideoStatus(videos[v], "completed")
                                            ELSE WithSegments(videos[v]))
           /\ UNCHANGED <<lost, hidden>>
  <2>1. CASE videos[v].tagged
    BY <1>1, <1>2, <1>4, <2>1, RowFacts
  <2>2. CASE ~videos[v].tagged
    BY <1>1, <1>2, <1>4, <2>2, RowFacts
  <2>3. QED
    BY <2>1, <2>2
<1>5. CASE Delete(v)
  <2>1. Update(v, SoftDeleted(videos[v])) /\ UNCHANGED <<lost, hidden>>
    BY <1>5 DEF Delete
  <2>2. videos[v].status = "completed" => videos[v].tagged
    BY DEF AnswerInv, CompletedIsTagged
  <2>3. QED
    BY <1>1, <1>2, <2>1, <2>2, RowFacts
<1>6. CASE /\ Update(v, DeletedByJobID(videos[v]))
           /\ lost' = [c \in Clients |-> lost[c] \union ({v} \intersect hits[c])]
           /\ hidden' = [c \in Clients |-> hidden[c] \ {v}]
  <2>1. videos' = [videos EXCEPT ![v] = NoVideo] /\ UNCHANGED <<scope, at, key, hits, refs, reply>>
    BY <1>6 DEF Update, DeletedByJobID
  <2>2. /\ videos' \in [Videos -> VideoRow]
        /\ \A u \in Videos : videos'[u] = IF u = v THEN NoVideo ELSE videos[u]
    BY <1>1, <2>1, RowFacts
  <2>3. QueryTypeOK'
    BY <1>6, <2>1, <2>2 DEF AnswerInv, QueryTypeOK
  <2>4. \A c \in Clients : /\ hidden'[c] = hidden[c] \ {v}
                           /\ lost[c] \subseteq lost'[c] /\ (v \in hits[c] => v \in lost'[c])
                           /\ hidden[c] \subseteq Videos /\ hits[c] \subseteq Videos
    BY <1>6 DEF AnswerInv, QueryTypeOK
  <2>5. IdleHoldsNothing' /\ BareIsLost'
    BY <2>1, <2>4 DEF AnswerInv, IdleHoldsNothing, BareIsLost
  <2>6. HiddenUnread' /\ HitsAreTagged'
    BY <2>1, <2>2, <2>4 DEF AnswerInv, HiddenUnread, HitsAreTagged
  <2>7. CompletedIsTagged'
    BY <2>2, RowFacts DEF AnswerInv, CompletedIsTagged
  <2>8. QED
    BY <2>3, <2>5, <2>6, <2>7 DEF AnswerInv
<1>7. QED
  BY <1>3, <1>4, <1>5, <1>6 DEF Run

LEMMA RestartInvariant ==
  ASSUME AnswerInv, Restart
  PROVE  AnswerInv'
  BY DEF Restart, AnswerInv, QueryTypeOK, IdleHoldsNothing, HiddenUnread, CompletedIsTagged,
     HitsAreTagged, BareIsLost, NoRefs, Quoted, Places

LEMMA AnswerNextInvariant == AnswerInv /\ [Next]_vars => AnswerInv'
<1>1. SUFFICES ASSUME AnswerInv, [Next]_vars PROVE AnswerInv'
  OBVIOUS
<1>2. ASSUME UNCHANGED <<scope, videos, request>> PROVE AnswerInv'
  BY <1>1, <1>2 DEF request, AnswerInv, QueryTypeOK, IdleHoldsNothing, HiddenUnread,
     CompletedIsTagged, HitsAreTagged, BareIsLost
<1>3. CASE Tick
  BY <1>2, <1>3 DEF Tick
<1>4. CASE UNCHANGED vars
  BY <1>2, <1>4 DEF vars
<1>5. QED
  BY <1>1, <1>3, <1>4, AskInvariant, ServeInvariant, VideoInvariant, RestartInvariant DEF Next

-----------------------------------------------------------------------------
(* The chain of handlers takes the bucket's steps only. *)

LEMMA StepOfBucket ==
  ASSUME QueryTypeOK, [Next]_vars
  PROVE  [BucketNext]_bucketVars
<1>1. ASSUME NEW c \in Clients, Ask(c) \/ Serve(c) PROVE [BucketNext]_bucketVars
  <2>1. CASE Limit(c)
    BY <2>1 DEF Limit, QueryTypeOK, BucketNext
  <2>2. CASE ~Limit(c)
    BY <1>1, <2>2 DEF Ask, Serve, Authenticate, CheckScope, EmbedQuestion, Search, ListSegments,
       AnswerQuery, Fails
  <2>3. QED
    BY <2>1, <2>2
<1>2. ASSUME NEW v \in Videos, Run(v) \/ Delete(v) PROVE [BucketNext]_bucketVars
  BY <1>2 DEF Run, Delete, Update
<1>3. CASE Tick \/ Restart
  BY <1>3 DEF Tick, Restart, BucketNext
<1>4. CASE UNCHANGED vars
  BY <1>4 DEF vars
<1>5. QED
  BY <1>1, <1>2, <1>3, <1>4 DEF Next

IInv == BucketInv /\ AnswerInv

(***************************************************************************)
(* What the limiter has charged for and what the handlers know.            *)
(***************************************************************************)
THEOREM QueryInvariance == Spec => []IInv
<1>1. Init => IInv
  BY BucketInitInvariant, AnswerInitInvariant DEF Init, IInv
<1>2. IInv /\ [Next]_vars => IInv'
  BY StepOfBucket, BucketNextInvariant, AnswerNextInvariant DEF IInv, AnswerInv
<1>3. QED
  BY <1>1, <1>2, PTL DEF Spec

(***************************************************************************)
(* Types, for any keys, clients and videos.                                *)
(***************************************************************************)
THEOREM QueryTypeCorrectness == Spec => []TypeOK
<1>1. IInv => TypeOK
  BY DEF IInv, BucketInv, AnswerInv, TypeOK
<1>2. QED
  BY <1>1, QueryInvariance, PTL

(***************************************************************************)
(* Allow never lets a key through more often than the burst and the refill *)
(* of a window pay for, however its clients' requests interleave.          *)
(***************************************************************************)
THEOREM QuotaSafety == Spec => []QuotaInWindow
<1>1. IInv => QuotaInWindow
  <2>1. SUFFICES ASSUME IInv, NEW k \in Keys
                 PROVE  admitted[k] * Minute <= Capacity + window * Quota
    BY DEF QuotaInWindow
  <2>2. /\ BucketTypeOK
        /\ admitted[k] * Minute + Refilled(k) <= Capacity + window * Quota
    BY <2>1 DEF IInv, BucketInv, Paid
  <2>3. admitted[k] \in Nat /\ window \in Nat /\ Refilled(k) \in 0..Capacity
    BY <2>2, RefilledFacts DEF BucketTypeOK
  <2>4. admitted[k] * Minute \in Nat /\ window * Quota \in Nat
    BY <2>3, Products
  <2>5. QED
    BY <2>2, <2>3, <2>4, CapacityType
<1>2. QED
  BY <1>1, QueryInvariance, PTL

(***************************************************************************)
(* The lazily refilled bucket implements the continuously refilled one.    *)
(***************************************************************************)
THEOREM EagerRefinement == Spec => EagerSpec
<1>1. Init => Eager!Init
  BY LevelInit DEF Init
<1>2. IInv /\ [Next]_vars => [Eager!Next]_Level
  BY StepOfBucket, LevelStep DEF IInv, BucketInv, AnswerInv
<1>3. QED
  BY <1>1, <1>2, QueryInvariance, PTL DEF Spec, EagerSpec, Eager!Spec

(***************************************************************************)
(* No answer quotes a video deleted before the question, whatever runs,    *)
(* retries and deletions come between the reads of RAGService.Answer.      *)
(***************************************************************************)
THEOREM DeletionSafety == Spec => []DeletedNotQuoted
<1>1. IInv => DeletedNotQuoted
  BY DEF IInv, AnswerInv, HiddenUnread, DeletedNotQuoted
<1>2. QED
  BY <1>1, QueryInvariance, PTL

(***************************************************************************)
(* A reference lacks the segments of its video only when a retry deleted   *)
(* the row between the search and ListNamesByVideoID.                      *)
(***************************************************************************)
THEOREM ReferenceSafety == Spec => []ReferencesWhole
<1>1. IInv => ReferencesWhole
  BY DEF IInv, AnswerInv, BareIsLost, ReferencesWhole
<1>2. QED
  BY <1>1, QueryInvariance, PTL
=============================================================================
