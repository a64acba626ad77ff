-------------------------- MODULE JobCreationProofs --------------------------
(***************************************************************************)
(* The invariant of POST /jobs and what follows from it, for any requests, *)
(* intents and lists of segments, and under every fault.                   *)
(***************************************************************************)
EXTENDS JobCreation, TLAPS

\* A transaction that has passed the checks is alone with an issued intent.
Locked ==
  \A r \in Requests : InTransaction(r) =>
    /\ intents[file[r]] = "issued"
    /\ \A q \in Requests : q # r /\ InTransaction(q) => file[q] # file[r]

\* Names not yet committed belong to an open transaction that wants them.
Owned ==
  \A n \in Segments, q \in Requests : segments[n] = q =>
    InTransaction(q) /\ \E j \in DOMAIN names[q] : names[q][j] = n

\* The names before the present position are there, or its own.
Ensured ==
  \A r \in Requests : InTransaction(r) =>
    \A i \in DOMAIN names[r] :
      i < at[r] \/ pc[r] = "insert" => segments[names[r][i]] \in {"present", r}

\* A request waits only for one for another intent, with a common segment.
Cause(r) == \E q \in Requests : file[q] # file[r] /\ Shared(r, q) # {}

Caused == \A r \in Requests : pc[r] = "blocked" => Cause(r)

IInv ==
  /\ TypeOK
  /\ ConsumedHasJob
  /\ AnswersAreTrue
  /\ Locked /\ Owned /\ Ensured /\ Caused

LEMMA InitInvariant == Init => IInv
<1> SUFFICES ASSUME Init PROVE IInv
  OBVIOUS
<1>1. TypeOK
  BY WantedAssumption DEF Init, TypeOK, Answers
<1>2. ConsumedHasJob /\ AnswersAreTrue /\ Caused
  BY DEF Init, ConsumedHasJob, AnswersAreTrue, Caused
<1>3. Locked /\ Owned /\ Ensured
  BY RequestsAssumption DEF Init, Locked, Owned, Ensured, InTransaction
<1> QED
  BY <1>1, <1>2, <1>3 DEF IInv

-----------------------------------------------------------------------------
(* Statements of a transaction *)

(***************************************************************************)
(* A rollback with a true answer: what the transaction inserted was its    *)
(* own only, so every other transaction keeps what it counts on.           *)
(***************************************************************************)
LEMMA RollbackStep ==
  ASSUME IInv, NEW r \in Requests, NEW a \in Answers \ {"created", "duplicate"},
         Rollback(r, a),
         a = "consumed" => file[r] \in created,
         a \in {"noRow", "deadlock"} => Cause(r)
  PROVE  IInv'
<1> USE DEF IInv, Rollback, Reply, table, request
<1>1. TypeOK'
  BY DEF TypeOK
<1>2. ConsumedHasJob'
  BY DEF ConsumedHasJob
<1>3. \A q \in Requests \ {r} : pc'[q] = pc[q] /\ answer'[q] = answer[q]
  BY DEF TypeOK
<1>4. pc'[r] = "done" /\ answer'[r] = a
  BY DEF TypeOK
<1>5. \A n \in Segments : segments[n] # r => segments'[n] = segments[n]
  OBVIOUS
<1>6. \A n \in Segments : segments'[n] # r
  BY RequestsAssumption
<1>7. AnswersAreTrue'
  <2> SUFFICES ASSUME NEW p \in Requests
               PROVE  /\ answer'[p] = "created" =>
                           /\ file[p] \in created
                           /\ tags[file[p]] = {names[p][i] : i \in DOMAIN names[p]}
                           /\ \A n \in tags[file[p]] : segments'[n] = "present"
                           /\ \A q \in Requests \ {p} :
                                ~(answer'[q] = "created" /\ file[q] = file[p])
                      /\ answer'[p] = "consumed" => file[p] \in created
                      /\ answer'[p] # "duplicate"
                      /\ answer'[p] \in {"noRow", "deadlock"} => Cause(p)
    BY DEF AnswersAreTrue, Cause, Shared
  <2>1. CASE p = r
    BY <2>1, <1>4
  <2>2. CASE p # r
    <3>1. answer'[p] = answer[p]
      BY <2>2, <1>3
    <3>2. \A n \in Segments : segments[n] = "present" => segments'[n] = "present"
      BY RequestsAssumption
    <3>3. \A q \in Requests : answer'[q] = "created" => answer[q] = "created"
      BY <1>3, <1>4
    <3>4. tags[file[p]] \subseteq Segments
      BY DEF TypeOK
    <3>5. answer'[p] = "created" => \A n \in tags[file[p]] : segments'[n] = "present"
      BY <3>1, <3>2, <3>4 DEF AnswersAreTrue
    <3>6. answer'[p] = "created" =>
            \A q \in Requests \ {p} : ~(answer'[q] = "created" /\ file[q] = file[p])
      BY <3>1, <3>3 DEF AnswersAreTrue
    <3> QED
      BY <3>1, <3>5, <3>6 DEF AnswersAreTrue, Cause
  <2> QED
    BY <2>1, <2>2
<1>8. Locked'
  BY <1>3, <1>4 DEF Locked, InTransaction
<1>9. Owned'
  BY <1>3, <1>6, RequestsAssumption DEF Owned, InTransaction
<1>10. Ensured'
  <2> SUFFICES ASSUME NEW p \in Requests, InTransaction(p)', NEW i \in DOMAIN names[p],
                      i < at[p] \/ pc'[p] = "insert"
               PROVE  segments'[names[p][i]] \in {"present", p}
    BY DEF Ensured
  <2>1. p # r
    BY <1>4 DEF InTransaction
  <2>2. segments[names[p][i]] \in {"present", p}
    BY <1>3, <2>1 DEF Ensured, InTransaction
  <2>3. names[p][i] \in Segments
    BY DEF TypeOK
  <2> QED
    BY <2>1, <2>2, <2>3, RequestsAssumption
<1>11. Caused'
  BY <1>3, <1>4 DEF Caused, Cause, Shared
<1> QED
  BY <1>1, <1>2, <1>7, <1>8, <1>9, <1>10, <1>11

\* Steps that change no answer and no table, only who stands where and owns what.
LEMMA AnswersKept ==
  ASSUME AnswersAreTrue, TypeOK, UNCHANGED <<table, request, answer>>,
         \A n \in Segments : segments[n] = "present" => segments'[n] = "present"
  PROVE  AnswersAreTrue'
<1> USE DEF table, request
<1>1. \A p \in Requests : tags[file[p]] \subseteq Segments
  BY DEF TypeOK
<1> QED
  BY <1>1 DEF AnswersAreTrue, Shared

\* The checks under the lock have passed.
LEMMA StartStep ==
  ASSUME IInv, NEW r \in Requests, pc[r] = "lock", RowFree(file[r]),
         intents[file[r]] = "issued", Ensure(r, 1),
         UNCHANGED <<table, segments, request, answer>>
  PROVE  IInv'
<1> USE DEF IInv, table, request
<1>1. /\ at' = [at EXCEPT ![r] = 1]
      /\ pc' = [pc EXCEPT ![r] = IF 1 <= Len(names[r]) THEN "ensure" ELSE "insert"]
  BY DEF Ensure
<1>2. names[r] \in Seq(Segments) /\ DOMAIN names[r] = 1 .. Len(names[r]) /\ Len(names[r]) \in Nat
  BY DEF TypeOK
<1>3. \A q \in Requests \ {r} : pc'[q] = pc[q] /\ at'[q] = at[q]
  BY <1>1 DEF TypeOK
<1>4. at'[r] = 1 /\ pc'[r] = IF 1 <= Len(names[r]) THEN "ensure" ELSE "insert"
  BY <1>1 DEF TypeOK
<1>5. TypeOK'
  <2>1. pc' \in [Requests -> {"new", "lock", "ensure", "blocked", "insert", "done"}]
        /\ at' \in [Requests -> Nat \ {0}]
    BY <1>1 DEF TypeOK
  <2>2. \A q \in Requests : pc'[q] \in {"ensure", "blocked"} => at'[q] \in DOMAIN names[q]
    BY <1>2, <1>3, <1>4 DEF TypeOK
  <2> QED
    BY <2>1, <2>2 DEF TypeOK
<1>6. ConsumedHasJob' /\ AnswersAreTrue'
  BY AnswersKept DEF ConsumedHasJob
<1>7. Locked'
  BY <1>3, <1>4 DEF Locked, InTransaction, RowFree
<1>8. Owned'
  BY <1>3, <1>4 DEF Owned, InTransaction
<1>9. Ensured'
  BY <1>2, <1>3, <1>4 DEF Ensured, InTransaction
<1>10. Caused'
  BY <1>3, <1>4 DEF Caused, Cause, Shared
<1> QED
  BY <1>5, <1>6, <1>7, <1>8, <1>9, <1>10

\* The present name is there, or inserted, and the transaction goes on.
LEMMA AdvanceStep ==
  ASSUME IInv, NEW r \in Requests, pc[r] \in {"ensure", "blocked"},
         Ensure(r, at[r] + 1),
         \/ segments' = segments /\ segments[Name(r)] \in {"present", r}
         \/ segments' = [segments EXCEPT ![Name(r)] = r] /\ segments[Name(r)] = "absent",
         UNCHANGED <<table, request, answer>>
  PROVE  IInv'
<1> USE DEF IInv, table, request
<1>1. /\ at' = [at EXCEPT ![r] = at[r] + 1]
      /\ pc' = [pc EXCEPT ![r] = IF at[r] + 1 <= Len(names[r]) THEN "ensure" ELSE "insert"]
  BY DEF Ensure
<1>2. /\ names[r] \in Seq(Segments) /\ DOMAIN names[r] = 1 .. Len(names[r])
      /\ Len(names[r]) \in Nat /\ at[r] \in DOMAIN names[r] /\ at[r] \in Nat \ {0}
      /\ Name(r) \in Segments
  BY DEF TypeOK, Name
<1>3. \A q \in Requests \ {r} : pc'[q] = pc[q] /\ at'[q] = at[q]
  BY <1>1 DEF TypeOK
<1>4. at'[r] = at[r] + 1
      /\ pc'[r] = IF at[r] + 1 <= Len(names[r]) THEN "ensure" ELSE "insert"
  BY <1>1 DEF TypeOK
<1>5. segments'[Name(r)] \in {"present", r}
      /\ \A n \in Segments \ {Name(r)} : segments'[n] = segments[n]
  BY <1>2 DEF TypeOK
<1>6. \A n \in Segments : segments[n] \in {"present"} \union Requests => segments'[n] = segments[n]
  BY <1>2, <1>5, RequestsAssumption DEF TypeOK
<1>7. TypeOK'
  <2>1. pc' \in [Requests -> {"new", "lock", "ensure", "blocked", "insert", "done"}]
        /\ at' \in [Requests -> Nat \ {0}]
    BY <1>1, <1>2 DEF TypeOK
  <2>2. \A q \in Requests : pc'[q] \in {"ensure", "blocked"} => at'[q] \in DOMAIN names[q]
    BY <1>2, <1>3, <1>4 DEF TypeOK
  <2>3. segments' \in [Segments -> {"absent", "present"} \union Requests]
    BY <1>2 DEF TypeOK
  <2> QED
    BY <2>1, <2>2, <2>3 DEF TypeOK
<1>8. ConsumedHasJob' /\ AnswersAreTrue'
  BY <1>6, AnswersKept DEF ConsumedHasJob
<1>9. \A q \in Requests : InTransaction(q)' <=> InTransaction(q)
  BY <1>3, <1>4 DEF InTransaction
<1>10. Locked'
  BY <1>9 DEF Locked
<1>11. Owned'
  <2> SUFFICES ASSUME NEW n \in Segments, NEW q \in Requests, segments'[n] = q
               PROVE  InTransaction(q) /\ \E j \in DOMAIN names[q] : names[q][j] = n
    BY <1>9 DEF Owned
  <2>1. CASE segments[n] = q
    BY <2>1 DEF Owned
  <2>2. CASE segments[n] # q
    <3>1. n = Name(r) /\ q = r
      BY <2>2, <1>5, RequestsAssumption
    <3> QED
      BY <3>1, <1>2 DEF InTransaction, Name
  <2> QED
    BY <2>1, <2>2
<1>12. Ensured'
  <2> SUFFICES ASSUME NEW q \in Requests, InTransaction(q), NEW i \in DOMAIN names[q],
                      i < at'[q] \/ pc'[q] = "insert"
               PROVE  segments'[names[q][i]] \in {"present", q}
    BY <1>9 DEF Ensured
  <2>1. names[q][i] \in Segments /\ i \in Nat
    BY DEF TypeOK
  <2>2. CASE q # r
    BY <2>1, <2>2, <1>3, <1>6 DEF Ensured
  <2>3. CASE q = r /\ i = at[r]
    BY <2>3, <1>5 DEF Name
  <2>4. CASE q = r /\ i # at[r]
    <3>1. i < at[r]
      BY <2>1, <2>4, <1>2, <1>4
    <3> QED
      BY <3>1, <2>1, <2>4, <1>6 DEF Ensured
  <2> QED
    BY <2>2, <2>3, <2>4
<1>13. Caused'
  BY <1>3, <1>4 DEF Caused, Cause, Shared
<1> QED
  BY <1>7, <1>8, <1>10, <1>11, <1>12, <1>13

\* The name belongs to another open transaction, which is for another intent.
LEMMA BlockStep ==
  ASSUME IInv, NEW r \in Requests, pc[r] = "ensure",
         segments[Name(r)] \in Requests \ {r},
         pc' = [pc EXCEPT ![r] = "blocked"],
         UNCHANGED <<segments, at, table, request, answer>>
  PROVE  IInv'
<1> USE DEF IInv, table, request
<1>1. at[r] \in DOMAIN names[r] /\ Name(r) \in Segments /\ names[r][at[r]] = Name(r)
  BY DEF TypeOK, Name
<1>2. Cause(r)
  <2> DEFINE q == segments[Name(r)]
  <2>1. q \in Requests /\ q # r /\ InTransaction(q) /\ InTransaction(r)
        /\ \E j \in DOMAIN names[q] : names[q][j] = Name(r)
    BY <1>1 DEF Owned, InTransaction
  <2>2. file[q] # file[r]
    BY <2>1 DEF Locked
  <2>3. Name(r) \in Shared(r, q)
    BY <1>1, <2>1 DEF Shared
  <2> QED
    BY <2>1, <2>2, <2>3 DEF Cause
<1>3. TypeOK'
  BY <1>1 DEF TypeOK
<1>4. \A q \in Requests : InTransaction(q)' <=> InTransaction(q)
  BY DEF InTransaction, TypeOK
<1>5. ConsumedHasJob' /\ AnswersAreTrue'
  BY AnswersKept DEF ConsumedHasJob
<1>6. Locked' /\ Owned'
  BY <1>4 DEF Locked, Owned
<1>7. Ensured'
  BY <1>4 DEF Ensured, TypeOK
<1>8. Caused'
  BY <1>2 DEF Caused, Cause, Shared, TypeOK
<1> QED
  BY <1>3, <1>5, <1>6, <1>7, <1>8

\* The job of a locked intent is inserted with segments that are committed with it.
LEMMA CommitStep ==
  ASSUME IInv, NEW r \in Requests, InsertJob(r)
  PROVE  IInv'
<1> USE DEF IInv, request
<1> DEFINE k == file[r]
           wanted == {names[r][i] : i \in DOMAIN names[r]}
<1>1. pc[r] = "insert" /\ InTransaction(r) /\ intents[k] = "issued" /\ k \in Intents
  BY DEF InsertJob, InTransaction, Locked, TypeOK
<1>2. k \notin created
  BY <1>1 DEF ConsumedHasJob
<1>3. PICK a \in {"created", "failed"} :
        /\ created' = created \union {k}
        /\ intents' = [intents EXCEPT ![k] = "consumed"]
        /\ tags' = [tags EXCEPT ![k] = wanted]
        /\ segments' = [n \in Segments |-> IF segments[n] = r THEN "present" ELSE segments[n]]
        /\ Reply(r, a)
        /\ UNCHANGED <<expired, request, at>>
  BY <1>2 DEF InsertJob
<1>4. wanted \subseteq Segments
  BY DEF TypeOK
<1> HIDE DEF wanted
<1>5. TypeOK'
  BY <1>1, <1>3, <1>4 DEF TypeOK, Reply, Answers
<1>6. \A q \in Requests \ {r} : pc'[q] = pc[q] /\ answer'[q] = answer[q]
  BY <1>3 DEF TypeOK, Reply
<1>7. pc'[r] = "done" /\ answer'[r] = a
  BY <1>3 DEF TypeOK, Reply
<1>8. \A n \in Segments : /\ segments[n] # r => segments'[n] = segments[n]
                          /\ segments[n] = r => segments'[n] = "present"
                          /\ segments'[n] # r
  BY <1>3, RequestsAssumption
<1>9. ConsumedHasJob'
  BY <1>1, <1>3 DEF ConsumedHasJob, TypeOK
<1>10. \A n \in wanted : segments'[n] = "present"
  <2> SUFFICES ASSUME NEW i \in DOMAIN names[r] PROVE segments'[names[r][i]] = "present"
    BY DEF wanted
  <2>1. names[r][i] \in Segments /\ segments[names[r][i]] \in {"present", r}
    BY <1>1 DEF Ensured, TypeOK
  <2> QED
    BY <2>1, <1>8, RequestsAssumption
<1>11. AnswersAreTrue'
  <2> SUFFICES ASSUME NEW p \in Requests
               PROVE  /\ answer'[p] = "created" =>
                           /\ file[p] \in created'
                           /\ tags'[file[p]] = {names[p][i] : i \in DOMAIN names[p]}
                           /\ \A n \in tags'[file[p]] : segments'[n] = "present"
                           /\ \A q \in Requests \ {p} :
                                ~(answer'[q] = "created" /\ file[q] = file[p])
                      /\ answer'[p] = "consumed" => file[p] \in created'
                      /\ answer'[p] # "duplicate"
                      /\ answer'[p] \in {"noRow", "deadlock"} => Cause(p)
    BY <1>3 DEF AnswersAreTrue, Cause, Shared
  <2>1. \A q \in Requests \ {r} : answer'[q] = "created" => file[q] \in created /\ file[q] # k
    BY <1>2, <1>6 DEF AnswersAreTrue
  <2>2. CASE p = r
    <3>1. tags'[k] = wanted
      BY <1>1, <1>3 DEF TypeOK
    <3> QED
      BY <2>1, <2>2, <3>1, <1>3, <1>7, <1>10 DEF wanted
  <2>3. CASE p # r
    <3>1. CASE answer'[p] = "created"
      <4>1. answer[p] = "created" /\ file[p] \in created /\ file[p] # k
        BY <2>1, <2>3, <3>1, <1>6
      <4>2. tags'[file[p]] = tags[file[p]] /\ tags[file[p]] \subseteq Segments
        BY <4>1, <1>3 DEF TypeOK
      <4>3. \A n \in tags[file[p]] : segments[n] = "present"
        BY <4>1 DEF AnswersAreTrue
      <4>4. \A n \in tags[file[p]] : segments'[n] = "present"
        BY <4>2, <4>3, <1>8, RequestsAssumption
      <4>5. \A q \in Requests \ {p} : ~(answer'[q] = "created" /\ file[q] = file[p])
        BY <4>1, <2>1, <1>6 DEF AnswersAreTrue
      <4> QED
        BY <3>1, <4>1, <4>2, <4>4, <4>5, <1>3 DEF AnswersAreTrue
    <3>2. CASE answer'[p] # "created"
      BY <2>3, <3>2, <1>3, <1>6 DEF AnswersAreTrue, Cause
    <3> QED
      BY <3>1, <3>2
  <2> QED
    BY <2>2, <2>3
<1>12. Locked'
  <2> SUFFICES ASSUME NEW p \in Requests, InTransaction(p)'
               PROVE  /\ intents'[file[p]] = "issued"
                      /\ \A q \in Requests : q # p /\ InTransaction(q)' => file[q] # file[p]
    BY <1>3 DEF Locked
  <2>1. p # r /\ InTransaction(p) /\ file[p] # k /\ file[p] \in Intents
    BY <1>1, <1>6, <1>7 DEF InTransaction, Locked, TypeOK
  <2>2. intents'[file[p]] = intents[file[p]]
    BY <2>1, <1>3 DEF TypeOK
  <2> QED
    BY <2>1, <2>2, <1>6, <1>7 DEF Locked, InTransaction
<1>13. Owned'
  BY <1>3, <1>6, <1>8, RequestsAssumption DEF Owned, InTransaction
<1>14. Ensured'
  <2> SUFFICES ASSUME NEW p \in Requests, InTransaction(p)', NEW i \in DOMAIN names[p],
                      i < at[p] \/ pc'[p] = "insert"
               PROVE  segments'[names[p][i]] \in {"present", p}
    BY <1>3 DEF Ensured
  <2>1. p # r /\ pc'[p] = pc[p] /\ InTransaction(p)
    BY <1>6, <1>7 DEF InTransaction
  <2>2. names[p][i] \in Segments /\ segments[names[p][i]] \in {"present", p}
    BY <2>1 DEF Ensured, TypeOK
  <2> QED
    BY <2>1, <2>2, <1>8, RequestsAssumption
<1>15. Caused'
  BY <1>3, <1>6, <1>7 DEF Caused, Cause, Shared
<1> QED
  BY <1>5, <1>9, <1>11, <1>12, <1>13, <1>14, <1>15

-----------------------------------------------------------------------------

LEMMA NextInvariant == IInv /\ [Next]_vars => IInv'
<1> SUFFICES ASSUME IInv, [Next]_vars PROVE IInv'
  OBVIOUS
<1>1. ASSUME NEW k \in Intents, CreateUploadIntent(k) PROVE IInv'
  <2>1. TypeOK'
    BY <1>1 DEF CreateUploadIntent, IInv, TypeOK, request
  <2>2. \A j \in Intents : intents[j] # "none" => intents'[j] = intents[j]
    BY <1>1 DEF CreateUploadIntent, IInv, TypeOK
  <2>3. ConsumedHasJob'
    BY <1>1, <2>2 DEF CreateUploadIntent, IInv, TypeOK, ConsumedHasJob
  <2>4. Locked'
    BY <1>1, <2>2 DEF CreateUploadIntent, IInv, TypeOK, Locked, InTransaction, request
  <2> QED
    BY <1>1, <2>1, <2>3, <2>4
       DEF CreateUploadIntent, IInv, AnswersAreTrue, Owned, Ensured, Caused, Cause, Shared,
           InTransaction, request
<1>2. ASSUME NEW k \in Intents, Expire(k) PROVE IInv'
  BY <1>2 DEF Expire, IInv, TypeOK, ConsumedHasJob, AnswersAreTrue, Locked, Owned, Ensured,
              Caused, Cause, Shared, InTransaction, request
<1>3. ASSUME NEW r \in Requests, Begin(r) PROVE IInv'
  <2>1. \A q \in Requests : (InTransaction(q)' <=> InTransaction(q))
                            /\ (InTransaction(q) => pc'[q] = pc[q])
    BY <1>3 DEF Begin, IInv, TypeOK, InTransaction
  <2>2. TypeOK'
    <3>1. pc' \in [Requests -> {"new", "lock", "ensure", "blocked", "insert", "done"}]
      BY <1>3 DEF Begin, IInv, TypeOK
    <3>2. \A q \in Requests : pc'[q] \in {"ensure", "blocked"} => at[q] \in DOMAIN names[q]
      BY <1>3 DEF Begin, IInv, TypeOK
    <3> QED
      BY <1>3, <3>1, <3>2 DEF Begin, IInv, TypeOK, table, request
  <2>5. ConsumedHasJob' /\ AnswersAreTrue'
    BY <1>3, AnswersKept DEF Begin, IInv, ConsumedHasJob, table
  <2>3. Locked' /\ Owned' /\ Ensured'
    BY <1>3, <2>1 DEF Begin, IInv, Locked, Owned, Ensured, table, request
  <2>4. Caused'
    BY <1>3 DEF Begin, IInv, TypeOK, Caused, Cause, Shared, request
  <2> QED
    BY <2>2, <2>3, <2>4, <2>5 DEF IInv
<1>4. ASSUME NEW r \in Requests, LockIntent(r) PROVE IInv'
  <2>1. file[r] \in Intents
    BY DEF IInv, TypeOK
  <2>2. CASE \E a \in {"notFound", "expired"} : Rollback(r, a)
    BY <2>2, RollbackStep DEF Answers
  <2>3. CASE intents[file[r]] = "consumed" /\ Rollback(r, "consumed")
    BY <2>1, <2>3, RollbackStep DEF Answers, IInv, ConsumedHasJob
  <2>4. CASE intents[file[r]] = "issued" /\ Ensure(r, 1)
             /\ UNCHANGED <<table, segments, request, answer>>
    BY <1>4, <2>4, StartStep DEF LockIntent
  <2> QED
    BY <1>4, <2>2, <2>3, <2>4 DEF LockIntent
<1>5. ASSUME NEW r \in Requests, EnsureSegment(r) PROVE IInv'
  <2>1. CASE segments[Name(r)] \in {"present", r} /\ Ensure(r, at[r] + 1) /\ UNCHANGED segments
    BY <1>5, <2>1, AdvanceStep DEF EnsureSegment
  <2>2. CASE segments[Name(r)] = "absent" /\ Ensure(r, at[r] + 1)
             /\ segments' = [segments EXCEPT ![Name(r)] = r]
    BY <1>5, <2>2, AdvanceStep DEF EnsureSegment
  <2>3. CASE segments[Name(r)] \in Requests \ {r} /\ pc' = [pc EXCEPT ![r] = "blocked"]
             /\ UNCHANGED <<segments, at>>
    BY <1>5, <2>3, BlockStep DEF EnsureSegment
  <2> QED
    BY <1>5, <2>1, <2>2, <2>3 DEF EnsureSegment
<1>6. ASSUME NEW r \in Requests, Unblock(r) PROVE IInv'
  <2>1. CASE segments[Name(r)] = "absent" /\ Ensure(r, at[r] + 1)
             /\ segments' = [segments EXCEPT ![Name(r)] = r]
             /\ UNCHANGED <<table, request, answer>>
    BY <1>6, <2>1, AdvanceStep DEF Unblock
  <2>2. CASE Rollback(r, "noRow")
    BY <1>6, <2>2, RollbackStep DEF Unblock, Answers, IInv, Caused
  <2> QED
    BY <1>6, <2>1, <2>2 DEF Unblock
<1>7. ASSUME NEW r \in Requests, DeadlockDetected(r) PROVE IInv'
  BY <1>7, RollbackStep DEF DeadlockDetected, Answers, IInv, Caused
<1>8. ASSUME NEW r \in Requests, InsertJob(r) PROVE IInv'
  BY <1>8, CommitStep
<1>9. ASSUME NEW r \in Requests, DbFails(r) PROVE IInv'
  BY <1>9, RollbackStep DEF DbFails, Answers
<1>10. ASSUME UNCHANGED vars PROVE IInv'
  BY <1>10 DEF vars, IInv, TypeOK, ConsumedHasJob, AnswersAreTrue, Locked, Owned, Ensured,
               Caused, Cause, Shared, InTransaction
<1> QED
  BY <1>1, <1>2, <1>3, <1>4, <1>5, <1>6, <1>7, <1>8, <1>9, <1>10 DEF Next, Step

(***************************************************************************)
(* The invariant holds in every reachable state of the handlers.           *)
(***************************************************************************)
THEOREM Invariance == Spec => []IInv
BY InitInvariant, NextInvariant, PTL DEF Spec

(***************************************************************************)
(* Types, for any requests, intents and segments: a handler that ensures a *)
(* segment has one left to ensure.                                         *)
(***************************************************************************)
THEOREM TypeCorrectness == Spec => []TypeOK
<1>1. IInv => TypeOK
  BY DEF IInv
<1> QED
  BY <1>1, Invariance, PTL

(***************************************************************************)
(* An intent is consumed exactly when its job exists (job.go:55-123).      *)
(***************************************************************************)
THEOREM IntentSafety == Spec => []ConsumedHasJob
<1>1. IInv => ConsumedHasJob
  BY DEF IInv
<1> QED
  BY <1>1, Invariance, PTL

(***************************************************************************)
(* At most one request creates the job of an intent, whoever is refused is *)
(* told the truth, and only a common segment gives an error by itself      *)
(* (job.go:60-91, segments.sql:25-37).                                     *)
(***************************************************************************)
THEOREM AnswerSafety == Spec => []AnswersAreTrue
<1>1. IInv => AnswersAreTrue
  BY DEF IInv
<1> QED
  BY <1>1, Invariance, PTL
=============================================================================
