----------------------------- MODULE Badger_proofs -----------------------------
(***************************************************************************)
(* Proofs about Badger for every number of requests and size of a report.  *)
(***************************************************************************)
EXTENDS Badger, TLAPS

USE DEF Handled, Goes, Chunks, Owners, Nothing

LEMMA InitType == Init => TypeOK
BY SizeAssumption DEF Init, TypeOK, Places

\* Every step keeps every variable in its type.
LEMMA TypeStep == TypeOK /\ [Next]_vars => TypeOK'
<1> SUFFICES ASSUME TypeOK, [Next]_vars PROVE TypeOK'
  OBVIOUS
<1> USE SizeAssumption DEF TypeOK, Places
<1>1. CASE UNCHANGED vars
  BY <1>1 DEF vars
<1>2. ASSUME NEW r \in Requests, BadgerGenerate(r) PROVE TypeOK'
  BY <1>2 DEF BadgerGenerate
<1>3. ASSUME NEW r \in Requests, OpenReport(r) \/ RunFails(r) \/ Answer(r) PROVE TypeOK'
  BY <1>3 DEF OpenReport, RunFails, Answer
<1>4. ASSUME NEW r \in Requests, WriteReport(r) PROVE TypeOK'
  BY <1>4 DEF WriteReport
<1>5. ASSUME NEW r \in Requests, RunEnds(r) PROVE TypeOK'
  BY <1>5 DEF RunEnds
<1>6. ASSUME NEW r \in Requests, ReadReport(r) PROVE TypeOK'
  <2>1. pos[r] + 1 \in 1..Size
    BY <1>6 DEF ReadReport, AtEnd
  <2> QED
    BY <1>6, <2>1 DEF ReadReport
<1>7. ASSUME NEW r \in Requests, ReadFails(r) PROVE TypeOK'
  BY <1>7 DEF ReadFails
<1> QED
  BY <1>1, <1>2, <1>3, <1>4, <1>5, <1>6, <1>7 DEF Next

\* Every variable keeps its type.
THEOREM TypeCorrect == Spec => []TypeOK
BY InitType, TypeStep, PTL DEF Spec

LEMMA BadgerInit == Init => BadgerInv
BY DEF Init, BadgerInv, Opened, Meet, NotYetRead, FileIsFresh, FileIsWhole, ReadIsWhole, Fresh,
       WholeIfAlone

LEMMA BadgerStep == TypeOK /\ BadgerInv /\ [Next]_vars => BadgerInv'
<1> SUFFICES ASSUME TypeOK, BadgerInv, [Next]_vars PROVE BadgerInv'
  OBVIOUS
<1> USE SizeAssumption, NoOneAssumption DEF TypeOK, BadgerInv, Opened
<1>1. CASE UNCHANGED vars
  BY <1>1 DEF vars, Meet, NotYetRead, FileIsFresh, FileIsWhole, ReadIsWhole, Fresh, WholeIfAlone
<1>2. ASSUME NEW r \in Requests, BadgerGenerate(r) PROVE BadgerInv'
  <2> USE <1>2 DEF BadgerGenerate
  <2>1. Meet'
    BY DEF Meet
  <2>2. NotYetRead'
    BY DEF NotYetRead
  <2>3. FileIsFresh'
    BY DEF FileIsFresh
  <2>4. FileIsWhole'
    BY DEF FileIsWhole
  <2>5. ReadIsWhole'
    BY DEF ReadIsWhole
  <2>6. Fresh'
    BY DEF Fresh, NotYetRead
  <2>7. WholeIfAlone'
    BY DEF WholeIfAlone
  <2> QED
    BY <2>1, <2>2, <2>3, <2>4, <2>5, <2>6, <2>7
<1>3. ASSUME NEW r \in Requests, OpenReport(r) PROVE BadgerInv'
  <2> USE <1>3 DEF OpenReport
  <2>1. Meet'
    BY DEF Meet
  <2>2. NotYetRead'
    BY DEF NotYetRead
  <2>3. FileIsFresh'
    BY DEF FileIsFresh
  <2>4. FileIsWhole'
    BY DEF FileIsWhole, Meet, NotYetRead
  <2>5. ReadIsWhole'
    BY DEF ReadIsWhole
  <2>6. Fresh'
    BY DEF Fresh
  <2>7. WholeIfAlone'
    BY DEF WholeIfAlone
  <2> QED
    BY <2>1, <2>2, <2>3, <2>4, <2>5, <2>6, <2>7
<1>4. ASSUME NEW r \in Requests, WriteReport(r) PROVE BadgerInv'
  <2> USE <1>4 DEF WriteReport
  <2>1. Meet'
    BY DEF Meet
  <2>2. NotYetRead'
    BY DEF NotYetRead
  <2>3. FileIsFresh'
    BY DEF FileIsFresh, Meet
  <2>4. FileIsWhole'
    BY DEF FileIsWhole, Meet
  <2>5. ReadIsWhole'
    BY DEF ReadIsWhole
  <2>6. Fresh'
    BY DEF Fresh
  <2>7. WholeIfAlone'
    BY DEF WholeIfAlone
  <2> QED
    BY <2>1, <2>2, <2>3, <2>4, <2>5, <2>6, <2>7
<1>5. ASSUME NEW r \in Requests, RunEnds(r) PROVE BadgerInv'
  <2> USE <1>5 DEF RunEnds
  <2>1. Meet'
    BY DEF Meet
  <2>2. NotYetRead'
    BY DEF NotYetRead
  <2>3. FileIsFresh'
    BY DEF FileIsFresh
  <2>4. FileIsWhole'
    <3> SUFFICES ASSUME NEW q \in Requests, Opened(q)', met[q] = {}, NEW i \in Chunks,
                        at'[q] = "read" \/ i <= pos'[q]
                 PROVE  file[i] = q
      BY DEF FileIsWhole
    <3>1. CASE q # r
      BY <3>1 DEF FileIsWhole
    <3>2. CASE q = r
      <4>1. at[r] = "write" /\ i <= pos[r]
        BY <3>2
      <4> QED
        BY <3>2, <4>1 DEF FileIsWhole
    <3> QED
      BY <3>1, <3>2
  <2>5. ReadIsWhole'
    BY DEF ReadIsWhole
  <2>6. Fresh'
    BY DEF Fresh
  <2>7. WholeIfAlone'
    BY DEF WholeIfAlone
  <2> QED
    BY <2>1, <2>2, <2>3, <2>4, <2>5, <2>6, <2>7
<1>6. ASSUME NEW r \in Requests, RunFails(r) PROVE BadgerInv'
  <2> USE <1>6 DEF RunFails
  <2>1. Meet'
    BY DEF Meet
  <2>2. NotYetRead'
    BY DEF NotYetRead
  <2>3. FileIsFresh'
    BY DEF FileIsFresh
  <2>4. FileIsWhole'
    BY DEF FileIsWhole
  <2>5. ReadIsWhole'
    BY DEF ReadIsWhole
  <2>6. Fresh'
    BY DEF Fresh
  <2>7. WholeIfAlone'
    BY DEF WholeIfAlone
  <2> QED
    BY <2>1, <2>2, <2>3, <2>4, <2>5, <2>6, <2>7
<1>7. ASSUME NEW r \in Requests, ReadReport(r) PROVE BadgerInv'
  <2> USE <1>7 DEF ReadReport
  <2>1. Meet'
    BY DEF Meet
  <2>2. NotYetRead'
    BY DEF NotYetRead
  <2>3. FileIsFresh'
    BY DEF FileIsFresh
  <2>4. FileIsWhole'
    BY DEF FileIsWhole
  <2>5. ReadIsWhole'
    <3> SUFFICES ASSUME NEW q \in Requests, at[q] = "read", met[q] = {}, NEW i \in Chunks,
                        i <= pos'[q]
                 PROVE  reply'[q][i] = q
      BY DEF ReadIsWhole
    <3>1. CASE q # r
      BY <3>1 DEF ReadIsWhole
    <3>2. CASE q = r
      <4>1. file[i] = r
        BY <3>2 DEF FileIsWhole
      <4>2. CASE i = pos[r] + 1
        BY <3>2, <4>1, <4>2
      <4>3. CASE i # pos[r] + 1
        <5>1. i <= pos[r]
          BY <3>2, <4>3
        <5> QED
          BY <3>2, <4>3, <5>1 DEF ReadIsWhole
      <4> QED
        BY <4>2, <4>3
    <3> QED
      BY <3>1, <3>2
  <2>6. Fresh'
    BY DEF Fresh, FileIsFresh
  <2>7. WholeIfAlone'
    BY DEF WholeIfAlone
  <2> QED
    BY <2>1, <2>2, <2>3, <2>4, <2>5, <2>6, <2>7
<1>8. ASSUME NEW r \in Requests, Answer(r) PROVE BadgerInv'
  <2> USE <1>8 DEF Answer
  <2>1. Meet'
    BY DEF Meet
  <2>2. NotYetRead'
    BY DEF NotYetRead
  <2>3. FileIsFresh'
    BY DEF FileIsFresh
  <2>4. FileIsWhole'
    BY DEF FileIsWhole
  <2>5. ReadIsWhole'
    BY DEF ReadIsWhole
  <2>6. Fresh'
    BY DEF Fresh
  <2>7. WholeIfAlone'
    <3> SUFFICES ASSUME NEW q \in Requests, at'[q] = "answered", met[q] = {}, NEW i \in Chunks
                 PROVE  reply[q][i] = q
      BY DEF WholeIfAlone
    <3>1. CASE q # r
      BY <3>1 DEF WholeIfAlone
    <3>2. CASE q = r
      <4>1. file[i] = r
        BY <3>2 DEF FileIsWhole
      <4>2. i <= pos[r]
        BY <4>1 DEF AtEnd
      <4> QED
        BY <3>2, <4>2 DEF ReadIsWhole
    <3> QED
      BY <3>1, <3>2
  <2> QED
    BY <2>1, <2>2, <2>3, <2>4, <2>5, <2>6, <2>7
<1>9. ASSUME NEW r \in Requests, ReadFails(r) PROVE BadgerInv'
  <2> USE <1>9 DEF ReadFails
  <2>1. Meet'
    BY DEF Meet
  <2>2. NotYetRead'
    BY DEF NotYetRead
  <2>3. FileIsFresh'
    BY DEF FileIsFresh
  <2>4. FileIsWhole'
    BY DEF FileIsWhole
  <2>5. ReadIsWhole'
    BY DEF ReadIsWhole
  <2>6. Fresh'
    BY DEF Fresh
  <2>7. WholeIfAlone'
    BY DEF WholeIfAlone
  <2> QED
    BY <2>1, <2>2, <2>3, <2>4, <2>5, <2>6, <2>7
<1> QED
  BY <1>1, <1>2, <1>3, <1>4, <1>5, <1>6, <1>7, <1>8, <1>9 DEF Next

LEMMA BadgerInvariant == Spec => []BadgerInv
BY InitType, TypeStep, BadgerInit, BadgerStep, PTL DEF Spec

\* However many requests come at once and whichever runs fail, no report of an
\* earlier request is sent again.
THEOREM RepliesAreFresh == Spec => []Fresh
BY BadgerInvariant, PTL DEF BadgerInv

\* A request handled alone is answered with its own whole report.
THEOREM AloneIsWhole == Spec => []WholeIfAlone
BY BadgerInvariant, PTL DEF BadgerInv
=============================================================================
