------------------------- MODULE AuthServiceProofs -------------------------
(***************************************************************************)
(* What the authentication service guarantees for any number of requests,  *)
(* sessions and passwords: no session outlives its password, one setup     *)
(* alone enrols, the sessions stay within their capacity, and each ends on *)
(* time and with an announcement.                                          *)
(*                                                                         *)
(* The heart of it is an argument about two chains.  Logins stand in both  *)
(* chains in the same order, so that the first establishment is the first  *)
(* to be answered; hence no verdict is left over when the event loop is    *)
(* Quiet, and the password changes only then.                              *)
(***************************************************************************)
EXTENDS AuthService, FiniteSetTheorems, TLAPS

-----------------------------------------------------------------------------
(***************************************************************************)
(* Chains.                                                                 *)
(***************************************************************************)
\* A chain with one more request at its end, as promise chains grow
LEMMA ChainGrows ==
    ASSUME NEW S, NEW c \in Seq(S), NEW r \in S
    PROVE  /\ Append(c, r) \in Seq(S) /\ Len(Append(c, r)) = Len(c) + 1
           /\ Len(c) \in Nat
           /\ \A i \in 1..Len(c) : Append(c, r)[i] = c[i] /\ c[i] \in S
           /\ Append(c, r)[Len(c) + 1] = r
  OBVIOUS

\* A chain without its first request, as an operation of it ends
LEMMA ChainShrinks ==
    ASSUME NEW S, NEW c \in Seq(S), c # <<>>
    PROVE  /\ Tail(c) \in Seq(S) /\ Len(Tail(c)) = Len(c) - 1
           /\ Len(c) \in Nat /\ Len(c) > 0
           /\ \A i \in 1..(Len(c) - 1) : Tail(c)[i] = c[i + 1] /\ c[i + 1] \in S
           /\ Head(c) = c[1] /\ c[1] \in S
  OBVIOUS

\* Who is in a chain that grew
LEMMA InGrown ==
    ASSUME NEW S, NEW c \in Seq(S), NEW r \in S
    PROVE  /\ \A o \in S : In(Append(c, r), o) <=> In(c, o) \/ o = r
           /\ Distinct(c) /\ ~In(c, r) => Distinct(Append(c, r))
<1> DEFINE d == Append(c, r)
<1>1. /\ Len(d) = Len(c) + 1 /\ Len(c) \in Nat
      /\ \A i \in 1..Len(c) : d[i] = c[i]
      /\ d[Len(c) + 1] = r
  BY ChainGrows
<1> HIDE DEF d
<1>2. \A o \in S : In(d, o) <=> In(c, o) \/ o = r
  <2> TAKE o \in S
  <2>1. ASSUME In(d, o), o # r PROVE In(c, o)
    <3>1. PICK i \in 1..Len(d) : d[i] = o
      BY <2>1 DEF In
    <3>2. i \in 1..Len(c) /\ c[i] = o
      BY <3>1, <1>1, <2>1
    <3> QED BY <3>2 DEF In
  <2>2. ASSUME In(c, o) PROVE In(d, o)
    <3>1. PICK i \in 1..Len(c) : c[i] = o
      BY <2>2 DEF In
    <3>2. i \in 1..Len(d) /\ d[i] = o
      BY <3>1, <1>1
    <3> QED BY <3>2 DEF In
  <2>3. In(d, r)
    <3>1. Len(c) + 1 \in 1..Len(d) /\ d[Len(c) + 1] = r
      BY <1>1
    <3> QED BY <3>1 DEF In
  <2> QED BY <2>1, <2>2, <2>3
<1>3. ASSUME Distinct(c), ~In(c, r) PROVE Distinct(d)
  <2> SUFFICES ASSUME NEW i \in 1..Len(d), NEW j \in 1..Len(d), d[i] = d[j] PROVE i = j
    BY DEF Distinct
  <2>1. \A k \in 1..Len(c) : c[k] # r
    BY <1>3 DEF In
  <2>2. CASE i \in 1..Len(c) /\ j \in 1..Len(c)
    BY <2>2, <1>1, <1>3 DEF Distinct
  <2>3. CASE i = Len(c) + 1 \/ j = Len(c) + 1
    BY <2>3, <2>1, <1>1
  <2> QED BY <2>2, <2>3, <1>1
<1> QED BY <1>2, <1>3 DEF d

\* Who is in a chain that shrank
LEMMA InShrunk ==
    ASSUME NEW S, NEW c \in Seq(S), c # <<>>, Distinct(c)
    PROVE  /\ \A o \in S : In(Tail(c), o) <=> In(c, o) /\ o # Head(c)
           /\ Distinct(Tail(c)) /\ In(c, Head(c)) /\ Head(c) \in S
<1> DEFINE d == Tail(c)
<1>1. /\ Len(d) = Len(c) - 1 /\ Len(c) \in Nat /\ Len(c) > 0
      /\ \A i \in 1..(Len(c) - 1) : d[i] = c[i + 1]
      /\ Head(c) = c[1] /\ c[1] \in S
  BY ChainShrinks
<1> HIDE DEF d
<1>2. \A o \in S : In(d, o) <=> In(c, o) /\ o # c[1]
  <2> TAKE o \in S
  <2>1. ASSUME In(d, o) PROVE In(c, o) /\ o # c[1]
    <3>1. PICK i \in 1..Len(d) : d[i] = o
      BY <2>1 DEF In
    <3>2. i + 1 \in 1..Len(c) /\ c[i + 1] = o /\ i + 1 # 1 /\ 1 \in 1..Len(c)
      BY <3>1, <1>1
    <3>3. c[i + 1] # c[1]
      BY <3>2 DEF Distinct
    <3> QED BY <3>2, <3>3 DEF In
  <2>2. ASSUME In(c, o), o # c[1] PROVE In(d, o)
    <3>1. PICK i \in 1..Len(c) : c[i] = o
      BY <2>2 DEF In
    <3>2. i # 1
      BY <3>1, <2>2
    <3>3. i - 1 \in 1..Len(d) /\ d[i - 1] = c[(i - 1) + 1] /\ (i - 1) + 1 = i
      BY <3>1, <3>2, <1>1
    <3> QED BY <3>1, <3>3 DEF In
  <2> QED BY <2>1, <2>2
<1>3. Distinct(d)
  <2> SUFFICES ASSUME NEW i \in 1..Len(d), NEW j \in 1..Len(d), d[i] = d[j] PROVE i = j
    BY DEF Distinct
  <2>1. i + 1 \in 1..Len(c) /\ j + 1 \in 1..Len(c) /\ c[i + 1] = c[j + 1]
    BY <1>1
  <2>2. i + 1 = j + 1
    BY <2>1 DEF Distinct
  <2> QED BY <2>2
<1>4. In(c, c[1])
  <2>1. 1 \in 1..Len(c)
    BY <1>1
  <2> QED BY <2>1 DEF In
<1> QED BY <1>1, <1>2, <1>3, <1>4 DEF d

-----------------------------------------------------------------------------
(***************************************************************************)
(* How requests move in the chains.                                        *)
(***************************************************************************)
\* No other request than r changes.
Only(r) ==
    /\ request' \in [Requests -> RequestRecord]
    /\ \A o \in Requests : o # r => request'[o] = request[o]

Queues == TypeOK /\ PlaceTellsState /\ ChainsAgree

\* What the places of the others mean does not change with request r.
LEMMA OthersStayPlaced ==
    ASSUME Queues, NEW r \in Requests, Only(r), Distinct(est'), Distinct(cred'),
           \A o \in Requests : o # r => In(est', o) <=> In(est, o),
           \A o \in Requests : o # r => In(cred', o) <=> In(cred, o),
           WellPlaced(r)'
    PROVE  PlaceTellsState'
<1> SUFFICES ASSUME NEW o \in Requests, o # r PROVE WellPlaced(o)'
  BY DEF PlaceTellsState
<1>1. WellPlaced(o) /\ request'[o] = request[o]
  BY DEF Queues, PlaceTellsState, Only
<1>2. (In(est', o) <=> In(est, o)) /\ (In(cred', o) <=> In(cred, o))
  OBVIOUS
<1> QED BY <1>1, <1>2 DEF WellPlaced, Answered

\* The requests of the establishment chain are requests; a login in it is queued.
LEMMA EstMembers ==
    ASSUME Queues, NEW i \in 1..Len(est)
    PROVE  /\ est[i] \in Requests /\ In(est, est[i]) /\ est[i] \in Pending
           /\ request[est[i]].at \in {"queued", "enrolling"}
           /\ request[est[i]].kind \in {"bootstrap", "login", "setup"}
           /\ request[est[i]].kind = "login" => request[est[i]].at = "queued"
           /\ LoginWaits(est[i]) => In(cred, est[i])
<1>1. est[i] \in Requests
  BY DEF Queues, TypeOK
<1>2. In(est, est[i])
  BY DEF In
<1>3. WellPlaced(est[i])
  BY <1>1 DEF Queues, PlaceTellsState
<1> QED BY <1>1, <1>2, <1>3 DEF WellPlaced, LoginWaits, Pending

\* A request that is in neither chain, before or after, changes: it is refused, or a
\* password change ends.
LEMMA ApartMoves ==
    ASSUME Queues, NEW r \in Requests, Only(r), UNCHANGED <<est, cred>>,
           ~In(est, r), ~In(cred, r),
           request'[r].at = "done", request'[r].verdict = "none",
           request'[r].kind = "setup" => request'[r].given \in Passwords
    PROVE  PlaceTellsState' /\ ChainsAgree'
<1>1. WellPlaced(r)'
  BY DEF WellPlaced, Answered, In
<1>2. Distinct(est') /\ Distinct(cred')
  BY DEF Queues, PlaceTellsState, Distinct
<1>3. \A o \in Requests : (In(est', o) <=> In(est, o)) /\ (In(cred', o) <=> In(cred, o))
  BY DEF In
<1>4. PlaceTellsState'
  BY <1>1, <1>2, <1>3, OthersStayPlaced
<1>5. \A i \in 1..Len(est) : est[i] \in Requests /\ request'[est[i]] = request[est[i]]
  BY EstMembers DEF Only
<1>6. ChainsAgree'
  BY <1>5 DEF Queues, ChainsAgree, LoginWaits, Answered
<1> QED BY <1>4, <1>6

\* A bootstrap or a setup is queued: Bootstrap and Setup.
LEMMA JoinsEst ==
    ASSUME Queues, NEW r \in Requests, Only(r), est' = Append(est, r), UNCHANGED cred,
           ~In(est, r), ~In(cred, r),
           request'[r].at = "queued", request'[r].verdict = "none",
           request'[r].kind \in {"bootstrap", "setup"},
           request'[r].kind = "setup" => request'[r].given \in Passwords
    PROVE  PlaceTellsState' /\ ChainsAgree'
<1>0. est \in Seq(Requests) /\ Distinct(est) /\ Distinct(cred)
  BY DEF Queues, TypeOK, PlaceTellsState
<1>1. /\ \A o \in Requests : In(est', o) <=> In(est, o) \/ o = r
      /\ Distinct(est')
  BY <1>0, InGrown
<1>2. (\A o \in Requests : In(cred', o) <=> In(cred, o)) /\ Distinct(cred')
  BY <1>0 DEF In, Distinct
<1>3. WellPlaced(r)'
  BY <1>1, <1>2 DEF WellPlaced, Answered
<1>4. PlaceTellsState'
  BY <1>1, <1>2, <1>3, OthersStayPlaced
<1>5. \A i \in 1..Len(est) : est[i] \in Requests /\ request'[est[i]] = request[est[i]]
  BY EstMembers DEF Only
<1>6. /\ Len(est') = Len(est) + 1 /\ Len(est) \in Nat
      /\ \A i \in 1..Len(est) : est'[i] = est[i]
      /\ est'[Len(est) + 1] = r
  BY <1>0, ChainGrows
<1>7. ASSUME NEW j \in 1..Len(est'), request'[est'[j]].at = "enrolling" PROVE j = 1
  <2>1. j \in 1..Len(est)
    BY <1>6, <1>7
  <2> QED BY <2>1, <1>5, <1>6, <1>7 DEF Queues, ChainsAgree
<1>8. ASSUME NEW i \in 1..Len(est'), NEW j \in 1..Len(est'), i < j,
             LoginWaits(est[i])', request'[est'[j]].kind = "login"
      PROVE  /\ ~Answered(est[j])'
             /\ \A k, l \in 1..Len(cred') : cred'[k] = est'[i] /\ cred'[l] = est'[j] => k < l
  <2>1. i \in 1..Len(est) /\ j \in 1..Len(est)
    BY <1>6, <1>8
  <2>2. /\ LoginWaits(est[i]) /\ request[est[j]].kind = "login"
        /\ est'[i] = est[i] /\ est'[j] = est[j]
    BY <2>1, <1>5, <1>6, <1>8 DEF LoginWaits, Answered
  <2>3. /\ ~Answered(est[j])
        /\ \A k, l \in 1..Len(cred) : cred[k] = est[i] /\ cred[l] = est[j] => k < l
    BY <2>1, <2>2, <1>8 DEF Queues, ChainsAgree
  <2> QED BY <2>1, <2>2, <2>3, <1>5 DEF Answered
<1>9. ChainsAgree'
  BY <1>7, <1>8 DEF ChainsAgree
<1> QED BY <1>4, <1>9

\* A login enters both chains: Login.
LEMMA JoinsBoth ==
    ASSUME Queues, NEW r \in Requests, Only(r), est' = Append(est, r), cred' = Append(cred, r),
           ~In(est, r), ~In(cred, r),
           request'[r].at = "queued", request'[r].verdict = "none",
           request'[r].kind = "login"
    PROVE  PlaceTellsState' /\ ChainsAgree'
<1>0. est \in Seq(Requests) /\ Distinct(est) /\ cred \in Seq(Requests) /\ Distinct(cred)
  BY DEF Queues, TypeOK, PlaceTellsState
<1>1. /\ \A o \in Requests : In(est', o) <=> In(est, o) \/ o = r
      /\ Distinct(est')
  BY <1>0, InGrown
<1>2. /\ \A o \in Requests : In(cred', o) <=> In(cred, o) \/ o = r
      /\ Distinct(cred')
  BY <1>0, InGrown
<1>3. WellPlaced(r)'
  BY <1>1, <1>2 DEF WellPlaced, Answered
<1>4. PlaceTellsState'
  BY <1>1, <1>2, <1>3, OthersStayPlaced
<1>5. \A i \in 1..Len(est) : est[i] \in Requests /\ request'[est[i]] = request[est[i]] /\ est[i] # r
  BY EstMembers DEF Only
<1>6. /\ Len(est') = Len(est) + 1 /\ Len(est) \in Nat
      /\ \A i \in 1..Len(est) : est'[i] = est[i]
      /\ est'[Len(est) + 1] = r
  BY <1>0, ChainGrows
<1>7. /\ Len(cred') = Len(cred) + 1 /\ Len(cred) \in Nat
      /\ \A i \in 1..Len(cred) : cred'[i] = cred[i] /\ cred[i] # r
      /\ cred'[Len(cred) + 1] = r
  BY <1>0, ChainGrows DEF In
<1>8. ASSUME NEW j \in 1..Len(est'), request'[est'[j]].at = "enrolling" PROVE j = 1
  <2>1. j \in 1..Len(est)
    BY <1>6, <1>8
  <2> QED BY <2>1, <1>5, <1>6, <1>8 DEF Queues, ChainsAgree
<1>9. ASSUME NEW i \in 1..Len(est'), NEW j \in 1..Len(est'), i < j,
             LoginWaits(est[i])', request'[est'[j]].kind = "login"
      PROVE  /\ ~Answered(est[j])'
             /\ \A k, l \in 1..Len(cred') : cred'[k] = est'[i] /\ cred'[l] = est'[j] => k < l
  <2>1. i \in 1..Len(est) /\ est'[i] = est[i] /\ est[i] # r /\ LoginWaits(est[i])
    BY <1>5, <1>6, <1>9 DEF LoginWaits, Answered
  <2>2. CASE j = Len(est) + 1
    <3>1. ~Answered(est[j])'
      BY <2>2, <1>6 DEF Answered
    <3>2. ASSUME NEW k \in 1..Len(cred'), NEW l \in 1..Len(cred'), cred'[k] = est'[i], cred'[l] = r
          PROVE  k < l
      <4>1. l = Len(cred) + 1 /\ k # Len(cred) + 1
        BY <3>2, <2>1, <1>7
      <4> QED BY <4>1, <1>7
    <3> QED BY <3>1, <3>2, <2>2, <1>6
  <2>3. CASE j \in 1..Len(est)
    <3>1. request[est[j]].kind = "login" /\ est'[j] = est[j] /\ est[j] # r
      BY <2>3, <1>5, <1>6, <1>9
    <3>2. /\ ~Answered(est[j])
          /\ \A k, l \in 1..Len(cred) : cred[k] = est[i] /\ cred[l] = est[j] => k < l
      BY <2>1, <2>3, <3>1, <1>9 DEF Queues, ChainsAgree
    <3>3. ~Answered(est[j])'
      BY <3>1, <3>2, <2>3, <1>5 DEF Answered
    <3>4. ASSUME NEW k \in 1..Len(cred'), NEW l \in 1..Len(cred'),
                 cred'[k] = est'[i], cred'[l] = est'[j]
          PROVE  k < l
      <4>1. k \in 1..Len(cred) /\ l \in 1..Len(cred)
        BY <3>1, <3>4, <2>1, <1>7
      <4> QED BY <4>1, <3>1, <3>2, <3>4, <2>1, <1>7
    <3> QED BY <3>3, <3>4
  <2>4. j = Len(est) + 1 \/ j \in 1..Len(est)
    BY <1>6
  <2> QED BY <2>2, <2>3, <2>4
<1>10. ChainsAgree'
  BY <1>8, <1>9 DEF ChainsAgree
<1> QED BY <1>4, <1>10


\* A setup at the head of the establishments, or a password change, asks the store:
\* BeginSetup, ChangePassword and VerifiedChange.
LEMMA JoinsCred ==
    ASSUME Queues, NEW r \in Requests, Only(r), UNCHANGED est, cred' = Append(cred, r),
           ~In(cred, r), request'[r].verdict = "none",
           \/ /\ In(est, r) /\ r = est[1] /\ request'[r].at = "enrolling"
              /\ request'[r].kind = "setup" /\ request'[r].given \in Passwords
           \/ /\ ~In(est, r) /\ request'[r].at \in {"verifying", "replacing"}
              /\ request'[r].kind = "change" /\ request'[r].next \in Passwords
    PROVE  PlaceTellsState' /\ ChainsAgree'
<1>0. est \in Seq(Requests) /\ Distinct(est) /\ cred \in Seq(Requests) /\ Distinct(cred)
  BY DEF Queues, TypeOK, PlaceTellsState
<1>1. (\A o \in Requests : In(est', o) <=> In(est, o)) /\ Distinct(est')
  BY <1>0 DEF In, Distinct
<1>2. /\ \A o \in Requests : In(cred', o) <=> In(cred, o) \/ o = r
      /\ Distinct(cred')
  BY <1>0, InGrown
<1>3. WellPlaced(r)'
  BY <1>1, <1>2 DEF WellPlaced, Answered
<1>4. PlaceTellsState'
  BY <1>1, <1>2, <1>3, OthersStayPlaced
<1>5. \A i \in 1..Len(est) : est[i] \in Requests /\ (est[i] # r => request'[est[i]] = request[est[i]])
  BY EstMembers DEF Only
<1>6. /\ Len(cred') = Len(cred) + 1 /\ Len(cred) \in Nat /\ Len(est) \in Nat
      /\ \A i \in 1..Len(cred) : cred'[i] = cred[i]
      /\ cred'[Len(cred) + 1] = r
  BY <1>0, ChainGrows
<1>7. ASSUME NEW j \in 1..Len(est), request'[est[j]].at = "enrolling" PROVE j = 1
  <2>1. CASE est[j] = r
    <3>1. est[j] = est[1] /\ 1 \in 1..Len(est)
      BY <2>1, <1>6 DEF In
    <3> QED BY <3>1, <1>0 DEF Distinct
  <2>2. CASE est[j] # r
    BY <2>2, <1>5, <1>7 DEF Queues, ChainsAgree
  <2> QED BY <2>1, <2>2
<1>8. ASSUME NEW i \in 1..Len(est), NEW j \in 1..Len(est), i < j,
             LoginWaits(est[i])', request'[est[j]].kind = "login"
      PROVE  /\ ~Answered(est[j])'
             /\ \A k, l \in 1..Len(cred') : cred'[k] = est[i] /\ cred'[l] = est[j] => k < l
  <2>1. est[i] # r /\ est[j] # r
    BY <1>8 DEF LoginWaits
  <2>2. LoginWaits(est[i]) /\ request[est[j]].kind = "login"
    BY <2>1, <1>5, <1>8 DEF LoginWaits, Answered
  <2>3. /\ ~Answered(est[j])
        /\ \A k, l \in 1..Len(cred) : cred[k] = est[i] /\ cred[l] = est[j] => k < l
    BY <2>2, <1>8 DEF Queues, ChainsAgree
  <2>4. ASSUME NEW k \in 1..Len(cred'), NEW l \in 1..Len(cred'), cred'[k] = est[i], cred'[l] = est[j]
        PROVE  k < l
    <3>1. k \in 1..Len(cred) /\ l \in 1..Len(cred)
      BY <2>1, <2>4, <1>6
    <3> QED BY <3>1, <2>3, <2>4, <1>6
  <2> QED BY <2>1, <2>3, <2>4, <1>5 DEF Answered
<1>9. ChainsAgree'
  BY <1>7, <1>8 DEF ChainsAgree
<1> QED BY <1>4, <1>9

\* The first establishment ends: RunBootstrap, FinishLogin, FinishSetup.
LEMMA LeavesEst ==
    ASSUME Queues, NEW r \in Requests, Only(r), est # <<>>, r = Head(est), est' = Tail(est),
           UNCHANGED cred, ~In(cred, r),
           request'[r].at = "done", request'[r].verdict = "none",
           request'[r].kind = "setup" => request'[r].given \in Passwords
    PROVE  PlaceTellsState' /\ ChainsAgree'
<1>0. est \in Seq(Requests) /\ Distinct(est) /\ cred \in Seq(Requests) /\ Distinct(cred)
  BY DEF Queues, TypeOK, PlaceTellsState
<1>1. /\ \A o \in Requests : In(est', o) <=> In(est, o) /\ o # r
      /\ Distinct(est')
  BY <1>0, InShrunk
<1>2. (\A o \in Requests : In(cred', o) <=> In(cred, o)) /\ Distinct(cred')
  BY <1>0 DEF In, Distinct
<1>3. WellPlaced(r)'
  BY <1>1, <1>2 DEF WellPlaced, Answered
<1>4. PlaceTellsState'
  BY <1>1, <1>2, <1>3, OthersStayPlaced
<1>5. /\ Len(est') = Len(est) - 1 /\ Len(est) \in Nat /\ Len(est) > 0
      /\ \A i \in 1..(Len(est) - 1) : est'[i] = est[i + 1]
      /\ r = est[1]
  BY <1>0, ChainShrinks
<1>6. \A i \in 1..Len(est') :
         /\ i + 1 \in 1..Len(est) /\ est'[i] = est[i + 1] /\ est[i + 1] \in Requests
         /\ request'[est[i + 1]] = request[est[i + 1]]
  <2> TAKE i \in 1..Len(est')
  <2>1. i + 1 \in 1..Len(est) /\ est'[i] = est[i + 1] /\ 1 \in 1..Len(est) /\ i + 1 # 1
    BY <1>5
  <2>2. est[i + 1] # r /\ est[i + 1] \in Requests
    BY <2>1, <1>0, <1>5, EstMembers DEF Distinct
  <2> QED BY <2>1, <2>2 DEF Only
<1>7. ASSUME NEW j \in 1..Len(est'), request'[est'[j]].at = "enrolling" PROVE j = 1
  <2>1. j + 1 = 1
    BY <1>6, <1>7 DEF Queues, ChainsAgree
  <2> QED BY <2>1
<1>8. ASSUME NEW i \in 1..Len(est'), NEW j \in 1..Len(est'), i < j,
             LoginWaits(est[i])', request'[est'[j]].kind = "login"
      PROVE  /\ ~Answered(est[j])'
             /\ \A k, l \in 1..Len(cred') : cred'[k] = est'[i] /\ cred'[l] = est'[j] => k < l
  <2>1. /\ i + 1 \in 1..Len(est) /\ j + 1 \in 1..Len(est) /\ i + 1 < j + 1
        /\ est'[i] = est[i + 1] /\ est'[j] = est[j + 1]
        /\ request'[est[i + 1]] = request[est[i + 1]] /\ request'[est[j + 1]] = request[est[j + 1]]
    BY <1>6, <1>8
  <2>2. LoginWaits(est[i + 1]) /\ request[est[j + 1]].kind = "login"
    BY <2>1, <1>8 DEF LoginWaits, Answered
  <2>3. /\ ~Answered(est[j + 1])
        /\ \A k, l \in 1..Len(cred) : cred[k] = est[i + 1] /\ cred[l] = est[j + 1] => k < l
    BY <2>1, <2>2 DEF Queues, ChainsAgree
  <2> QED BY <2>1, <2>3 DEF Answered
<1>9. ChainsAgree'
  BY <1>7, <1>8 DEF ChainsAgree
<1> QED BY <1>4, <1>9

\* The store answers the request at the head of its chain: Verify, Enroll, Replace.
LEMMA GetsAnswer ==
    ASSUME Queues, NEW r \in Requests, Only(r), cred # <<>>, r = Head(cred), cred' = Tail(cred),
           UNCHANGED est, request'[r].verdict # "none",
           request'[r].at = request[r].at, request'[r].kind = request[r].kind,
           request'[r].given = request[r].given, request'[r].next = request[r].next
    PROVE  PlaceTellsState' /\ ChainsAgree'
<1>0. est \in Seq(Requests) /\ Distinct(est) /\ cred \in Seq(Requests) /\ Distinct(cred)
  BY DEF Queues, TypeOK, PlaceTellsState
<1>1. (\A o \in Requests : In(est', o) <=> In(est, o)) /\ Distinct(est')
  BY <1>0 DEF In, Distinct
<1>2. /\ \A o \in Requests : In(cred', o) <=> In(cred, o) /\ o # r
      /\ Distinct(cred') /\ In(cred, r)
  BY <1>0, InShrunk
<1>3. WellPlaced(r)'
  <2>1. WellPlaced(r)
    BY DEF Queues, PlaceTellsState
  <2> QED BY <2>1, <1>1, <1>2 DEF WellPlaced, Answered
<1>4. PlaceTellsState'
  BY <1>1, <1>2, <1>3, OthersStayPlaced
<1>5. \A i \in 1..Len(est) :
         /\ est[i] \in Requests /\ (est[i] # r => request'[est[i]] = request[est[i]])
         /\ request'[est[i]].at = request[est[i]].at /\ request'[est[i]].kind = request[est[i]].kind
  BY EstMembers DEF Only
<1>6. /\ Len(cred') = Len(cred) - 1 /\ Len(cred) \in Nat /\ Len(cred) > 0
      /\ \A i \in 1..(Len(cred) - 1) : cred'[i] = cred[i + 1]
      /\ r = cred[1]
  BY <1>0, ChainShrinks
<1>7. \A j \in 1..Len(est) : request'[est[j]].at = "enrolling" => j = 1
  BY <1>5 DEF Queues, ChainsAgree
<1>8. ASSUME NEW i \in 1..Len(est), NEW j \in 1..Len(est), i < j,
             LoginWaits(est[i])', request'[est[j]].kind = "login"
      PROVE  /\ ~Answered(est[j])'
             /\ \A k, l \in 1..Len(cred') : cred'[k] = est[i] /\ cred'[l] = est[j] => k < l
  <2>1. est[i] # r
    BY <1>8 DEF LoginWaits, Answered
  <2>2. LoginWaits(est[i]) /\ request[est[j]].kind = "login"
    BY <2>1, <1>5, <1>8 DEF LoginWaits, Answered
  <2>3. /\ ~Answered(est[j])
        /\ \A k, l \in 1..Len(cred) : cred[k] = est[i] /\ cred[l] = est[j] => k < l
    BY <2>2, <1>8 DEF Queues, ChainsAgree
  <2>4. est[j] # r
    <3>1. SUFFICES ASSUME est[j] = r PROVE FALSE
      OBVIOUS
    <3>2. PICK k \in 1..Len(cred) : cred[k] = est[i]
      BY <2>2, EstMembers DEF In
    <3>3. 1 \in 1..Len(cred) /\ cred[1] = est[j]
      BY <3>1, <1>6
    <3>4. k < 1
      BY <3>2, <3>3, <2>3
    <3> QED BY <3>2, <3>4, <1>6
  <2>5. ASSUME NEW k \in 1..Len(cred'), NEW l \in 1..Len(cred'), cred'[k] = est[i], cred'[l] = est[j]
        PROVE  k < l
    <3>1. /\ k + 1 \in 1..Len(cred) /\ l + 1 \in 1..Len(cred)
          /\ cred[k + 1] = est[i] /\ cred[l + 1] = est[j]
      BY <2>5, <1>6
    <3>2. k + 1 < l + 1
      BY <3>1, <2>3
    <3> QED BY <3>2, <1>6
  <2> QED BY <2>3, <2>4, <2>5, <1>5 DEF Answered
<1>9. ChainsAgree'
  <2>1. \A j \in 1..Len(est') : request'[est'[j]].at = "enrolling" => j = 1
    BY <1>7
  <2>2. \A i, j \in 1..Len(est') :
           i < j /\ LoginWaits(est[i])' /\ request'[est'[j]].kind = "login" =>
             /\ ~Answered(est[j])'
             /\ \A k, l \in 1..Len(cred') : cred'[k] = est'[i] /\ cred'[l] = est'[j] => k < l
    BY <1>8
  <2> QED BY <2>1, <2>2 DEF ChainsAgree
<1> QED BY <1>4, <1>9

\* When the event loop is quiet no verdict is left to act upon: the first of the
\* establishments would be ready, and so would a password change.
LEMMA QuietHasNoVerdict ==
    ASSUME Queues, SetupsAreAlone, Quiet
    PROVE  \A r \in Requests : ~Answered(r)
<1> SUFFICES ASSUME NEW r \in Requests, Answered(r) PROVE FALSE
  OBVIOUS
<1>1. est \in Seq(Requests) /\ WellPlaced(r)
  BY DEF Queues, TypeOK, PlaceTellsState
<1>2. request[r].at \notin {"verifying", "replacing"}
  BY DEF Quiet, Ready, ReadyChange
<1>3. In(est, r) /\ (request[r].at = "enrolling" \/ (request[r].at = "queued" /\ request[r].kind = "login"))
  BY <1>1, <1>2 DEF WellPlaced
<1>4. PICK i \in 1..Len(est) : est[i] = r
  BY <1>3 DEF In
<1>5. est # <<>> /\ 1 \in 1..Len(est) /\ Head(est) = est[1]
  BY <1>1, <1>4
<1>6. ~Answered(est[1]) /\ request[est[1]].kind # "bootstrap"
  BY <1>5 DEF Quiet, Ready, ReadyEst
<1>7. request[r].at # "enrolling"
  BY <1>4, <1>6 DEF Queues, ChainsAgree
<1>8. request[r].kind = "login"
  BY <1>3, <1>7
<1>9. CASE request[est[1]].kind = "setup"
  BY <1>4, <1>5, <1>8, <1>9, EstMembers DEF SetupsAreAlone
<1>10. CASE request[est[1]].kind = "login"
  <2>1. i # 1 /\ LoginWaits(est[1])
    BY <1>4, <1>6, <1>10 DEF LoginWaits
  <2>2. 1 < i
    BY <2>1, <1>4
  <2> QED BY <2>1, <2>2, <1>4, <1>5, <1>8 DEF Queues, ChainsAgree
<1> QED BY <1>5, <1>6, <1>9, <1>10, EstMembers

\* Once there is a password, a quiet event loop has run every setup.
LEMMA QuietHasNoSetup ==
    ASSUME Queues, SetupsAreAlone, OneChange, Quiet, password # NoPassword
    PROVE  \A r \in Pending : request[r].kind # "setup"
<1> SUFFICES ASSUME NEW r \in Pending, request[r].kind = "setup" PROVE FALSE
  OBVIOUS
<1>0. PICK i \in 1..Len(est) : est[i] = r
  BY DEF Pending, Queues, PlaceTellsState, WellPlaced, In
<1>1. /\ est \in Seq(Requests) /\ cred \in Seq(Requests)
      /\ est # <<>> /\ 1 \in 1..Len(est) /\ Head(est) = est[1] /\ est[1] \in Requests
  BY <1>0 DEF Queues, TypeOK
<1>2. /\ ~changing
      /\ \A j \in 1..Len(est) : request[est[j]].kind # "login"
  BY EstMembers DEF SetupsAreAlone
<1>3. ~Answered(est[1]) /\ request[est[1]].kind = "setup" /\ request[est[1]].at = "enrolling"
  BY <1>1, <1>2, EstMembers DEF Quiet, Ready, ReadyEst
<1>4. In(cred, est[1])
  BY <1>1, <1>3 DEF Queues, PlaceTellsState, WellPlaced
<1>5. cred # <<>> /\ 1 \in 1..Len(cred) /\ Head(cred) = cred[1] /\ cred[1] \in Requests
  BY <1>1, <1>4 DEF In
<1>6. In(cred, cred[1])
  BY <1>5 DEF In
<1>7. request[cred[1]].at = "enrolling"
  <2>1. WellPlaced(cred[1])
    BY <1>5 DEF Queues, PlaceTellsState
  <2>2. ~Changes(cred[1])
    BY <1>2, <1>5 DEF OneChange
  <2>3. ~(request[cred[1]].at = "queued" /\ request[cred[1]].kind = "login")
    <3>1. SUFFICES ASSUME request[cred[1]].at = "queued", request[cred[1]].kind = "login"
                   PROVE  FALSE
      OBVIOUS
    <3>2. In(est, cred[1])
      BY <3>1, <2>1 DEF WellPlaced
    <3> QED BY <3>1, <3>2, <1>2 DEF In
  <2> QED BY <2>1, <2>2, <2>3, <1>6 DEF WellPlaced, Changes
<1> QED BY <1>5, <1>7 DEF Quiet, Ready, ReadyEnroll, MayEnroll


-----------------------------------------------------------------------------
(***************************************************************************)
(* What the helpers of the actions do to one request.                      *)
(***************************************************************************)
\* Settle ends a request.
LEMMA SettleFacts ==
    ASSUME TypeOK, NEW r \in Requests, NEW outcome \in {"refused", "failed", "established", "changed"},
           Settle(r, outcome)
    PROVE  /\ Only(r) /\ request'[r].at = "done" /\ request'[r].verdict = "none"
           /\ request'[r].outcome = outcome
           /\ request'[r].kind = request[r].kind /\ request'[r].given = request[r].given
<1>1. request \in [Requests -> RequestRecord]
  BY DEF TypeOK
<1>2. request[r] \in RequestRecord
  BY <1>1
<1> DEFINE q == [request[r] EXCEPT !.at = "done", !.outcome = outcome, !.verdict = "none"]
<1>3. q \in RequestRecord /\ q.at = "done" /\ q.verdict = "none" /\ q.outcome = outcome
      /\ q.kind = request[r].kind /\ q.given = request[r].given
  BY <1>2 DEF RequestRecord
<1>4. request' = [request EXCEPT ![r] = q]
  BY <1>1, <1>2 DEF Settle, RequestRecord
<1> HIDE DEF q
<1> QED BY <1>1, <1>3, <1>4 DEF Only

\* Submit puts a new request in its place.
LEMMA SubmitFacts ==
    ASSUME TypeOK, NEW r \in Requests, NEW q \in RequestRecord, Submit(r, q)
    PROVE  Only(r) /\ request'[r] = q
<1>1. request \in [Requests -> RequestRecord]
  BY DEF TypeOK
<1> QED BY <1>1 DEF Submit, Only

\* A request is queued for the store.
LEMMA EnqueueFacts ==
    ASSUME TypeOK, NEW r \in Requests, NEW at \in {"enrolling"}, Enqueue(r, at)
    PROVE  /\ Only(r) /\ request'[r].at = at /\ cred' = Append(cred, r)
           /\ request'[r].kind = request[r].kind /\ request'[r].given = request[r].given
           /\ request'[r].verdict = request[r].verdict
           /\ request'[r].outcome = request[r].outcome
<1>1. request \in [Requests -> RequestRecord]
  BY DEF TypeOK
<1>2. request[r] \in RequestRecord
  BY <1>1
<1> DEFINE q == [request[r] EXCEPT !.at = at]
<1>3. q \in RequestRecord /\ q.at = at /\ q.verdict = request[r].verdict
      /\ q.outcome = request[r].outcome
      /\ q.kind = request[r].kind /\ q.given = request[r].given
  BY <1>2 DEF RequestRecord
<1>4. request' = [request EXCEPT ![r] = q]
  BY <1>1, <1>2 DEF Enqueue, RequestRecord
<1> HIDE DEF q
<1> QED BY <1>1, <1>3, <1>4 DEF Only, Enqueue

\* The store answers; the verdict carries the epoch of the password it is about.
LEMMA AnswerFacts ==
    ASSUME TypeOK, NEW r \in Requests, NEW v \in {"valid", "invalid", "failed"}, Answer(r, v),
           epoch' \in Nat
    PROVE  /\ Only(r) /\ request'[r].verdict = v /\ cred' = Tail(cred)
           /\ request'[r].epoch = epoch' /\ request'[r].at = request[r].at
           /\ request'[r].kind = request[r].kind /\ request'[r].given = request[r].given
           /\ request'[r].next = request[r].next /\ request'[r].outcome = request[r].outcome
<1>1. request \in [Requests -> RequestRecord]
  BY DEF TypeOK
<1>2. request[r] \in RequestRecord
  BY <1>1
<1> DEFINE q == [request[r] EXCEPT !.verdict = v, !.epoch = epoch']
<1>3. q \in RequestRecord /\ q.verdict = v /\ q.epoch = epoch' /\ q.at = request[r].at
      /\ q.kind = request[r].kind /\ q.given = request[r].given /\ q.next = request[r].next
      /\ q.outcome = request[r].outcome
  BY <1>2 DEF RequestRecord
<1>4. request' = [request EXCEPT ![r] = q]
  BY <1>1, <1>2 DEF Answer, Verdict, RequestRecord
<1> HIDE DEF q
<1> QED BY <1>1, <1>3, <1>4 DEF Only, Answer

-----------------------------------------------------------------------------
(***************************************************************************)
(* Sessions.                                                               *)
(***************************************************************************)
GoodSessions ==
    /\ Present \subseteq Ids /\ IsFiniteSet(Present) /\ announced \subseteq Ids
    /\ \A a \in Present : session[a] \in SessionRecord
    /\ TimesAreKept

\* Sessions that are there keep their password.
NoneIsNew == \A a \in DOMAIN session' : a \in Present /\ session'[a].epoch = session[a].epoch

\* revoke leaves the other sessions as they are.
LEMMA RevokeKeeps ==
    ASSUME GoodSessions, NEW S \in SUBSET Present, Revoke(S)
    PROVE  /\ GoodSessions' /\ NoneIsNew /\ DOMAIN session' = Present \ S
           /\ announced' = announced \cup S
           /\ \A a \in DOMAIN session' : session'[a] = session[a]
<1>1. /\ DOMAIN session' = Present \ S
      /\ \A a \in Present \ S : session'[a] = session[a]
      /\ announced' = announced \cup S
  BY DEF Revoke, Without
<1>2. IsFiniteSet(Present \ S)
  BY FS_Subset DEF GoodSessions
<1>3. Present' = DOMAIN session'
  BY DEF Present
<1>4. Present' \subseteq Ids /\ IsFiniteSet(Present') /\ announced' \subseteq Ids
  BY <1>1, <1>2, <1>3 DEF GoodSessions
<1>5. \A a \in Present' : session'[a] \in SessionRecord
  BY <1>1, <1>3 DEF GoodSessions
<1>6. TimesAreKept'
  BY <1>1, <1>3 DEF GoodSessions, TimesAreKept
<1>7. GoodSessions'
  BY <1>4, <1>5, <1>6 DEF GoodSessions
<1> QED BY <1>1, <1>7 DEF NoneIsNew

\* commitSession opens a session with the epoch it was given, whatever makes room.
LEMMA EstablishKeeps ==
    ASSUME GoodSessions, DurationAssumption, now \in Nat, NEW up \in Nat \cup {NoExpiry},
           NEW e \in Nat, Establish(up, e)
    PROVE  /\ GoodSessions'
           /\ \A a \in DOMAIN session' :
                 (a \in Present /\ session'[a] = session[a]) \/ session'[a].epoch = e
           /\ announced' = announced \cup (Present \ DOMAIN session')
           /\ \A a \in Present \cap DOMAIN session' : session'[a] = session[a]
<1> DEFINE gone == {a \in Present : Expired(session[a])}
           active == Present \ gone
<1>1. PICK id \in Ids \ (Present \cup announced) :
        \E victim \in IF Crowded(active) THEN {{v} : v \in Oldest(active)} ELSE {{}} :
          /\ session' = [a \in (active \ victim) \cup {id} |->
                            IF a = id THEN NewSession(up, e) ELSE session[a]]
          /\ announced' = announced \cup Told(gone, victim)
  BY DEF Establish
<1>2. PICK victim \in IF Crowded(active) THEN {{v} : v \in Oldest(active)} ELSE {{}} :
          /\ session' = [a \in (active \ victim) \cup {id} |->
                            IF a = id THEN NewSession(up, e) ELSE session[a]]
          /\ announced' = announced \cup Told(gone, victim)
  BY <1>1
<1>3. victim \subseteq active
  BY <1>2 DEF Oldest
<1>4. /\ DOMAIN session' = (active \ victim) \cup {id}
      /\ \A a \in active \ victim : session'[a] = session[a]
      /\ session'[id] = NewSession(up, e) /\ id \notin Present
      /\ announced' = announced \cup gone \cup victim
  BY <1>1, <1>2 DEF Told
<1>5. gone \subseteq Present /\ active \subseteq Present
  OBVIOUS
<1> HIDE DEF gone, active
<1>6. NewSession(up, e) \in SessionRecord /\ NewSession(up, e).epoch = e
      /\ NewSession(up, e).idle <= NewSession(up, e).seen + Idle
      /\ NewSession(up, e).absolute = NewSession(up, e).created + Absolute
  BY DEF NewSession, SessionRecord, DurationAssumption, Minimum
<1>7. IsFiniteSet((active \ victim) \cup {id})
  <2>1. IsFiniteSet(active \ victim)
    BY <1>5, FS_Subset DEF GoodSessions
  <2> QED BY <2>1, FS_AddElement
<1>8. Present' = DOMAIN session'
  BY DEF Present
<1>9. Present' \subseteq Ids /\ IsFiniteSet(Present') /\ announced' \subseteq Ids
  BY <1>1, <1>3, <1>4, <1>5, <1>7, <1>8 DEF GoodSessions
<1>10. \A a \in Present' : session'[a] \in SessionRecord
  BY <1>4, <1>5, <1>6, <1>8 DEF GoodSessions
<1>11. TimesAreKept'
  BY <1>4, <1>5, <1>6, <1>8 DEF GoodSessions, TimesAreKept
<1>12. GoodSessions'
  BY <1>9, <1>10, <1>11 DEF GoodSessions
<1>13. announced' = announced \cup (Present \ DOMAIN session')
  BY <1>3, <1>4, <1>5 DEF active
<1> QED BY <1>4, <1>5, <1>6, <1>12, <1>13


\* Only identities of the upstream carry an expiry, and it is a time.
LEMMA ExpiryTypes == ASSUME BoundsAssumption PROVE Expiries \subseteq Nat \cup {NoExpiry}
  BY DEF Expiries, BoundsAssumption

\* A session is used
Uses(id) == Touch(id) \/ Resume(id) \/ \E up \in Expiries : Refresh(id, up)

\* Using a session that was found keeps its password and its times, and one that
\* has expired is not used.
LEMMA UseKeeps ==
    ASSUME GoodSessions, DurationAssumption, BoundsAssumption, NoneAssumption, now \in Nat,
           NEW id \in Ids, Uses(id)
    PROVE  /\ GoodSessions' /\ NoneIsNew /\ DOMAIN session' = Present
           /\ UNCHANGED <<now, announced, password, epoch, est, cred, request, changing>>
           /\ LifetimeIsBounded
<1> DEFINE old == session[id]
<1>1. id \in Present /\ old \in SessionRecord /\ ~Expired(old)
      /\ old.idle <= old.seen + Idle /\ old.absolute = old.created + Absolute
  BY DEF Uses, Touch, Resume, Refresh, Found, GoodSessions, TimesAreKept
<1> DEFINE Good(s) ==
        /\ Update(id, s) /\ s.epoch = old.epoch
        /\ s.idle <= s.seen + Idle /\ s.absolute = s.created + Absolute
        /\ old.upstream \in Nat => s.upstream \in Nat /\ s.upstream >= old.upstream
<1>2. PICK s \in SessionRecord : Good(s)
  <2>1. CASE Touch(id)
    <3> DEFINE s == [old EXCEPT !.seen = now, !.idle = Minimum(old.absolute, now + Idle)]
    <3>1. Update(id, s)
      BY <2>1 DEF Touch
    <3>0. Minimum(old.absolute, now + Idle) \in Nat
      BY <1>1 DEF SessionRecord, Minimum, DurationAssumption
    <3>2. s \in SessionRecord /\ s.epoch = old.epoch /\ s.seen = now
          /\ s.idle = Minimum(old.absolute, now + Idle)
          /\ s.absolute = old.absolute /\ s.created = old.created /\ s.upstream = old.upstream
      BY <1>1, <3>0 DEF SessionRecord
    <3>3. s.idle <= s.seen + Idle
      BY <1>1, <3>2 DEF SessionRecord, Minimum, DurationAssumption
    <3> HIDE DEF s
    <3> QED BY <1>1, <3>1, <3>2, <3>3 DEF SessionRecord
  <2>2. CASE Resume(id)
    <3> DEFINE s == [old EXCEPT !.csrf = @ + 1]
    <3>1. Update(id, s)
      BY <2>2 DEF Resume
    <3>2. s \in SessionRecord /\ s.epoch = old.epoch /\ s.seen = old.seen /\ s.idle = old.idle
          /\ s.absolute = old.absolute /\ s.created = old.created /\ s.upstream = old.upstream
      BY <1>1 DEF SessionRecord
    <3> HIDE DEF s
    <3> QED BY <1>1, <3>1, <3>2 DEF SessionRecord
  <2>3. ASSUME NEW up \in Expiries, Refresh(id, up) PROVE \E s \in SessionRecord : Good(s)
    <3> DEFINE s == [old EXCEPT !.upstream = up]
    <3>1. Update(id, s) /\ up # NoExpiry /\ (old.upstream # NoExpiry => Later(old, up))
      BY <2>3 DEF Refresh
    <3>2. up \in Nat
      BY <3>1, ExpiryTypes
    <3>3. s \in SessionRecord /\ s.epoch = old.epoch /\ s.seen = old.seen /\ s.idle = old.idle
          /\ s.absolute = old.absolute /\ s.created = old.created /\ s.upstream = up
      BY <1>1, <3>2 DEF SessionRecord
    <3>4. old.upstream \in Nat => up >= old.upstream
      BY <3>1, <3>2 DEF Later, NoneAssumption
    <3> HIDE DEF s
    <3> QED BY <1>1, <3>1, <3>2, <3>3, <3>4
  <2> QED BY <2>1, <2>2, <2>3 DEF Uses
<1>3. /\ DOMAIN session' = Present /\ session'[id] = s
      /\ \A a \in Present : a # id => session'[a] = session[a]
      /\ UNCHANGED <<now, announced, password, epoch, est, cred, request, changing>>
  BY <1>1, <1>2 DEF Update, Present
<1>4. Present' = Present
  BY <1>3 DEF Present
<1>5. TimesAreKept'
  BY <1>1, <1>2, <1>3, <1>4 DEF GoodSessions, TimesAreKept
<1>6. GoodSessions'
  BY <1>2, <1>3, <1>4, <1>5 DEF GoodSessions
<1>7. NoneIsNew
  BY <1>2, <1>3 DEF NoneIsNew
<1>8. ASSUME NEW a \in Present \cap DOMAIN session', session'[a] # session[a]
      PROVE  /\ now < session[a].created + Absolute
             /\ now < session[a].seen + Idle
             /\ session[a].upstream \in Nat =>
                   now < session[a].upstream
                   /\ session'[a].upstream >= session[a].upstream
  <2>1. a = id
    BY <1>3, <1>8
  <2>2. now < old.idle /\ now < old.absolute /\ (old.upstream \in Nat => now < old.upstream)
    BY <1>1 DEF Expired, SessionRecord, NoneAssumption
  <2>3. now < old.created + Absolute /\ now < old.seen + Idle
    BY <1>1, <2>2 DEF SessionRecord, DurationAssumption
  <2> QED BY <2>1, <2>2, <2>3, <1>2, <1>3
<1>9. LifetimeIsBounded
  BY <1>8 DEF LifetimeIsBounded
<1> QED BY <1>3, <1>6, <1>7, <1>9


-----------------------------------------------------------------------------
(***************************************************************************)
(* The part of the invariant that is about the password.                   *)
(***************************************************************************)
Credentials ==
    OneChange /\ SetupsAreAlone /\ EnrolmentComesFirst /\ AnswersAreCurrent /\ SessionsAreCurrent

ConstantsAreGood ==
    DurationAssumption /\ BoundsAssumption /\ NoneAssumption /\ CapacityAssumption

\* Sessions are those of before, or new with the password of now.
NewIsCurrent ==
    \A a \in DOMAIN session' :
        \/ a \in Present /\ session'[a].epoch = session[a].epoch
        \/ Mode = "local" => password # NoPassword /\ session'[a].epoch = epoch

\* A step that is about sessions alone.
LEMMA SessionsAlone ==
    ASSUME IInv, NoneIsNew, UNCHANGED <<password, epoch, est, cred, request, changing>>
    PROVE  PlaceTellsState' /\ ChainsAgree' /\ Credentials'
<1>1. PlaceTellsState'
  BY DEF IInv, PlaceTellsState, Distinct, In, WellPlaced, Answered
<1>2. ChainsAgree'
  BY DEF IInv, ChainsAgree, LoginWaits, Answered
<1>3. OneChange' /\ SetupsAreAlone'
  BY DEF IInv, OneChange, Changes, SetupsAreAlone, Pending
<1>4. Present' \subseteq Present
  BY DEF NoneIsNew, Present
<1>5. EnrolmentComesFirst'
  BY <1>4 DEF IInv, EnrolmentComesFirst, Enrolled, Pending
<1>6. AnswersAreCurrent'
  BY DEF IInv, AnswersAreCurrent, Answered
<1>7. SessionsAreCurrent'
  BY DEF IInv, SessionsAreCurrent, NoneIsNew, Present
<1> QED BY <1>1, <1>2, <1>3, <1>5, <1>6, <1>7 DEF Credentials

\* A step of a request that is no password change, and sets no password.
LEMMA EstablishmentMoves ==
    ASSUME IInv, NEW r \in Requests, Only(r), UNCHANGED <<password, epoch, changing>>, NewIsCurrent,
           ~Changes(r), request'[r].at \notin {"verifying", "replacing"},
           request'[r].at \in {"queued", "enrolling"} /\ request'[r].kind = "setup" =>
              \/ r \in Pending /\ request[r].kind = "setup"
              \/ ~changing /\ \A o \in Pending : request[o].kind # "login",
           request'[r].at \in {"queued", "enrolling"} /\ request'[r].kind = "login" =>
              \/ r \in Pending /\ request[r].kind = "login"
              \/ password # NoPassword /\ \A o \in Pending : request[o].kind # "setup",
           request'[r].kind = "setup"
              /\ (request'[r].outcome = "established" \/ request'[r].verdict = "valid") =>
              r \in Enrolled,
           Answered(r)' => Answered(r) /\ request'[r].epoch = request[r].epoch
    PROVE  Credentials'
<1>0. /\ \A o \in Requests : o # r => request'[o] = request[o]
      /\ OneChange /\ SetupsAreAlone /\ EnrolmentComesFirst /\ AnswersAreCurrent
      /\ SessionsAreCurrent
  BY DEF Only, IInv
<1>1. OneChange'
  BY <1>0 DEF OneChange, Changes
<1>2. SetupsAreAlone'
  <2> SUFFICES ASSUME NEW s \in Pending', request'[s].kind = "setup"
               PROVE  ~changing /\ \A o \in Pending' : request'[o].kind # "login"
    BY DEF SetupsAreAlone
  <2>1. s \in Requests /\ request'[s].at \in {"queued", "enrolling"}
    BY DEF Pending
  <2>2. (s \in Pending /\ request[s].kind = "setup")
           \/ (~changing /\ \A o \in Pending : request[o].kind # "login")
    BY <1>0, <2>1 DEF Pending
  <2>3. ~changing /\ \A o \in Pending : request[o].kind # "login"
    BY <2>2, <1>0 DEF SetupsAreAlone
  <2>4. ASSUME NEW o \in Pending', request'[o].kind = "login" PROVE FALSE
    <3>1. o \in Requests /\ request'[o].at \in {"queued", "enrolling"}
      BY DEF Pending
    <3>2. o = r
      BY <3>1, <2>3, <2>4, <1>0 DEF Pending
    <3>3. \A p \in Pending : request[p].kind # "setup"
      BY <3>1, <3>2, <2>3, <2>4
    <3>4. s # r
      BY <3>2, <2>4
    <3> QED BY <3>3, <3>4, <2>1, <1>0 DEF Pending
  <2> QED BY <2>3, <2>4
<1>3. Enrolled' \subseteq Enrolled
  BY <1>0 DEF Enrolled
<1>4. EnrolmentComesFirst'
  <2>1. ASSUME password = NoPassword, Mode = "local" PROVE Present' = {}
    BY <2>1, <1>0 DEF EnrolmentComesFirst, NewIsCurrent, Present
  <2>2. ASSUME password = NoPassword, NEW o \in Pending' PROVE request'[o].kind # "login"
    BY <2>2, <1>0 DEF EnrolmentComesFirst, Pending
  <2> QED BY <2>1, <2>2, <1>0, <1>3 DEF EnrolmentComesFirst
<1>5. AnswersAreCurrent'
  BY <1>0 DEF AnswersAreCurrent, Answered
<1>6. SessionsAreCurrent'
  <2> SUFFICES ASSUME Mode = "local"
               PROVE  \/ \A a \in Present' : session'[a].epoch = epoch
                      \/ \E o \in Requests : request'[o].at = "replacing" /\ request'[o].verdict = "valid"
    BY DEF SessionsAreCurrent
  <2>1. CASE \A a \in Present : session[a].epoch = epoch
    BY <2>1 DEF NewIsCurrent, Present
  <2>2. ASSUME NEW o \in Requests, request[o].at = "replacing", request[o].verdict = "valid"
        PROVE  request'[o].at = "replacing" /\ request'[o].verdict = "valid"
    BY <2>2, <1>0 DEF Changes
  <2> QED BY <2>1, <2>2, <1>0 DEF SessionsAreCurrent
<1> QED BY <1>1, <1>2, <1>4, <1>5, <1>6 DEF Credentials


\* The invariant put together again.
LEMMA Assembled ==
    ASSUME IInv, GoodSessions', now' \in Nat, password' \in Passwords \cup {NoPassword},
           epoch' \in Nat, est' \in Seq(Requests), cred' \in Seq(Requests), changing' \in BOOLEAN,
           request' \in [Requests -> RequestRecord],
           PlaceTellsState', ChainsAgree', Credentials'
    PROVE  IInv'
  BY DEF IInv, GoodSessions, TypeOK, Credentials

\* The parts of the invariant, to be cited.
LEMMA Apart ==
    ASSUME IInv
    PROVE  /\ GoodSessions /\ Queues /\ now \in Nat /\ password \in Passwords \cup {NoPassword}
           /\ epoch \in Nat /\ est \in Seq(Requests) /\ cred \in Seq(Requests)
           /\ changing \in BOOLEAN /\ request \in [Requests -> RequestRecord]
           /\ OneChange /\ SetupsAreAlone /\ EnrolmentComesFirst /\ AnswersAreCurrent
           /\ SessionsAreCurrent /\ TypeOK
  BY DEF IInv, GoodSessions, TypeOK, Queues

\* Sessions that nobody touched
LEMMA SessionsStay ==
    ASSUME IInv, UNCHANGED <<session, announced>>
    PROVE  GoodSessions' /\ NoneIsNew
  BY Apart DEF GoodSessions, NoneIsNew, Present, TimesAreKept

\* A new request is in no chain.
LEMMA NewIsNowhere ==
    ASSUME IInv, NEW r \in Requests, request[r].at = "new"
    PROVE  ~In(est, r) /\ ~In(cred, r) /\ ~Answered(r) /\ ~Changes(r) /\ r \notin Pending
  BY DEF IInv, PlaceTellsState, WellPlaced, Changes, Pending

\* A call that is refused at once changes nothing else, but that a session may be
\* found expired.
LEMMA RefusedKeeps ==
    ASSUME IInv, NEW r \in Requests, request[r].at = "new", NEW q \in RequestRecord, Submit(r, q),
           q.at = "done", q.outcome = "refused", q.verdict = "none",
           q.kind = "setup" => q.given \in Passwords,
           GoodSessions', NoneIsNew, UNCHANGED <<now, password, epoch, est, cred, changing>>
    PROVE  IInv'
<1>1. Only(r) /\ request'[r] = q
  BY Apart, SubmitFacts
<1>2. ~In(est, r) /\ ~In(cred, r) /\ ~Answered(r) /\ ~Changes(r)
  BY NewIsNowhere
<1>3. PlaceTellsState' /\ ChainsAgree'
  BY <1>1, <1>2, Apart, ApartMoves
<1>4. NewIsCurrent
  BY DEF NoneIsNew, NewIsCurrent
<1>5. Answered(r)' => FALSE
  BY <1>1 DEF Answered
<1>6. Credentials'
  BY <1>1, <1>2, <1>4, <1>5, EstablishmentMoves
<1> QED BY <1>1, <1>3, <1>6, Apart, Assembled DEF Only

\* Bootstrap: capacity decides whether it is queued.
LEMMA BootstrapKeeps == ASSUME IInv, NEW r \in Requests, Bootstrap(r) PROVE IInv'
<1>0. request[r].at = "new" /\ UNCHANGED <<now, session, announced, password, epoch, cred, changing>>
  BY DEF Bootstrap
<1>1. GoodSessions' /\ NoneIsNew /\ NewIsCurrent
  BY <1>0, SessionsStay DEF NoneIsNew, NewIsCurrent
<1>2. CASE Room
  <2> DEFINE q == [NoRequest EXCEPT !.kind = "bootstrap", !.at = "queued"]
  <2>1. q \in RequestRecord /\ q.kind = "bootstrap" /\ q.at = "queued" /\ q.verdict = "none"
    BY DEF NoRequest, RequestRecord
  <2>2. Submit(r, q) /\ est' = Append(est, r)
    BY <1>2 DEF Bootstrap
  <2> HIDE DEF q
  <2>3. Only(r) /\ request'[r] = q
    BY <2>1, <2>2, Apart, SubmitFacts
  <2>4. PlaceTellsState' /\ ChainsAgree'
    BY <2>1, <2>2, <2>3, <1>0, Apart, NewIsNowhere, JoinsEst
  <2>5. ~(Answered(r)')
    BY <2>1, <2>3 DEF Answered
  <2>6. Credentials'
    BY <2>1, <2>3, <2>5, <1>0, <1>1, NewIsNowhere, EstablishmentMoves
  <2>7. est' \in Seq(Requests)
    BY <2>2, Apart, ChainGrows
  <2> QED BY <2>3, <2>4, <2>6, <2>7, <1>0, <1>1, Apart, Assembled DEF Only
<1>3. CASE ~Room
  <2> DEFINE q == [NoRequest EXCEPT !.kind = "bootstrap", !.at = "done", !.outcome = "refused"]
  <2>1. q \in RequestRecord /\ q.kind = "bootstrap" /\ q.at = "done" /\ q.verdict = "none"
        /\ q.outcome = "refused"
    BY DEF NoRequest, RequestRecord
  <2>2. Submit(r, q) /\ UNCHANGED est
    BY <1>3 DEF Bootstrap
  <2> HIDE DEF q
  <2> QED BY <2>1, <2>2, <1>0, <1>1, RefusedKeeps
<1> QED BY <1>2, <1>3

\* Setup: it is queued only where nobody has enrolled.
LEMMA SetupKeeps == ASSUME IInv, NEW r \in Requests, NEW p \in Passwords, Setup(r, p) PROVE IInv'
<1>0. request[r].at = "new" /\ UNCHANGED <<now, session, announced, password, epoch, cred, changing>>
  BY DEF Setup
<1>1. GoodSessions' /\ NoneIsNew /\ NewIsCurrent
  BY <1>0, SessionsStay DEF NoneIsNew, NewIsCurrent
<1> DEFINE asked == [NoRequest EXCEPT !.kind = "setup", !.given = p]
           q == [asked EXCEPT !.at = "queued"]
           d == [asked EXCEPT !.at = "done", !.outcome = "refused"]
<1>2. CASE password = NoPassword /\ Submit(r, q) /\ est' = Append(est, r)
  <2>1. q \in RequestRecord /\ q.kind = "setup" /\ q.at = "queued" /\ q.verdict = "none"
        /\ q.given \in Passwords /\ q.outcome = "none"
    BY DEF NoRequest, RequestRecord
  <2> HIDE DEF q
  <2>3. Only(r) /\ request'[r] = q
    BY <2>1, <1>2, Apart, SubmitFacts
  <2>4. PlaceTellsState' /\ ChainsAgree'
    BY <2>1, <2>3, <1>0, <1>2, Apart, NewIsNowhere, JoinsEst
  <2>5. ~(Answered(r)')
    BY <2>1, <2>3 DEF Answered
  <2>6. ~changing /\ \A o \in Pending : request[o].kind # "login"
    BY <1>2, Apart DEF EnrolmentComesFirst
  <2>7. Credentials'
    BY <2>1, <2>3, <2>5, <2>6, <1>0, <1>1, NewIsNowhere, EstablishmentMoves
  <2>8. est' \in Seq(Requests)
    BY <1>2, Apart, ChainGrows
  <2> QED BY <2>3, <2>4, <2>7, <2>8, <1>0, <1>1, Apart, Assembled DEF Only
<1>3. CASE Submit(r, d) /\ UNCHANGED est
  <2>1. d \in RequestRecord /\ d.kind = "setup" /\ d.at = "done" /\ d.verdict = "none"
        /\ d.outcome = "refused" /\ d.given \in Passwords
    BY DEF NoRequest, RequestRecord
  <2> HIDE DEF d
  <2> QED BY <2>1, <1>3, <1>0, <1>1, RefusedKeeps
<1> QED BY <1>2, <1>3 DEF Setup

\* Login: it is queued only where there is a password, and so only after every setup.
LEMMA LoginKeeps == ASSUME IInv, NEW r \in Requests, NEW p \in Passwords, Login(r, p) PROVE IInv'
<1>0. /\ request[r].at = "new" /\ UNCHANGED <<now, session, announced, password, epoch, changing>>
      /\ Quiet
  BY DEF Login
<1>1. GoodSessions' /\ NoneIsNew /\ NewIsCurrent
  BY <1>0, SessionsStay DEF NoneIsNew, NewIsCurrent
<1> DEFINE asked == [NoRequest EXCEPT !.kind = "login", !.given = p]
           q == [asked EXCEPT !.at = "queued"]
           d == [asked EXCEPT !.at = "done", !.outcome = "refused"]
<1>2. CASE /\ password # NoPassword /\ Submit(r, q)
           /\ est' = Append(est, r) /\ cred' = Append(cred, r)
  <2>1. q \in RequestRecord /\ q.kind = "login" /\ q.at = "queued" /\ q.verdict = "none"
    BY DEF NoRequest, RequestRecord
  <2> HIDE DEF q
  <2>3. Only(r) /\ request'[r] = q
    BY <2>1, <1>2, Apart, SubmitFacts
  <2>4. PlaceTellsState' /\ ChainsAgree'
    BY <2>1, <2>3, <1>0, <1>2, Apart, NewIsNowhere, JoinsBoth
  <2>5. ~(Answered(r)')
    BY <2>1, <2>3 DEF Answered
  <2>6. \A o \in Pending : request[o].kind # "setup"
    BY <1>0, <1>2, Apart, QuietHasNoSetup
  <2>7. Credentials'
    BY <2>1, <2>3, <2>5, <2>6, <1>0, <1>1, <1>2, NewIsNowhere, EstablishmentMoves
  <2>8. est' \in Seq(Requests) /\ cred' \in Seq(Requests)
    BY <1>2, Apart, ChainGrows
  <2> QED BY <2>3, <2>4, <2>7, <2>8, <1>0, <1>1, Apart, Assembled DEF Only
<1>3. CASE Submit(r, d) /\ UNCHANGED <<est, cred>>
  <2>1. d \in RequestRecord /\ d.kind = "login" /\ d.at = "done" /\ d.verdict = "none"
        /\ d.outcome = "refused"
    BY DEF NoRequest, RequestRecord
  <2> HIDE DEF d
  <2> QED BY <2>1, <1>3, <1>0, <1>1, RefusedKeeps
<1> QED BY <1>2, <1>3 DEF Login


\* The head of the establishments is a request of that chain.
LEMMA HeadOfEst ==
    ASSUME IInv, est # <<>>
    PROVE  /\ Head(est) \in Requests /\ Head(est) = est[1] /\ Head(est) \in Pending
           /\ In(est, Head(est)) /\ ~Changes(Head(est))
           /\ request[Head(est)].kind = "setup" => request[Head(est)].given \in Passwords
           /\ request[Head(est)].kind = "bootstrap" \/ Answered(Head(est)) => ~In(cred, Head(est))
<1>1. est \in Seq(Requests) /\ Queues
  BY Apart
<1>2. 1 \in 1..Len(est) /\ Head(est) = est[1]
  BY <1>1
<1>3. est[1] \in Requests /\ In(est, est[1]) /\ est[1] \in Pending
  BY <1>1, <1>2, EstMembers
<1>4. WellPlaced(est[1])
  BY <1>1, <1>3 DEF Queues, PlaceTellsState
<1> QED BY <1>2, <1>3, <1>4 DEF WellPlaced, Pending, Changes

\* The chain goes on when the first establishment has ended, with a session or not.
LEMMA LeaveKeeps ==
    ASSUME IInv, est # <<>>, NEW outcome \in {"refused", "failed", "established"},
           Leave(Head(est), outcome),
           request[Head(est)].kind = "bootstrap" \/ Answered(Head(est)),
           outcome = "established" /\ request[Head(est)].kind = "setup" =>
              request[Head(est)].verdict = "valid",
           GoodSessions', NewIsCurrent, UNCHANGED <<now, password, epoch, cred, changing>>
    PROVE  IInv'
<1>0. PICK r \in Requests : r = Head(est)
  BY HeadOfEst
<1>1. /\ r \in Requests /\ r \in Pending /\ ~Changes(r) /\ ~In(cred, r)
      /\ request[r].kind = "setup" => request[r].given \in Passwords
  BY <1>0, HeadOfEst
<1>2. Settle(r, outcome) /\ est' = Tail(est)
  BY <1>0 DEF Leave
<1>3. /\ Only(r) /\ request'[r].at = "done" /\ request'[r].verdict = "none"
      /\ request'[r].outcome = outcome
      /\ request'[r].kind = request[r].kind /\ request'[r].given = request[r].given
  BY <1>1, <1>2, Apart, SettleFacts
<1>4. PlaceTellsState' /\ ChainsAgree'
  BY <1>0, <1>1, <1>2, <1>3, Apart, LeavesEst
<1>5. ~(Answered(r)')
  BY <1>3 DEF Answered
<1>6. request[r].kind = "setup" /\ outcome = "established" => r \in Enrolled
  BY <1>0, <1>1 DEF Enrolled
<1>7. Credentials'
  BY <1>1, <1>3, <1>5, <1>6, EstablishmentMoves
<1>8. est' \in Seq(Requests)
  BY <1>2, Apart, ChainShrinks
<1> QED BY <1>3, <1>4, <1>7, <1>8, Apart, Assembled DEF Only

\* An establishment opens a session of the password of now, or fails.
LEMMA EstablishedKeeps ==
    ASSUME IInv, ConstantsAreGood, est # <<>>, NEW up \in Nat \cup {NoExpiry}, NEW e \in Nat,
           Established(Head(est), up, e),
           request[Head(est)].kind = "bootstrap" \/ Answered(Head(est)),
           Mode = "local" => password # NoPassword /\ e = epoch,
           request[Head(est)].kind = "setup" => request[Head(est)].verdict = "valid",
           UNCHANGED <<now, password, epoch, cred, changing>>
    PROVE  IInv'
<1>1. CASE Establish(up, e) /\ Leave(Head(est), "established")
  <2>1. /\ GoodSessions'
        /\ \A a \in DOMAIN session' :
              (a \in Present /\ session'[a] = session[a]) \/ session'[a].epoch = e
    BY <1>1, Apart, EstablishKeeps DEF ConstantsAreGood
  <2>2. NewIsCurrent
    BY <2>1 DEF NewIsCurrent
  <2> QED BY <1>1, <2>1, <2>2, LeaveKeeps
<1>2. CASE Leave(Head(est), "failed") /\ UNCHANGED <<session, announced>>
  <2>1. GoodSessions' /\ NewIsCurrent
    BY <1>2, SessionsStay DEF NoneIsNew, NewIsCurrent
  <2> QED BY <1>2, <2>1, LeaveKeeps
<1> QED BY <1>1, <1>2 DEF Established

\* A bootstrap opens no local session.
LEMMA RunBootstrapKeeps == ASSUME IInv, ConstantsAreGood, RunBootstrap PROVE IInv'
<1>0. /\ est # <<>> /\ request[Head(est)].kind = "bootstrap"
      /\ UNCHANGED <<now, password, epoch, cred, changing>>
  BY DEF RunBootstrap
<1>1. ASSUME NEW o \in {"refused", "failed"}, Leave(Head(est), o), UNCHANGED <<session, announced>>
      PROVE  IInv'
  <2>1. GoodSessions' /\ NewIsCurrent
    BY <1>1, SessionsStay DEF NoneIsNew, NewIsCurrent
  <2> QED BY <1>0, <1>1, <2>1, LeaveKeeps
<1>2. ASSUME NEW up \in Expiries, Mode # "local", Established(Head(est), up, 0) PROVE IInv'
  <2>1. up \in Nat \cup {NoExpiry}
    BY ExpiryTypes DEF ConstantsAreGood
  <2> QED BY <1>0, <1>2, <2>1, EstablishedKeeps
<1> QED BY <1>1, <1>2 DEF RunBootstrap

\* A login or a setup that the store confirmed opens a session, with the password
\* that was confirmed; another one ends.
LEMMA FinishKeeps == ASSUME IInv, ConstantsAreGood, FinishLogin \/ FinishSetup PROVE IInv'
<1> DEFINE r == Head(est)
<1>0. /\ est # <<>> /\ request[r].kind \in {"login", "setup"} /\ Answered(r)
      /\ UNCHANGED <<now, password, epoch, cred, changing>>
      /\ \/ request[r].verdict = "valid" /\ Established(r, NoExpiry, request[r].epoch)
         \/ request[r].verdict # "valid" /\ Leave(r, "failed") /\ UNCHANGED <<session, announced>>
  BY DEF FinishLogin, FinishSetup
<1>1. r \in Requests /\ r \in Pending
  BY <1>0, HeadOfEst
<1>2. CASE request[r].verdict = "valid" /\ Established(r, NoExpiry, request[r].epoch)
  <2>1. request[r].epoch = epoch /\ epoch \in Nat
    BY <1>0, <1>1, Apart DEF AnswersAreCurrent
  <2>2. password # NoPassword
    <3>1. request[r].kind = "setup" => r \in Enrolled
      BY <1>1, <1>2 DEF Enrolled
    <3> QED BY <3>1, <1>0, <1>1, Apart DEF EnrolmentComesFirst
  <2> QED BY <2>1, <2>2, <1>0, <1>2, EstablishedKeeps
<1>3. CASE Leave(r, "failed") /\ UNCHANGED <<session, announced>>
  <2>1. GoodSessions' /\ NewIsCurrent
    BY <1>3, SessionsStay DEF NoneIsNew, NewIsCurrent
  <2> QED BY <1>0, <1>3, <2>1, LeaveKeeps
<1> QED BY <1>0, <1>2, <1>3

\* A setup whose turn has come asks the store to enrol.
LEMMA BeginSetupKeeps == ASSUME IInv, BeginSetup PROVE IInv'
<1>10. est # <<>>
  BY DEF BeginSetup
<1>11. PICK r \in Requests : r = Head(est)
  BY <1>10, HeadOfEst
<1>0. /\ request[r].kind = "setup" /\ request[r].at = "queued"
      /\ Enqueue(r, "enrolling")
      /\ UNCHANGED <<now, session, announced, password, epoch, est, changing>>
  BY <1>11 DEF BeginSetup
<1>1. /\ r \in Requests /\ r \in Pending /\ ~Changes(r) /\ In(est, r) /\ r = est[1]
      /\ request[r].given \in Passwords
  BY <1>10, <1>11, <1>0, HeadOfEst
<1>2. ~In(cred, r) /\ ~Answered(r)
  BY <1>0, <1>1, Apart DEF Queues, PlaceTellsState, WellPlaced
<1>3. /\ Only(r) /\ request'[r].at = "enrolling" /\ cred' = Append(cred, r)
      /\ request'[r].kind = "setup" /\ request'[r].given = request[r].given
      /\ request'[r].verdict = "none" /\ request'[r].outcome = request[r].outcome
  BY <1>0, <1>1, <1>2, Apart, EnqueueFacts DEF Answered
<1>4. PlaceTellsState' /\ ChainsAgree'
  BY <1>0, <1>1, <1>2, <1>3, Apart, JoinsCred
<1>5. GoodSessions' /\ NewIsCurrent
  BY <1>0, SessionsStay DEF NoneIsNew, NewIsCurrent
<1>6. ~(Answered(r)')
  BY <1>3 DEF Answered
<1>7. request'[r].outcome = "established" => r \in Enrolled
  BY <1>0, <1>1, <1>3 DEF Enrolled
<1>8. Credentials'
  BY <1>0, <1>1, <1>3, <1>5, <1>6, <1>7, EstablishmentMoves
<1>9. cred' \in Seq(Requests)
  BY <1>1, <1>3, Apart, ChainGrows
<1> QED BY <1>0, <1>3, <1>4, <1>5, <1>8, <1>9, Apart, Assembled DEF Only


-----------------------------------------------------------------------------
(***************************************************************************)
(* Password changes.                                                       *)
(***************************************************************************)
\* A change begins only when no other runs, with a session and thus a password, and
\* so after every setup.
LEMMA ChangePasswordKeeps ==
    ASSUME IInv, NEW r \in Requests, NEW id \in Ids, NEW p \in Passwords, NEW n \in Passwords,
           ChangePassword(r, id, p, n)
    PROVE  IInv'
<1>0. /\ request[r].at = "new" /\ Quiet /\ Mode = "local"
      /\ UNCHANGED <<now, password, epoch, est>>
  BY DEF ChangePassword
<1> DEFINE asked == [NoRequest EXCEPT !.kind = "change", !.given = p, !.next = n, !.id = id]
           q == [asked EXCEPT !.at = "verifying"]
           d == [asked EXCEPT !.at = "done", !.outcome = "refused"]
<1>1. CASE /\ MayChange /\ Found(id) /\ Submit(r, q) /\ cred' = Append(cred, r)
           /\ changing' = TRUE /\ UNCHANGED <<session, announced>>
  <2>1. q \in RequestRecord /\ q.kind = "change" /\ q.at = "verifying" /\ q.verdict = "none"
        /\ q.next \in Passwords
    BY DEF NoRequest, RequestRecord
  <2> HIDE DEF q
  <2>2. Only(r) /\ request'[r] = q
    BY <2>1, <1>1, Apart, SubmitFacts
  <2>3. ~In(est, r) /\ ~In(cred, r) /\ ~Answered(r) /\ ~Changes(r) /\ r \notin Pending
    BY <1>0, NewIsNowhere
  <2>4. PlaceTellsState' /\ ChainsAgree'
    BY <2>1, <2>2, <2>3, <1>0, <1>1, Apart, JoinsCred
  <2>5. GoodSessions' /\ NoneIsNew
    BY <1>1, SessionsStay
  <2>6. password # NoPassword
    BY <1>0, <1>1, Apart DEF Found, EnrolmentComesFirst
  <2>7. \A o \in Pending : request[o].kind # "setup"
    BY <1>0, <2>6, Apart, QuietHasNoSetup
  <2>8. \A o \in Requests : o # r => request'[o] = request[o]
    BY <2>2 DEF Only
  <2>9. \A o \in Requests : ~Changes(o)
    BY <1>1, Apart DEF MayChange, OneChange
  <2>10. OneChange'
    BY <2>8, <2>9, <1>1 DEF OneChange, Changes
  <2>11. SetupsAreAlone'
    BY <2>1, <2>2, <2>7, <2>8 DEF SetupsAreAlone, Pending
  <2>12. EnrolmentComesFirst'
    <3>1. Enrolled' \subseteq Enrolled
      BY <2>1, <2>2, <2>8 DEF Enrolled
    <3> QED BY <3>1, <2>6, <1>0, Apart DEF EnrolmentComesFirst
  <2>13. AnswersAreCurrent'
    BY <2>1, <2>2, <2>8, <1>0, Apart DEF AnswersAreCurrent, Answered
  <2>14. SessionsAreCurrent'
    BY <2>5, <2>8, <2>9, <1>0, Apart DEF SessionsAreCurrent, NoneIsNew, Present, Changes
  <2>15. Credentials'
    BY <2>10, <2>11, <2>12, <2>13, <2>14 DEF Credentials
  <2>16. cred' \in Seq(Requests)
    BY <1>1, Apart, ChainGrows
  <2> QED BY <2>2, <2>4, <2>5, <2>15, <2>16, <1>0, <1>1, Apart, Assembled DEF Only
<1>2. CASE /\ Submit(r, d)
           /\ IF MayChange THEN Revoke(Lapsed(id)) ELSE UNCHANGED <<session, announced>>
           /\ UNCHANGED <<cred, changing>>
  <2>1. d \in RequestRecord /\ d.kind = "change" /\ d.at = "done" /\ d.verdict = "none"
        /\ d.outcome = "refused"
    BY DEF NoRequest, RequestRecord
  <2> HIDE DEF d
  <2>2. Lapsed(id) \in SUBSET Present
    BY DEF Lapsed
  <2>3. GoodSessions' /\ NoneIsNew
    BY <1>2, <2>2, Apart, SessionsStay, RevokeKeeps
  <2> QED BY <2>1, <2>3, <1>0, <1>2, RefusedKeeps
<1> QED BY <1>1, <1>2 DEF ChangePassword

\* A change ends, successful or not: no other may have begun meanwhile.
LEMMA ChangeEnds ==
    ASSUME IInv, NEW r \in Requests, NEW outcome \in {"failed", "changed"},
           Changes(r), Answered(r), Settle(r, outcome), changing' = FALSE,
           GoodSessions', NoneIsNew, UNCHANGED <<now, password, epoch, est, cred>>,
           Mode = "local" => \A a \in DOMAIN session' : session'[a].epoch = epoch
    PROVE  IInv'
<1>1. /\ Only(r) /\ request'[r].at = "done" /\ request'[r].verdict = "none"
      /\ request'[r].outcome = outcome
      /\ request'[r].kind = request[r].kind /\ request'[r].given = request[r].given
  BY Apart, SettleFacts
<1>2. ~In(est, r) /\ ~In(cred, r) /\ request[r].kind = "change" /\ r \notin Pending
  BY Apart DEF Queues, PlaceTellsState, WellPlaced, Changes, Pending
<1>3. PlaceTellsState' /\ ChainsAgree'
  BY <1>1, <1>2, Apart, ApartMoves
<1>4. \A o \in Requests : o # r => request'[o] = request[o]
  BY <1>1 DEF Only
<1>5. \A o \in Requests : o # r => ~Changes(o)
  BY Apart DEF OneChange
<1>6. OneChange'
  BY <1>1, <1>4, <1>5 DEF OneChange, Changes
<1>7. SetupsAreAlone'
  BY <1>1, <1>2, <1>4, Apart DEF SetupsAreAlone, Pending
<1>8. EnrolmentComesFirst'
  <2>1. Enrolled' \subseteq Enrolled
    BY <1>1, <1>2, <1>4 DEF Enrolled
  <2>2. Pending' \subseteq Pending
    BY <1>1, <1>4 DEF Pending
  <2>3. \A o \in Pending' : request'[o].kind = request[o].kind
    BY <1>1, <1>4 DEF Pending
  <2>4. Present' \subseteq Present
    BY DEF NoneIsNew, Present
  <2> QED BY <2>1, <2>2, <2>3, <2>4, Apart DEF EnrolmentComesFirst
<1>9. AnswersAreCurrent'
  BY <1>1, <1>4, Apart DEF AnswersAreCurrent, Answered
<1>10. SessionsAreCurrent'
  BY DEF SessionsAreCurrent, Present
<1>11. Credentials'
  BY <1>6, <1>7, <1>8, <1>9, <1>10 DEF Credentials
<1> QED BY <1>1, <1>3, <1>11, Apart, Assembled DEF Only

\* The old password was confirmed or not: the change asks for the replacement, or
\* ends.
LEMMA VerifiedChangeKeeps == ASSUME IInv, NEW r \in Requests, VerifiedChange(r) PROVE IInv'
<1>0. /\ request[r].at = "verifying" /\ Answered(r) /\ Changes(r)
      /\ UNCHANGED <<now, password, epoch, est>>
  BY DEF VerifiedChange, Changes
<1>1. ~In(est, r) /\ ~In(cred, r) /\ request[r].kind = "change" /\ request[r].next \in Passwords
      /\ r \notin Pending
  BY <1>0, Apart DEF Queues, PlaceTellsState, WellPlaced, Pending
<1>2. \A o \in Requests : Changes(o) => o = r
  BY <1>0, Apart DEF OneChange
<1>3. Mode = "local" => \A a \in Present : session[a].epoch = epoch
  BY <1>0, <1>2, Apart DEF SessionsAreCurrent, Changes
<1>4. CASE /\ request[r].verdict = "valid" /\ cred' = Append(cred, r)
           /\ request' = [request EXCEPT ![r].at = "replacing", ![r].verdict = "none"]
           /\ UNCHANGED <<session, announced, changing>>
  <2> DEFINE q == [request[r] EXCEPT !.at = "replacing", !.verdict = "none"]
  <2>0. request[r] \in RequestRecord /\ request \in [Requests -> RequestRecord]
    BY Apart
  <2>1. q \in RequestRecord /\ q.at = "replacing" /\ q.verdict = "none" /\ q.kind = "change"
        /\ q.next \in Passwords /\ q.given = request[r].given
    BY <2>0, <1>1 DEF RequestRecord
  <2>2. request' = [request EXCEPT ![r] = q]
    BY <2>0, <1>4 DEF RequestRecord
  <2> HIDE DEF q
  <2>3. Only(r) /\ request'[r] = q
    BY <2>0, <2>1, <2>2 DEF Only
  <2>4. PlaceTellsState' /\ ChainsAgree'
    BY <2>1, <2>3, <1>0, <1>1, <1>4, Apart, JoinsCred
  <2>5. GoodSessions' /\ NoneIsNew
    BY <1>4, SessionsStay
  <2>6. \A o \in Requests : o # r => request'[o] = request[o]
    BY <2>3 DEF Only
  <2>7. changing
    BY <1>0, Apart DEF OneChange
  <2>8. OneChange'
    BY <2>6, <2>7, <1>2, <1>4 DEF OneChange, Changes
  <2>9. SetupsAreAlone'
    BY <2>1, <2>3, <2>6, <1>4, Apart DEF SetupsAreAlone, Pending
  <2>10. EnrolmentComesFirst'
    <3>1. Enrolled' \subseteq Enrolled
      BY <2>1, <2>3, <2>6 DEF Enrolled
    <3> QED BY <3>1, <2>7, <1>0, Apart DEF EnrolmentComesFirst
  <2>11. AnswersAreCurrent'
    BY <2>1, <2>3, <2>6, <1>0, <1>4, Apart DEF AnswersAreCurrent, Answered
  <2>12. SessionsAreCurrent'
    BY <2>5, <1>0, <1>3 DEF SessionsAreCurrent, NoneIsNew, Present
  <2>13. Credentials'
    BY <2>8, <2>9, <2>10, <2>11, <2>12 DEF Credentials
  <2>14. cred' \in Seq(Requests)
    BY <1>4, Apart, ChainGrows
  <2> QED BY <2>3, <2>4, <2>5, <2>13, <2>14, <1>0, <1>4, Apart, Assembled DEF Only
<1>5. CASE /\ Settle(r, "failed") /\ changing' = FALSE /\ UNCHANGED cred
           /\ Revoke(Lapsed(request[r].id)) \/ UNCHANGED <<session, announced>>
  <2>1. Lapsed(request[r].id) \in SUBSET Present
    BY DEF Lapsed
  <2>2. GoodSessions' /\ NoneIsNew
    BY <1>5, <2>1, Apart, SessionsStay, RevokeKeeps
  <2>3. Mode = "local" => \A a \in DOMAIN session' : session'[a].epoch = epoch
    BY <2>2, <1>3 DEF NoneIsNew
  <2> QED BY <2>2, <2>3, <1>0, <1>5, ChangeEnds
<1> QED BY <1>4, <1>5 DEF VerifiedChange

\* The password was replaced: every session ends.  Or it was not.
LEMMA ReplacedPasswordKeeps == ASSUME IInv, NEW r \in Requests, ReplacedPassword(r) PROVE IInv'
<1>0. /\ request[r].at = "replacing" /\ Answered(r) /\ Changes(r) /\ changing' = FALSE
      /\ UNCHANGED <<now, password, epoch, est, cred>>
  BY DEF ReplacedPassword, Changes
<1>1. CASE Revoke(Present) /\ Settle(r, "changed")
  <2>1. GoodSessions' /\ NoneIsNew /\ DOMAIN session' = {}
    BY <1>1, Apart, RevokeKeeps
  <2> QED BY <2>1, <1>0, <1>1, ChangeEnds
<1>2. CASE request[r].verdict # "valid" /\ Settle(r, "failed") /\ UNCHANGED <<session, announced>>
  <2>1. GoodSessions' /\ NoneIsNew
    BY <1>2, SessionsStay
  <2>2. \A o \in Requests : Changes(o) => o = r
    BY <1>0, Apart DEF OneChange
  <2>3. Mode = "local" => \A a \in Present : session[a].epoch = epoch
    BY <1>2, <2>2, Apart DEF SessionsAreCurrent, Changes
  <2>4. Mode = "local" => \A a \in DOMAIN session' : session'[a].epoch = epoch
    BY <2>1, <2>3 DEF NoneIsNew
  <2> QED BY <2>1, <2>4, <1>0, <1>2, ChangeEnds
<1> QED BY <1>1, <1>2 DEF ReplacedPassword, RevokedBy


-----------------------------------------------------------------------------
(***************************************************************************)
(* The credential store.                                                   *)
(***************************************************************************)
\* The head of the credential chain waits for an answer.
LEMMA HeadOfCred ==
    ASSUME IInv, cred # <<>>
    PROVE  /\ Head(cred) \in Requests /\ WellPlaced(Head(cred)) /\ ~Answered(Head(cred))
           /\ Tail(cred) \in Seq(Requests)
           /\ request[Head(cred)].at = "queued" => request[Head(cred)].kind = "login"
<1>1. cred \in Seq(Requests) /\ Distinct(cred)
  BY Apart DEF Queues, PlaceTellsState
<1>2. In(cred, Head(cred)) /\ Head(cred) \in Requests /\ Tail(cred) \in Seq(Requests)
  BY <1>1, InShrunk, ChainShrinks
<1>3. WellPlaced(Head(cred))
  BY <1>2, Apart DEF Queues, PlaceTellsState
<1> QED BY <1>2, <1>3 DEF WellPlaced

\* An answer that leaves the password as it is.
LEMMA AnswerKeeps ==
    ASSUME IInv, cred # <<>>, NEW v \in {"valid", "invalid", "failed"}, Answer(Head(cred), v),
           v = "valid" => /\ request[Head(cred)].at \in {"queued", "verifying"}
                          /\ request[Head(cred)].given = password,
           UNCHANGED <<now, session, announced, password, epoch, est, changing>>
    PROVE  IInv'
<1>0. PICK r \in Requests : r = Head(cred)
  BY HeadOfCred
<1>1. /\ ~Answered(r) /\ WellPlaced(r) /\ Tail(cred) \in Seq(Requests)
      /\ request[r].at = "queued" => request[r].kind = "login"
  BY <1>0, HeadOfCred
<1>2. /\ Only(r) /\ request'[r].verdict = v /\ cred' = Tail(cred)
      /\ request'[r].epoch = epoch' /\ request'[r].at = request[r].at
      /\ request'[r].kind = request[r].kind /\ request'[r].given = request[r].given
      /\ request'[r].next = request[r].next /\ request'[r].outcome = request[r].outcome
  BY <1>0, Apart, AnswerFacts
<1>3. PlaceTellsState' /\ ChainsAgree'
  BY <1>0, <1>2, Apart, GetsAnswer
<1>4. GoodSessions' /\ NoneIsNew
  BY SessionsStay
<1>5. \A o \in Requests : /\ o # r => request'[o] = request[o]
                          /\ request'[o].at = request[o].at /\ request'[o].kind = request[o].kind
                          /\ request'[o].outcome = request[o].outcome
  BY <1>2 DEF Only
<1>6. OneChange'
  BY <1>5, Apart DEF OneChange, Changes
<1>7. Pending' = Pending
  BY <1>5 DEF Pending
<1>8. SetupsAreAlone'
  BY <1>5, <1>7, Apart DEF SetupsAreAlone, Pending
<1>9. EnrolmentComesFirst'
  <2>1. Enrolled' \subseteq Enrolled
    <3> SUFFICES ASSUME NEW o \in Enrolled' PROVE o \in Enrolled
      OBVIOUS
    <3>1. /\ o \in Requests /\ request'[o].kind = "setup"
          /\ request'[o].outcome = "established" \/ request'[o].verdict = "valid"
      BY DEF Enrolled
    <3>2. CASE o # r
      BY <3>1, <3>2, <1>5 DEF Enrolled
    <3>3. CASE o = r /\ v = "valid"
      BY <3>1, <3>3, <1>0, <1>1, <1>2 DEF WellPlaced
    <3>4. CASE o = r /\ v # "valid"
      BY <3>1, <3>4, <1>2 DEF Enrolled
    <3> QED BY <3>2, <3>3, <3>4
  <2> QED BY <2>1, <1>5, <1>7, Apart DEF EnrolmentComesFirst, Pending, Present
<1>10. AnswersAreCurrent'
  <2> SUFFICES ASSUME NEW o \in Requests
               PROVE  /\ Answered(o)' => request'[o].epoch = epoch
                      /\ request'[o].at = "verifying" /\ request'[o].verdict = "valid" =>
                            request'[o].given = password
                      /\ request'[o].at = "replacing" /\ ~(Answered(o)') => request'[o].given = password
    BY DEF AnswersAreCurrent
  <2>1. CASE o # r
    BY <2>1, <1>5, Apart DEF AnswersAreCurrent, Answered
  <2>2. CASE o = r
    BY <2>2, <1>0, <1>2 DEF Answered
  <2> QED BY <2>1, <2>2
<1>11. SessionsAreCurrent'
  <2>1. \A o \in Requests : request[o].at = "replacing" /\ request[o].verdict = "valid" =>
           request'[o].at = "replacing" /\ request'[o].verdict = "valid"
    BY <1>1, <1>5 DEF Answered
  <2> QED BY <2>1, Apart DEF SessionsAreCurrent, Present
<1>12. Credentials'
  BY <1>6, <1>8, <1>9, <1>10, <1>11 DEF Credentials
<1> QED BY <1>1, <1>2, <1>3, <1>4, <1>12, Apart, Assembled DEF Only

\* verify tells whether the password of now was given.
LEMMA VerifyKeeps == ASSUME IInv, Verify PROVE IInv'
<1>0. /\ cred # <<>> /\ request[Head(cred)].at \in {"queued", "verifying"}
      /\ UNCHANGED <<now, session, announced, password, epoch, est, changing>>
  BY DEF Verify
<1>1. CASE Answer(Head(cred), "valid") /\ request[Head(cred)].given = password
  BY <1>0, <1>1, AnswerKeeps
<1>2. CASE Answer(Head(cred), "invalid") \/ Answer(Head(cred), "failed")
  BY <1>0, <1>2, AnswerKeeps
<1> QED BY <1>1, <1>2 DEF Verify

\* The password changes when the event loop is quiet: no verdict about the password
\* before it is left, and either no session is, or the change that asked for it will
\* end them.
LEMMA PasswordSet ==
    ASSUME IInv, NoneAssumption, Quiet, cred # <<>>, Answer(Head(cred), "valid"),
           password' \in Passwords, epoch' = epoch + 1,
           \/ request[Head(cred)].at = "replacing"
           \/ request[Head(cred)].at = "enrolling" /\ password = NoPassword,
           UNCHANGED <<now, session, announced, est, changing>>
    PROVE  IInv'
<1>0. PICK r \in Requests : r = Head(cred)
  BY HeadOfCred
<1>1. ~Answered(r) /\ WellPlaced(r) /\ Tail(cred) \in Seq(Requests)
  BY <1>0, HeadOfCred
<1>2. /\ Only(r) /\ request'[r].verdict = "valid" /\ cred' = Tail(cred)
      /\ request'[r].epoch = epoch' /\ request'[r].at = request[r].at
      /\ request'[r].kind = request[r].kind /\ request'[r].given = request[r].given
      /\ request'[r].next = request[r].next /\ request'[r].outcome = request[r].outcome
      /\ epoch' \in Nat
  BY <1>0, Apart, AnswerFacts
<1>3. PlaceTellsState' /\ ChainsAgree'
  BY <1>0, <1>2, Apart, GetsAnswer
<1>4. GoodSessions' /\ NoneIsNew
  BY SessionsStay
<1>5. \A o \in Requests : /\ o # r => request'[o] = request[o]
                          /\ request'[o].at = request[o].at /\ request'[o].kind = request[o].kind
                          /\ request'[o].outcome = request[o].outcome
  BY <1>2 DEF Only
<1>6. OneChange'
  BY <1>5, Apart DEF OneChange, Changes
<1>7. Pending' = Pending
  BY <1>5 DEF Pending
<1>8. SetupsAreAlone'
  BY <1>5, <1>7, Apart DEF SetupsAreAlone, Pending
<1>9. \A o \in Requests : ~Answered(o)
  BY Apart, QuietHasNoVerdict
<1>10. \A o \in Requests : Changes(o) => o = r
  <2>1. CASE request[r].at = "replacing"
    BY <2>1, Apart DEF OneChange, Changes
  <2>2. CASE password = NoPassword
    BY <2>2, Apart DEF OneChange, EnrolmentComesFirst
  <2> QED BY <2>1, <2>2, <1>0
<1>11. EnrolmentComesFirst'
  <2>1. password' # NoPassword
    BY DEF NoneAssumption
  <2>2. ASSUME NEW s \in Enrolled', NEW o \in Enrolled' PROVE s = o
    <3>1. CASE request[r].at = "replacing"
      <4>1. Enrolled' \subseteq Enrolled
        BY <3>1, <1>1, <1>2, <1>5 DEF Enrolled, WellPlaced
      <4> QED BY <4>1, <2>2, Apart DEF EnrolmentComesFirst
    <3>2. CASE password = NoPassword
      <4>1. Enrolled = {}
        BY <3>2, Apart DEF EnrolmentComesFirst
      <4>2. Enrolled' \subseteq {r}
        BY <4>1, <1>5 DEF Enrolled
      <4> QED BY <4>2, <2>2
    <3> QED BY <3>1, <3>2, <1>0
  <2> QED BY <2>1, <2>2 DEF EnrolmentComesFirst
<1>12. AnswersAreCurrent'
  BY <1>0, <1>2, <1>5, <1>9, <1>10 DEF AnswersAreCurrent, Answered, Changes
<1>13. SessionsAreCurrent'
  <2>1. CASE request[r].at = "replacing"
    BY <2>1, <1>2 DEF SessionsAreCurrent
  <2>2. CASE password = NoPassword
    BY <2>2, Apart DEF SessionsAreCurrent, EnrolmentComesFirst, Present
  <2> QED BY <2>1, <2>2, <1>0
<1>14. Credentials'
  BY <1>6, <1>8, <1>11, <1>12, <1>13 DEF Credentials
<1> QED BY <1>1, <1>2, <1>3, <1>4, <1>14, Apart, Assembled DEF Only

\* enroll sets the first password, once.
LEMMA EnrollKeeps == ASSUME IInv, NoneAssumption, Enroll PROVE IInv'
<1>0. /\ cred # <<>> /\ request[Head(cred)].at = "enrolling"
      /\ UNCHANGED <<now, session, announced, est, changing>>
  BY DEF Enroll
<1>1. CASE /\ MayEnroll /\ Quiet /\ password' = request[Head(cred)].given /\ epoch' = epoch + 1
           /\ Answer(Head(cred), "valid")
  <2>1. request[Head(cred)].given \in Passwords
    BY <1>0, HeadOfCred DEF WellPlaced
  <2> QED BY <2>1, <1>0, <1>1, PasswordSet DEF MayEnroll
<1>2. ASSUME NEW v \in {"invalid", "failed"}, UNCHANGED <<password, epoch>>, Answer(Head(cred), v)
      PROVE  IInv'
  BY <1>0, <1>2, AnswerKeeps
<1> QED BY <1>1, <1>2 DEF Enroll

\* replacePassword sets the next one.
LEMMA ReplaceKeeps == ASSUME IInv, NoneAssumption, Replace PROVE IInv'
<1>0. /\ cred # <<>> /\ request[Head(cred)].at = "replacing" /\ Quiet
      /\ UNCHANGED <<now, session, announced, est, changing>>
  BY DEF Replace
<1>1. CASE password' = request[Head(cred)].next /\ epoch' = epoch + 1 /\ Answer(Head(cred), "valid")
  <2>1. request[Head(cred)].next \in Passwords
    BY <1>0, HeadOfCred DEF WellPlaced
  <2> QED BY <2>1, <1>0, <1>1, PasswordSet
<1>2. CASE UNCHANGED <<password, epoch>> /\ Answer(Head(cred), "failed")
  BY <1>0, <1>2, AnswerKeeps
<1> QED BY <1>1, <1>2 DEF Replace


-----------------------------------------------------------------------------
(***************************************************************************)
(* The theorems.                                                           *)
(***************************************************************************)
\* A session that is used, ends or is found expired, and the clock.
LEMMA UseStepKeeps ==
    ASSUME IInv, ConstantsAreGood, SweepExpired \/ Tick \/ \E id \in Ids : Use(id)
    PROVE  IInv'
<1>1. ASSUME NEW S \in SUBSET Present, Revoke(S),
             UNCHANGED <<now, password, epoch, est, cred, request, changing>>
      PROVE  IInv'
  <2>1. GoodSessions' /\ NoneIsNew
    BY <1>1, Apart, RevokeKeeps
  <2> QED BY <2>1, <1>1, Apart, SessionsAlone, Assembled
<1>2. CASE SweepExpired
  BY <1>1, <1>2 DEF SweepExpired
<1>3. CASE Tick
  <2>1. /\ now' = now + 1
        /\ UNCHANGED <<session, announced, password, epoch, est, cred, request, changing>>
    BY <1>3 DEF Tick
  <2>2. GoodSessions' /\ NoneIsNew
    BY <2>1, SessionsStay
  <2> QED BY <2>1, <2>2, Apart, SessionsAlone, Assembled
<1>4. ASSUME NEW id \in Ids, Use(id) PROVE IInv'
  <2>1. CASE FindExpired(id)
    <3>1. Lapsed(id) \in SUBSET Present
      BY DEF Lapsed
    <3> QED BY <2>1, <3>1, <1>1 DEF FindExpired
  <2>2. CASE Logout(id)
    <3>1. {id} \in SUBSET Present
      BY <2>2 DEF Logout
    <3> QED BY <2>2, <3>1, <1>1 DEF Logout
  <2>3. CASE Uses(id)
    <3>1. GoodSessions' /\ NoneIsNew
          /\ UNCHANGED <<now, announced, password, epoch, est, cred, request, changing>>
      BY <2>3, Apart, UseKeeps DEF ConstantsAreGood
    <3> QED BY <3>1, Apart, SessionsAlone, Assembled
  <2> QED BY <1>4, <2>1, <2>2, <2>3 DEF Use, Uses
<1> QED BY <1>2, <1>3, <1>4

\* Nothing has happened yet when the service starts.
LEMMA InitHolds == Init => IInv
<1> SUFFICES ASSUME Init PROVE IInv
  OBVIOUS
<1>1. request = [r \in Requests |-> NoRequest] /\ est = <<>> /\ cred = <<>> /\ Present = {}
  BY DEF Init, Present
<1>2. NoRequest \in RequestRecord /\ NoRequest.at = "new" /\ NoRequest.verdict = "none"
      /\ NoRequest.kind = "none" /\ NoRequest.outcome = "none"
  BY DEF NoRequest, RequestRecord
<1>3. TypeOK
  <2>1. IsFiniteSet({})
    BY FS_EmptySet
  <2>2. est \in Seq(Requests) /\ cred \in Seq(Requests)
    BY <1>1
  <2>3. request \in [Requests -> RequestRecord]
    BY <1>1, <1>2
  <2> QED BY <1>1, <2>1, <2>2, <2>3 DEF Init, TypeOK
<1>4. PlaceTellsState
  BY <1>1, <1>2 DEF PlaceTellsState, Distinct, In, Answered, WellPlaced
<1>5. ChainsAgree /\ TimesAreKept /\ SessionsAreCurrent
  BY <1>1 DEF ChainsAgree, TimesAreKept, SessionsAreCurrent
<1>6. OneChange /\ EnrolmentComesFirst /\ AnswersAreCurrent /\ SetupsAreAlone
  BY <1>1, <1>2
     DEF Init, OneChange, EnrolmentComesFirst, AnswersAreCurrent, Changes, Enrolled, Answered,
         SetupsAreAlone, Pending
<1> QED BY <1>3, <1>4, <1>5, <1>6 DEF IInv

\* Every step of the service keeps the invariant.
LEMMA StepHolds == ASSUME ConstantsAreGood, IInv, [Next]_vars PROVE IInv'
<1>1. CASE Continue
  BY <1>1, RunBootstrapKeeps, FinishKeeps, BeginSetupKeeps, VerifiedChangeKeeps,
     ReplacedPasswordKeeps DEF Continue
<1>2. CASE Complete
  BY <1>2, VerifyKeeps, EnrollKeeps, ReplaceKeeps DEF Complete, ConstantsAreGood
<1>3. ASSUME NEW r \in Requests, Call(r) PROVE IInv'
  BY <1>3, BootstrapKeeps, LoginKeeps, SetupKeeps, ChangePasswordKeeps DEF Call
<1>4. CASE SweepExpired \/ Tick \/ \E id \in Ids : Use(id)
  BY <1>4, UseStepKeeps
<1>5. CASE UNCHANGED vars
  <2>1. UNCHANGED <<now, session, announced, password, epoch, est, cred, request, changing>>
    BY <1>5 DEF vars
  <2>2. GoodSessions' /\ NoneIsNew
    BY <2>1, SessionsStay
  <2> QED BY <2>1, <2>2, Apart, SessionsAlone, Assembled
<1> QED BY <1>1, <1>2, <1>3, <1>4, <1>5 DEF Next

\* The inductive invariant of the service holds in every reachable state, for any
\* number of requests, identifiers, passwords and any mode.
THEOREM ServiceIsSound == ASSUME ConstantsAreGood PROVE Spec => []IInv
<1>1. IInv /\ [Next]_vars => IInv'
  BY StepHolds
<1> QED BY <1>1, InitHolds, PTL DEF Spec

\* No session of a password before the present one is open when the event loop is
\* quiet, the sessions of logins that were being verified while the password was
\* replaced included.
THEOREM OldPasswordNeverHasSession ==
    ASSUME ConstantsAreGood PROVE Spec => []OldPasswordHasNoSession
<1>1. IInv => OldPasswordHasNoSession
  <2> SUFFICES ASSUME IInv, Quiet, Mode = "local" PROVE \A a \in Present : session[a].epoch = epoch
    BY DEF OldPasswordHasNoSession
  <2>1. \A r \in Requests : request[r].verdict # "valid"
    BY Apart, QuietHasNoVerdict DEF Answered
  <2> QED BY <2>1, Apart DEF SessionsAreCurrent
<1> QED BY <1>1, ServiceIsSound, PTL

\* Of any number of first-run setups that wait together one alone gets a session.
THEOREM OneSetupEnrols == ASSUME ConstantsAreGood PROVE Spec => []OneEnrolment
<1>1. IInv => OneEnrolment
  <2> SUFFICES ASSUME IInv PROVE OneEnrolment
    OBVIOUS
  <2> DEFINE S == {r \in Requests : request[r].kind = "setup" /\ request[r].outcome = "established"}
  <2>1. \A r, o \in S : r = o
    BY Apart DEF EnrolmentComesFirst, Enrolled
  <2> HIDE DEF S
  <2>2. Cardinality(S) <= 1
    <3>1. CASE S = {}
      <4>1. Cardinality({}) = 0
        BY FS_EmptySet
      <4> QED BY <3>1, <4>1
    <3>2. ASSUME NEW r \in S PROVE Cardinality(S) <= 1
      <4>1. S = {r}
        BY <2>1, <3>2
      <4>2. Cardinality({r}) = 1
        BY FS_Singleton
      <4> QED BY <4>1, <4>2
    <3> QED BY <3>1, <3>2
  <2> QED BY <2>2 DEF OneEnrolment, S
<1> QED BY <1>1, ServiceIsSound, PTL


\* How the sessions of the service change in one step: not at all, or some end, or
\* one is used, or one is opened.
LEMMA SessionSteps ==
    ASSUME ConstantsAreGood, IInv, Next
    PROVE  \/ UNCHANGED <<session, announced>>
           \/ \E S \in SUBSET Present : Revoke(S)
           \/ \E id \in Ids : Uses(id)
           \/ \E up \in Nat \cup {NoExpiry}, e \in Nat : Establish(up, e)
<1> DEFINE Goal == \/ UNCHANGED <<session, announced>>
                   \/ \E S \in SUBSET Present : Revoke(S)
                   \/ \E id \in Ids : Uses(id)
                   \/ \E up \in Nat \cup {NoExpiry}, e \in Nat : Establish(up, e)
<1>0. \A id : Lapsed(id) \in SUBSET Present
  BY DEF Lapsed
<1>1. ASSUME NEW r \in Requests, NEW up \in Nat \cup {NoExpiry}, NEW e \in Nat, Established(r, up, e)
      PROVE  Goal
  BY <1>1 DEF Established
<1>2. ASSUME RunBootstrap PROVE Goal
  <2>1. est # <<>>
    BY <1>2 DEF RunBootstrap
  <2>2. Head(est) \in Requests
    BY <2>1, HeadOfEst
  <2>3. ASSUME NEW up \in Expiries, Established(Head(est), up, 0) PROVE Goal
    <3>1. up \in Nat \cup {NoExpiry}
      BY ExpiryTypes DEF ConstantsAreGood
    <3> QED BY <3>1, <2>2, <2>3, <1>1
  <2> QED BY <1>2, <2>3 DEF RunBootstrap
<1>3. ASSUME FinishLogin \/ FinishSetup PROVE Goal
  <2>1. est # <<>>
    BY <1>3 DEF FinishLogin, FinishSetup
  <2>2. Head(est) \in Requests
    BY <2>1, HeadOfEst
  <2>3. request[Head(est)].epoch \in Nat
    BY <2>2, Apart DEF RequestRecord
  <2> QED BY <1>1, <1>3, <2>2, <2>3 DEF FinishLogin, FinishSetup
<1>4. ASSUME BeginSetup \/ Complete \/ Tick PROVE Goal
  BY <1>4 DEF BeginSetup, Complete, Verify, Enroll, Replace, Tick
<1>5. ASSUME NEW r \in Requests, VerifiedChange(r) \/ ReplacedPassword(r) \/ Call(r) PROVE Goal
  <2>1. CASE VerifiedChange(r)
    BY <2>1, <1>0 DEF VerifiedChange
  <2>2. CASE ReplacedPassword(r)
    BY <2>2 DEF ReplacedPassword, RevokedBy
  <2>3. CASE Call(r)
    BY <2>3, <1>0 DEF Call, Bootstrap, Login, Setup, ChangePassword
  <2> QED BY <2>1, <2>2, <2>3, <1>5
<1>6. ASSUME NEW id \in Ids, Use(id) PROVE Goal
  BY <1>0, <1>6 DEF Use, Uses, FindExpired, Logout
<1>7. ASSUME SweepExpired PROVE Goal
  BY <1>7 DEF SweepExpired
<1> QED BY <1>2, <1>3, <1>4, <1>5, <1>6, <1>7 DEF Next, Continue

\* commitSession makes room for what it adds.
LEMMA CapacityHolds ==
    ASSUME ConstantsAreGood, IInv, WithinCapacity, [Next]_vars
    PROVE  WithinCapacity'
<1>0. IsFiniteSet(Present) /\ Cardinality(Present) \in Nat /\ MaxSessions \in Nat \ {0}
  BY Apart, FS_CardinalityType DEF GoodSessions, ConstantsAreGood, CapacityAssumption
<1>1. ASSUME DOMAIN session' \subseteq Present PROVE WithinCapacity'
  <2>1. Cardinality(DOMAIN session') <= Cardinality(Present) /\ Cardinality(DOMAIN session') \in Nat
    BY <1>0, <1>1, FS_Subset, FS_CardinalityType
  <2> QED BY <2>1, <1>0 DEF WithinCapacity, Present
<1>2. ASSUME NEW up \in Nat \cup {NoExpiry}, NEW e \in Nat, Establish(up, e) PROVE WithinCapacity'
  <2> DEFINE gone == {a \in Present : Expired(session[a])}
             active == Present \ gone
  <2>1. PICK id \in Ids \ (Present \cup announced) :
          \E victim \in IF Crowded(active) THEN {{v} : v \in Oldest(active)} ELSE {{}} :
             session' = [a \in (active \ victim) \cup {id} |->
                            IF a = id THEN NewSession(up, e) ELSE session[a]]
    BY <1>2 DEF Establish
  <2>2. PICK victim \in IF Crowded(active) THEN {{v} : v \in Oldest(active)} ELSE {{}} :
             session' = [a \in (active \ victim) \cup {id} |->
                            IF a = id THEN NewSession(up, e) ELSE session[a]]
    BY <2>1
  <2>3. DOMAIN session' = (active \ victim) \cup {id} /\ active \subseteq Present
    BY <2>2
  <2>4. Oldest(active) \subseteq active
    BY DEF Oldest
  <2> HIDE DEF active
  <2>5. /\ IsFiniteSet(active) /\ Cardinality(active) <= Cardinality(Present)
        /\ Cardinality(active) \in Nat
    BY <2>3, <1>0, FS_Subset, FS_CardinalityType
  <2>6. IsFiniteSet(active \ victim) /\ Cardinality(active \ victim) \in Nat
        /\ Cardinality(active \ victim) < MaxSessions
    <3>1. CASE Crowded(active)
      <4>1. PICK v \in Oldest(active) : victim = {v}
        BY <2>2, <3>1
      <4>2. v \in active
        BY <2>4
      <4>3. /\ IsFiniteSet(active \ {v})
            /\ Cardinality(active \ {v}) = Cardinality(active) - 1
        BY <4>2, <2>5, FS_RemoveElement
      <4>4. Cardinality(active \ {v}) \in Nat
        BY <4>3, FS_CardinalityType
      <4> QED BY <4>1, <4>3, <4>4, <2>5, <1>0 DEF WithinCapacity
    <3>2. CASE ~Crowded(active)
      <4>1. active \ victim = active
        BY <2>2, <3>2
      <4> QED BY <4>1, <3>2, <2>5, <1>0 DEF Crowded
    <3> QED BY <3>1, <3>2
  <2>7. Cardinality((active \ victim) \cup {id}) <= Cardinality(active \ victim) + 1
        /\ Cardinality((active \ victim) \cup {id}) \in Nat
    <3>1. id \notin active \ victim
      BY <2>1, <2>3
    <3>2. Cardinality((active \ victim) \cup {id}) = Cardinality(active \ victim) + 1
      BY <3>1, <2>6, FS_AddElement
    <3> QED BY <3>2, <2>6
  <2> QED BY <2>3, <2>6, <2>7, <1>0 DEF WithinCapacity, Present
<1>3. CASE Next
  <2>1. ASSUME NEW S \in SUBSET Present, Revoke(S) PROVE WithinCapacity'
    BY <2>1, <1>1 DEF Revoke, Without
  <2>2. ASSUME NEW id \in Ids, Uses(id) PROVE WithinCapacity'
    <3>1. DOMAIN session' = Present
      BY <2>2, Apart, UseKeeps DEF ConstantsAreGood
    <3> QED BY <3>1, <1>1
  <2>3. ASSUME UNCHANGED session PROVE WithinCapacity'
    BY <2>3, <1>1 DEF Present
  <2> QED BY <1>2, <1>3, <2>1, <2>2, <2>3, SessionSteps
<1>4. CASE UNCHANGED vars
  BY <1>4, <1>1 DEF vars, Present
<1> QED BY <1>3, <1>4

\* There are never more sessions than the capacity, however many establishments
\* were waiting together.
THEOREM CapacityIsKept == ASSUME ConstantsAreGood PROVE Spec => []WithinCapacity
<1>1. Init => WithinCapacity
  <2>1. Cardinality({}) = 0
    BY FS_EmptySet
  <2> QED BY <2>1 DEF Init, WithinCapacity, Present, ConstantsAreGood, CapacityAssumption
<1>2. IInv /\ WithinCapacity /\ [Next]_vars => WithinCapacity'
  BY CapacityHolds
<1> QED BY <1>1, <1>2, ServiceIsSound, PTL DEF Spec


\* Sessions end, and are used, as they should in every step.
LEMMA SessionStepsAreGood ==
    ASSUME ConstantsAreGood, IInv, Next
    PROVE  EveryEndIsAnnounced /\ LifetimeIsBounded
<1>1. CASE UNCHANGED <<session, announced>>
  BY <1>1 DEF EveryEndIsAnnounced, LifetimeIsBounded, Present
<1>2. ASSUME NEW S \in SUBSET Present, Revoke(S) PROVE EveryEndIsAnnounced /\ LifetimeIsBounded
  <2>1. /\ DOMAIN session' = Present \ S /\ announced' = announced \cup S
        /\ \A a \in DOMAIN session' : session'[a] = session[a]
    BY <1>2, Apart, RevokeKeeps
  <2>2. Present \ DOMAIN session' = S
    BY <2>1
  <2> QED BY <2>1, <2>2 DEF EveryEndIsAnnounced, LifetimeIsBounded
<1>3. ASSUME NEW id \in Ids, Uses(id) PROVE EveryEndIsAnnounced /\ LifetimeIsBounded
  <2>1. LifetimeIsBounded /\ DOMAIN session' = Present /\ UNCHANGED announced
    BY <1>3, Apart, UseKeeps DEF ConstantsAreGood
  <2> QED BY <2>1 DEF EveryEndIsAnnounced
<1>4. ASSUME NEW up \in Nat \cup {NoExpiry}, NEW e \in Nat, Establish(up, e)
      PROVE  EveryEndIsAnnounced /\ LifetimeIsBounded
  <2>1. /\ announced' = announced \cup (Present \ DOMAIN session')
        /\ \A a \in Present \cap DOMAIN session' : session'[a] = session[a]
    BY <1>4, Apart, EstablishKeeps DEF ConstantsAreGood
  <2> QED BY <2>1 DEF EveryEndIsAnnounced, LifetimeIsBounded
<1> QED BY <1>1, <1>2, <1>3, <1>4, SessionSteps

\* A password that is set is changed by replacePassword alone, for a change that
\* was verified against it.
LEMMA ChangesAreVerified ==
    ASSUME ConstantsAreGood, IInv, Next
    PROVE  ChangeReplacesVerified
<1> SUFFICES ASSUME password # NoPassword, password' # password
             PROVE  request[Head(cred)].kind = "change" /\ request[Head(cred)].given = password
  BY DEF ChangeReplacesVerified
<1>1. Complete
  <2>1. ASSUME NEW r \in Requests, Call(r) PROVE FALSE
    BY <2>1 DEF Call, Bootstrap, Login, Setup, ChangePassword
  <2>2. ASSUME Continue PROVE FALSE
    BY <2>2 DEF Continue, RunBootstrap, FinishLogin, FinishSetup, BeginSetup, VerifiedChange,
                ReplacedPassword
  <2>3. ASSUME NEW id \in Ids, Use(id) PROVE FALSE
    BY <2>3 DEF Use, FindExpired, Touch, Resume, Logout, Refresh, Update
  <2>4. ASSUME SweepExpired \/ Tick PROVE FALSE
    BY <2>4 DEF SweepExpired, Tick
  <2> QED BY <2>1, <2>2, <2>3, <2>4 DEF Next
<1>2. cred # <<>> /\ request[Head(cred)].at = "replacing"
  BY <1>1 DEF Complete, Verify, Enroll, Replace, MayEnroll
<1>3. Head(cred) \in Requests /\ WellPlaced(Head(cred)) /\ ~Answered(Head(cred))
  BY <1>2, HeadOfCred
<1> QED BY <1>2, <1>3, Apart DEF WellPlaced, AnswersAreCurrent

\* The safety of auth-service.ts in one: no session of an old password between two
\* continuations, one enrolment, never more sessions than the capacity.
THEOREM ServiceIsAlwaysSafe == ASSUME ConstantsAreGood PROVE Spec => []ServiceIsSafe
<1> QED BY ServiceIsSound, OldPasswordNeverHasSession, OneSetupEnrols, CapacityIsKept, PTL
        DEF ServiceIsSafe

\* A password is replaced only by a change whose caller proved to know that very
\* password, every end of a session is announced, and no session is used beyond its
\* idle, absolute or upstream time.
THEOREM SessionsAlwaysEndOnTime ==
    ASSUME ConstantsAreGood PROVE Spec => SessionsEndOnTime
<1>1. IInv /\ [Next]_vars => [EndsOnTime]_vars
  BY SessionStepsAreGood, ChangesAreVerified DEF EndsOnTime
<1> QED BY <1>1, ServiceIsSound, PTL DEF Spec, SessionsEndOnTime


=============================================================================
