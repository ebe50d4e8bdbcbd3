-------------------------- MODULE Sessions_proofs --------------------------
(***************************************************************************)
(* A restart costs a session at most the debounce interval, and a revoked  *)
(* session stays revoked, for all tokens, users, roles and durations.      *)
(* Sessions keep these guarantees when accounts come and go as they do in  *)
(* Accounts, and a confirmed account and its workspace are kept.           *)
(***************************************************************************)
EXTENDS Accounts, TLAPS

SessionMaps == [Tokens -> SessionSet]

Shape ==
    /\ clock \in 0..MaxTime /\ faults \in 0..MaxFaults
    /\ memory \in SessionMaps /\ disk \in SessionMaps
    /\ account \in [Users -> Roles \cup {NoRole}]
    /\ loaded \in BOOLEAN /\ unsaved \in BOOLEAN /\ lost \in BOOLEAN
    /\ revoking \in Users \cup {NoUser}
    /\ used \subseteq Tokens /\ revoked \subseteq used

\* Sessions belong to tokens that were handed out.
Owned(s, U) == \A t \in Tokens : s[t] # NoSession => t \in U

\* s is backed up by the file, up to the debounce interval.
BackedUp(s, d) ==
    \A t \in Tokens : s[t] # NoSession =>
        /\ d[t].user = s[t].user /\ d[t].role = s[t].role
        /\ d[t].exp = s[t].saved
        /\ s[t].exp <= s[t].saved + Debounce

Gone(s, R) == \A t \in R : s[t] = NoSession

\* The inductive invariant.
Inv ==
    /\ Shape
    /\ Owned(memory, used) /\ Owned(disk, used)
    /\ \A t \in Tokens : disk[t].saved = disk[t].exp
    /\ ~loaded /\ unsaved => lost
    /\ loaded /\ ~unsaved => BackedUp(memory, disk)
    /\ ~lost => /\ loaded => Gone(memory, revoked)
                /\ ~unsaved => Gone(disk, revoked)

\* Times are natural numbers, and a session made now ends at one of them.
LEMMA TimesFacts ==
    /\ Times \subseteq Nat /\ 0 \in Times
    /\ \A n \in 0..MaxTime : n + TTL \in Times
BY SessionsAssumption DEF Times

LEMMA SessionType ==
    ASSUME NEW u \in Users \cup {NoUser}, NEW r \in Roles \cup {NoRole},
           NEW e \in Times, NEW d \in Times
    PROVE  Session(u, r, e, d) \in SessionSet
BY DEF Session, SessionSet

LEMMA NoSessionType ==
    /\ NoSession \in SessionSet
    /\ Nobody \in SessionMaps /\ \A t \in Tokens : Nobody[t] = NoSession
<1>1. NoSession \in SessionSet BY TimesFacts, SessionType DEF NoSession
<1> QED BY <1>1 DEF Nobody, SessionMaps

LEMMA MarkedFacts ==
    ASSUME NEW s \in SessionMaps, NEW U
    PROVE  /\ Marked(s) \in SessionMaps
           /\ \A t \in Tokens : Marked(s)[t].saved = Marked(s)[t].exp
           /\ BackedUp(Marked(s), Marked(s))
           /\ Owned(s, U) => Owned(Marked(s), U)
           /\ \A R \in SUBSET Tokens : Gone(s, R) => Gone(Marked(s), R)
<1>1. \A t \in Tokens : s[t] = NoSession => Marked(s)[t] = NoSession
  BY DEF Marked, NoSession, Session
<1>2. \A t \in Tokens : /\ Marked(s)[t].saved = s[t].exp
                        /\ Marked(s)[t].exp = s[t].exp /\ s[t].exp \in Nat
  BY TimesFacts DEF Marked, Session, SessionMaps, SessionSet
<1>3. Marked(s) \in SessionMaps
  BY SessionType DEF Marked, SessionMaps, SessionSet
<1>4. BackedUp(Marked(s), Marked(s)) BY <1>2, SessionsAssumption DEF BackedUp
<1> QED BY <1>1, <1>2, <1>3, <1>4 DEF Owned, Gone

\* An operation that saves.
LEMMA SavesPreserves ==
    ASSUME Inv, NEW s \in SessionMaps, NEW E \in SUBSET SessionMaps, Saves(s, E),
           used \subseteq used', used' \subseteq Tokens, revoked' \subseteq used',
           clock' \in 0..MaxTime, account' \in [Users -> Roles \cup {NoRole}],
           revoking' \in {revoking, NoUser}, lost' = lost, Owned(s, used'), \A e \in E : Owned(e, used'),
           ~lost => Gone(s, revoked')
    PROVE  Inv'
<1>0. faults' \in 0..MaxFaults /\ revoking' \in Users \cup {NoUser}
  BY SessionsAssumption DEF Saves, Inv, Shape
<1>1. CASE memory' = Marked(s) /\ disk' = Marked(s) /\ unsaved' = FALSE
  <2>1. revoked' \in SUBSET Tokens OBVIOUS
  <2>2. loaded' = TRUE BY DEF Saves
  <2> QED BY <1>0, <1>1, <2>1, <2>2, MarkedFacts DEF Inv, Shape
<1>2. CASE /\ memory' = s /\ unsaved' = TRUE
           /\ disk' \in {disk} \cup {Marked(e) : e \in {s} \cup E}
  <2>1. loaded' = TRUE BY DEF Saves
  <2>2. Owned(disk, used') BY DEF Inv, Owned
  <2>3. /\ disk' \in SessionMaps /\ Owned(disk', used')
        /\ \A t \in Tokens : disk'[t].saved = disk'[t].exp
    <3>1. CASE disk' = disk BY <2>2, <3>1 DEF Inv, Shape
    <3>2. ASSUME NEW e \in {s} \cup E, disk' = Marked(e)
          PROVE  /\ disk' \in SessionMaps /\ Owned(disk', used')
                 /\ \A t \in Tokens : disk'[t].saved = disk'[t].exp
      <4>1. e \in SessionMaps /\ Owned(e, used') OBVIOUS
      <4> QED BY <3>2, <4>1, MarkedFacts
    <3> QED BY <1>2, <3>1, <3>2
  <2> QED BY <1>0, <1>2, <2>1, <2>3 DEF Inv, Shape
<1> QED BY <1>1, <1>2 DEF Saves

\* An operation that does not.
LEMMA KeepsPreserves ==
    ASSUME Inv, NEW s \in SessionMaps, Keeps(s),
           used' = used, revoked' = revoked, clock' \in 0..MaxTime,
           account' \in [Users -> Roles \cup {NoRole}], revoking' \in {revoking, NoUser},
           lost' = lost, Owned(s, used), ~unsaved => BackedUp(s, disk), ~lost => Gone(s, revoked)
    PROVE  Inv'
BY DEF Keeps, Inv, Shape

LEMMA WithoutFacts ==
    ASSUME Inv, NEW S
    PROVE  /\ Without(S) \in SessionMaps
           /\ Owned(Without(S), used)
           /\ \A R \in SUBSET Tokens : Gone(memory, R) => Gone(Without(S), R)
           /\ Gone(Without(S), S \cap Tokens)
<1>1. memory \in SessionMaps /\ Owned(memory, used) BY DEF Inv, Shape
<1>2. NoSession \in SessionSet BY NoSessionType
<1>3. Without(S) = [t \in Tokens |-> IF t \in S THEN NoSession ELSE memory[t]]
  BY DEF Without
<1>4. Without(S) \in SessionMaps BY <1>1, <1>2, <1>3 DEF SessionMaps
<1> QED BY <1>1, <1>3, <1>4 DEF Owned, Gone

LEMMA RenewedFacts ==
    ASSUME Inv, loaded, NEW t \in Tokens, memory[t] # NoSession
    PROVE  /\ Renewed(t) \in SessionMaps
           /\ Owned(Renewed(t), used)
           /\ ~lost => Gone(Renewed(t), revoked)
           /\ ~unsaved /\ ~WorthSaving(t) => BackedUp(Renewed(t), disk)
<1> DEFINE r == Session(memory[t].user, memory[t].role, clock + TTL, memory[t].saved)
<1>1. /\ memory \in SessionMaps /\ Owned(memory, used)
      /\ ~unsaved => BackedUp(memory, disk)
      /\ ~lost => Gone(memory, revoked)
  BY DEF Inv, Shape
<1>2. memory[t] \in SessionSet
  BY <1>1 DEF SessionMaps
<1>3. clock + TTL \in Times BY TimesFacts DEF Inv, Shape
<1>4. r \in SessionSet
  BY <1>2, <1>3, SessionType DEF SessionSet
<1>5. Renewed(t) = [memory EXCEPT ![t] = r] BY DEF Renewed
<1> HIDE DEF r
<1>6. Renewed(t) \in SessionMaps BY <1>1, <1>4, <1>5 DEF SessionMaps
<1>7. Renewed(t)[t] = r /\ \A x \in Tokens : x # t => Renewed(t)[x] = memory[x]
  BY <1>1, <1>5 DEF SessionMaps
<1>8. Owned(Renewed(t), used) BY <1>1, <1>7 DEF Owned
<1>9. ~lost => Gone(Renewed(t), revoked)
  BY <1>1, <1>7 DEF Gone, Inv, Shape
<1>10. ASSUME ~unsaved, ~WorthSaving(t) PROVE BackedUp(Renewed(t), disk)
  <2>1. r.exp <= r.saved + Debounce
    <3>1. r.exp = clock + TTL /\ r.saved = memory[t].saved BY DEF r, Session
    <3>2. memory[t].saved \in Nat /\ clock + TTL \in Nat
      BY <1>2, <1>3, TimesFacts DEF SessionSet
    <3>3. ~(clock + TTL > memory[t].saved + Debounce) BY <1>10 DEF WorthSaving
    <3> QED BY <3>1, <3>2, <3>3, SessionsAssumption
  <2>2. /\ r.user = memory[t].user /\ r.role = memory[t].role
        /\ r.saved = memory[t].saved
    BY DEF r, Session
  <2> QED BY <1>1, <1>7, <1>10, <2>1, <2>2 DEF BackedUp
<1> QED BY <1>6, <1>8, <1>9, <1>10

LEMMA Initially == Init => Inv
<1> SUFFICES ASSUME Init PROVE Inv OBVIOUS
<1>1. memory = Nobody /\ disk = Nobody /\ \A t \in Tokens : Nobody[t] = NoSession
  BY NoSessionType DEF Init
<1>2. Shape
  <2>1. clock \in 0..MaxTime /\ faults \in 0..MaxFaults
    BY SessionsAssumption DEF Init
  <2> QED BY <2>1, NoSessionType DEF Init, Shape
<1>3. Owned(memory, used) /\ Owned(disk, used) BY <1>1 DEF Owned
<1>4. \A t \in Tokens : disk[t].saved = disk[t].exp
  <2> TAKE t \in Tokens
  <2>1. disk[t] = NoSession BY <1>1
  <2>2. NoSession.saved = NoSession.exp BY DEF NoSession, Session
  <2> QED BY <2>1, <2>2
<1>5. used = {} /\ revoked = {} /\ loaded = FALSE /\ unsaved = FALSE BY DEF Init
<1>6. Gone(memory, revoked) /\ Gone(disk, revoked) BY <1>5 DEF Gone
<1> QED BY <1>2, <1>3, <1>4, <1>5, <1>6 DEF Inv

LEMMA LoginPreserves ==
    ASSUME Inv, NEW u \in Users, NEW t \in Tokens, Login(u, t)
    PROVE  Inv'
<1> DEFINE rest == Without(Expired)
           new  == Session(u, account[u], clock + TTL, 0)
           s    == [rest EXCEPT ![t] = new]
           E    == IF Expired = {} THEN {} ELSE {rest}
<1>1. /\ rest \in SessionMaps /\ Owned(rest, used)
      /\ \A R \in SUBSET Tokens : Gone(memory, R) => Gone(rest, R)
  BY WithoutFacts
<1>2. ~lost => Gone(memory, revoked) BY DEF Inv, Login, Serving
<1>3. new \in SessionSet
  <2>1. clock + TTL \in Times /\ account[u] \in Roles \cup {NoRole}
    BY TimesFacts DEF Inv, Shape
  <2> QED BY <2>1, TimesFacts, SessionType
<1>4. Saves(s, E) /\ t \notin used /\ used' = used \cup {t} /\ revoked' = revoked
  BY DEF Login
<1> HIDE DEF new, rest
<1>5. s \in SessionMaps BY <1>1, <1>3 DEF SessionMaps
<1>6. \A x \in Tokens : x # t => s[x] = rest[x] BY <1>1 DEF SessionMaps
<1>7. Owned(s, used') BY <1>1, <1>4, <1>6 DEF Owned
<1>8. E \in SUBSET SessionMaps /\ \A e \in E : Owned(e, used')
  BY <1>1, <1>4 DEF Owned
<1>9. ~lost => Gone(s, revoked')
  <2>1. revoked \in SUBSET Tokens /\ t \notin revoked BY <1>4 DEF Inv, Shape
  <2> QED BY <1>1, <1>2, <1>4, <1>6, <2>1 DEF Gone
<1>10. /\ used \subseteq used' /\ used' \subseteq Tokens /\ revoked' \subseteq used'
       /\ clock' \in 0..MaxTime /\ account' \in [Users -> Roles \cup {NoRole}] /\ lost' = lost
       /\ revoking' = revoking
  BY <1>4 DEF Login, StoreOnly, Inv, Shape
<1> HIDE DEF s, E
<1> QED BY <1>4, <1>5, <1>7, <1>8, <1>9, <1>10, SavesPreserves

\* Operations that remove a set of sessions and save.
LEMMA RemovalPreserves ==
    ASSUME Inv, loaded, NEW S \in SUBSET Tokens, NEW E \in SUBSET SessionMaps,
           Saves(Without(S), E), \A e \in E : Owned(e, used),
           \A t \in S : memory[t] # NoSession,
           used' = used, revoked' \in {revoked, revoked \cup S},
           clock' = clock, account' = account, revoking' \in {revoking, NoUser},
           lost' = lost
    PROVE  Inv'
<1>1. /\ Without(S) \in SessionMaps /\ Owned(Without(S), used)
      /\ \A R \in SUBSET Tokens : Gone(memory, R) => Gone(Without(S), R)
      /\ Gone(Without(S), S)
  BY WithoutFacts DEF Gone
<1>2. Owned(memory, used) /\ (~lost => Gone(memory, revoked)) BY DEF Inv
<1>3. S \subseteq used BY <1>2 DEF Owned
<1>4. revoked \in SUBSET Tokens /\ revoked' \subseteq used'
  BY <1>3 DEF Inv, Shape
<1>5. ~lost => Gone(Without(S), revoked') BY <1>1, <1>2, <1>4 DEF Gone
<1>6. clock' \in 0..MaxTime /\ account' \in [Users -> Roles \cup {NoRole}] /\ used' \subseteq Tokens
  BY DEF Inv, Shape
<1> QED BY <1>1, <1>4, <1>5, <1>6, SavesPreserves

LEMMA LoadPreserves ==
    ASSUME Inv, Load
    PROVE  Inv'
<1> DEFINE live == [t \in Tokens |-> IF disk[t].exp > clock THEN disk[t] ELSE NoSession]
<1>1. \A t \in Tokens : live[t] \in {disk[t], NoSession} OBVIOUS
<1>2. NoSession \in SessionSet BY NoSessionType
<1>3. live \in SessionMaps BY <1>2 DEF Inv, Shape, SessionMaps
<1>4. ~loaded /\ (Keeps(live) \/ Saves(live, {})) BY DEF Load
<1>5. /\ used' = used /\ revoked' = revoked /\ clock' = clock
      /\ account' = account /\ lost' = lost /\ revoking' = revoking
  BY DEF Load, NoHistory, StoreOnly
<1> HIDE DEF live
<1>6. Owned(live, used) BY <1>1 DEF Inv, Owned
<1>7. BackedUp(live, disk)
  <2> SUFFICES ASSUME NEW t \in Tokens, live[t] # NoSession
               PROVE  /\ disk[t].user = live[t].user /\ disk[t].role = live[t].role
                      /\ disk[t].exp = live[t].saved
                      /\ live[t].exp <= live[t].saved + Debounce
    BY DEF BackedUp
  <2>1. live[t] = disk[t] BY <1>1
  <2>2. disk[t].saved = disk[t].exp /\ disk[t].exp \in Nat
    BY TimesFacts DEF Inv, Shape, SessionMaps, SessionSet
  <2> QED BY <2>1, <2>2, SessionsAssumption
<1>8. ~lost => Gone(live, revoked) BY <1>1, <1>4 DEF Inv, Shape, Gone
<1>9. /\ clock' \in 0..MaxTime /\ account' \in [Users -> Roles \cup {NoRole}]
      /\ used \subseteq used' /\ used' \subseteq Tokens /\ revoked' \subseteq used'
  BY <1>5 DEF Inv, Shape
<1>10. CASE Keeps(live) BY <1>3, <1>5, <1>6, <1>7, <1>8, <1>9, <1>10, KeepsPreserves
<1>11. CASE Saves(live, {})
  BY <1>3, <1>5, <1>6, <1>8, <1>9, <1>11, SavesPreserves
<1> QED BY <1>4, <1>10, <1>11

LEMMA LoadFailsPreserves ==
    ASSUME Inv, LoadFails
    PROVE  Inv'
<1>1. PICK S \in SUBSET Tokens :
        memory' = [t \in Tokens |-> IF t \in S /\ disk[t].exp > clock THEN disk[t]
                                    ELSE NoSession]
  BY DEF LoadFails
<1>2. /\ used' = used /\ revoked' = revoked /\ clock' = clock /\ account' = account
      /\ lost' = lost /\ revoking' = revoking /\ disk' = disk /\ unsaved' = unsaved
      /\ loaded' = TRUE /\ ~loaded /\ faults' = faults + 1 /\ faults < MaxFaults
  BY DEF LoadFails, NoHistory, StoreOnly
<1>3. faults' \in 0..MaxFaults BY <1>2, SessionsAssumption DEF Inv, Shape
<1>4. \A t \in Tokens : memory'[t] \in {disk[t], NoSession} BY <1>1
<1>5. NoSession \in SessionSet BY NoSessionType
<1>6. memory' \in SessionMaps BY <1>1, <1>5 DEF Inv, Shape, SessionMaps
<1>7. Owned(memory', used') BY <1>2, <1>4 DEF Inv, Owned
<1>8. BackedUp(memory', disk')
  <2> SUFFICES ASSUME NEW t \in Tokens, memory'[t] # NoSession
               PROVE  /\ disk[t].user = memory'[t].user /\ disk[t].role = memory'[t].role
                      /\ disk[t].exp = memory'[t].saved
                      /\ memory'[t].exp <= memory'[t].saved + Debounce
    BY <1>2 DEF BackedUp
  <2>1. memory'[t] = disk[t] BY <1>4
  <2>2. disk[t].saved = disk[t].exp /\ disk[t].exp \in Nat
    BY TimesFacts DEF Inv, Shape, SessionMaps, SessionSet
  <2> QED BY <2>1, <2>2, SessionsAssumption
<1>9. ~lost => Gone(memory', revoked) BY <1>2, <1>4 DEF Inv, Shape, Gone
<1> QED BY <1>2, <1>3, <1>6, <1>7, <1>8, <1>9 DEF Inv, Shape

LEMMA Inductive == Inv /\ [Next]_vars => Inv'
<1> SUFFICES ASSUME Inv, [Next]_vars PROVE Inv' OBVIOUS
<1>1. ASSUME NEW u \in Users, NEW t \in Tokens, Login(u, t) PROVE Inv'
  BY <1>1, LoginPreserves
<1>2. ASSUME NEW t \in Tokens, Accept(t) PROVE Inv'
  <2>1. loaded /\ memory[t] # NoSession BY <1>2 DEF Accept, Serving, Valid
  <2>2. /\ Renewed(t) \in SessionMaps /\ Owned(Renewed(t), used)
        /\ ~lost => Gone(Renewed(t), revoked)
        /\ ~unsaved /\ ~WorthSaving(t) => BackedUp(Renewed(t), disk)
    BY <2>1, RenewedFacts
  <2>3. /\ used' = used /\ revoked' = revoked /\ clock' \in 0..MaxTime /\ lost' = lost
        /\ revoking' = revoking
        /\ account' \in [Users -> Roles \cup {NoRole}]
        /\ used' \subseteq Tokens /\ revoked' \subseteq used'
    BY <1>2 DEF Accept, NoHistory, StoreOnly, Inv, Shape
  <2>4. CASE WorthSaving(t)
    <3>1. Saves(Renewed(t), {}) BY <1>2, <2>4 DEF Accept
    <3> QED BY <2>2, <2>3, <3>1, SavesPreserves
  <2>5. CASE ~WorthSaving(t)
    <3>1. Keeps(Renewed(t)) BY <1>2, <2>5 DEF Accept
    <3> QED BY <2>2, <2>3, <2>5, <3>1, KeepsPreserves
  <2> QED BY <2>4, <2>5
<1>3. ASSUME NEW t \in Tokens, RejectChanged(t) PROVE Inv'
  <2>1. loaded /\ memory[t] # NoSession BY <1>3 DEF RejectChanged, Serving, Valid
  <2>2. Renewed(t) \in SessionMaps /\ Owned(Renewed(t), used) BY <2>1, RenewedFacts
  <2>3. PICK E \in SUBSET {Renewed(t)} : Saves(Without({t}), E)
    BY <1>3 DEF RejectChanged
  <2>4. /\ used' = used /\ revoked' = revoked \cup {t}
        /\ clock' = clock /\ account' = account /\ lost' = lost /\ revoking' = revoking
    BY <1>3 DEF RejectChanged, StoreOnly
  <2> QED BY <2>1, <2>2, <2>3, <2>4, RemovalPreserves
<1>4. ASSUME NEW t \in Tokens, RejectExpired(t) PROVE Inv'
  <2>1. loaded /\ memory[t] # NoSession BY <1>4 DEF RejectExpired, Serving, Expired
  <2>2. /\ Saves(Without({t}), {}) /\ used' = used /\ revoked' = revoked
        /\ clock' = clock /\ account' = account /\ lost' = lost /\ revoking' = revoking
    BY <1>4 DEF RejectExpired, NoHistory, StoreOnly
  <2> QED BY <2>1, <2>2, RemovalPreserves
<1>5. ASSUME NEW t \in Tokens, Logout(t) PROVE Inv'
  <2>1. /\ loaded /\ memory[t] # NoSession
        /\ Saves(Without({t}), {}) /\ used' = used /\ revoked' = revoked \cup {t}
        /\ clock' = clock /\ account' = account /\ lost' = lost /\ revoking' = revoking
    BY <1>5 DEF Logout, Serving, StoreOnly
  <2> QED BY <2>1, RemovalPreserves
<1>6. CASE Load
  BY <1>6, LoadPreserves
<1>13. CASE LoadFails
  BY <1>13, LoadFailsPreserves
<1>7. CASE RevokeAll
  <2> DEFINE mine == {t \in Tokens : memory[t].user = revoking}
  <2>1. /\ IF mine = {} THEN Keeps(memory) ELSE Saves(Without(mine), {})
        /\ revoked' = revoked \cup mine /\ used' = used
        /\ clock' = clock /\ account' = account /\ lost' = lost /\ revoking' = NoUser
        /\ revoking # NoUser /\ loaded
    BY <1>7 DEF RevokeAll, Idle
  <2>2. \A t \in mine : memory[t] # NoSession
    BY <2>1 DEF NoSession, Session
  <2>3. CASE mine = {}
    <3>1. Keeps(memory) /\ revoked' = revoked BY <2>1, <2>3
    <3>2. clock' \in 0..MaxTime /\ account' \in [Users -> Roles \cup {NoRole}]
      BY <2>1 DEF Inv, Shape
    <3>3. /\ memory \in SessionMaps /\ Owned(memory, used)
          /\ ~unsaved => BackedUp(memory, disk)
          /\ ~lost => Gone(memory, revoked)
      BY <2>1 DEF Inv, Shape
    <3> QED BY <2>1, <3>1, <3>2, <3>3, KeepsPreserves
  <2>4. CASE mine # {}
    <3>1. Saves(Without(mine), {}) BY <2>1, <2>4
    <3>2. mine \in SUBSET Tokens OBVIOUS
    <3> HIDE DEF mine
    <3> QED BY <2>1, <2>2, <3>1, <3>2, RemovalPreserves
  <2> QED BY <2>3, <2>4
<1>8. ASSUME \/ \E u \in Users, r \in Roles : CreateUser(u, r)
             \/ ChangeAccounts
      PROVE  Inv'
  BY <1>8 DEF CreateUser, ChangeAccounts, SessionsOnly, Inv, Shape, Owned, BackedUp, Gone
<1>9. ASSUME NEW u \in Users, DeleteUser(u) PROVE Inv'
  BY <1>9 DEF DeleteUser, SessionsOnly, Inv, Shape, Owned, BackedUp, Gone
<1>10. CASE Tick
  <2>1. clock' \in 0..MaxTime BY <1>10, SessionsAssumption DEF Tick, Inv, Shape
  <2> QED BY <1>10, <2>1 DEF Tick, Inv, Shape, Owned, BackedUp, Gone
<1>11. CASE Crash
  <2>1. /\ memory' = Nobody /\ loaded' = FALSE /\ disk' = disk /\ unsaved' = unsaved
        /\ lost' = (lost \/ unsaved)
        /\ clock' = clock /\ account' = account /\ used' = used /\ revoked' = revoked
    BY <1>11 DEF Crash
  <2>2. Shape'
    <3>1. faults' \in 0..MaxFaults /\ revoking' = NoUser
      BY <1>11, SessionsAssumption DEF Crash, Inv, Shape
    <3> QED BY <2>1, <3>1, NoSessionType DEF Inv, Shape
  <2>3. Owned(memory', used') BY <2>1, NoSessionType DEF Owned
  <2>4. Owned(disk', used') /\ \A t \in Tokens : disk'[t].saved = disk'[t].exp
    BY <2>1 DEF Inv
  <2>5. ~lost' => Gone(disk', revoked') BY <2>1 DEF Inv
  <2> QED BY <2>1, <2>2, <2>3, <2>4, <2>5 DEF Inv
<1>12. CASE UNCHANGED vars
  BY <1>12 DEF vars, Inv, Shape, Owned, BackedUp, Gone
<1> QED
  BY <1>1, <1>2, <1>3, <1>4, <1>5, <1>6, <1>7, <1>8, <1>9, <1>10, <1>11, <1>12,
     <1>13 DEF Next

\* For all tokens, durations and faults: while the last save went through, a
\* restart costs a session at most Debounce of its lifetime.
THEOREM RestartIsCheap == Spec => []RestartKeepsSessions
<1>1. Inv => RestartKeepsSessions
  BY DEF Inv, BackedUp, RestartKeepsSessions
<1> QED BY <1>1, Initially, Inductive, PTL DEF Spec

\* For all of them: a revoked session is gone for good, across restarts too,
\* unless a crash followed a failed save.
THEOREM RevocationHolds == Spec => []RevokedStaysRevoked
<1>1. Inv => RevokedStaysRevoked
  BY DEF Inv, RevokedStaysRevoked, Gone
<1> QED BY <1>1, Initially, Inductive, PTL DEF Spec

-----------------------------------------------------------------------------
(* Accounts: the same for the accounts as users.yaml and KIWIKI_USERS make   *)
(* them.                                                                    *)

Sources ==
    /\ builtin \in RoleMaps /\ file \in RoleMaps /\ acked \in RoleMaps
    /\ broken \in BOOLEAN /\ fresh \in BOOLEAN
    /\ space \subseteq Users /\ owners \subseteq Users
    /\ making \in Users \cup {NoUser}

\* The creation under way has a workspace, and one that it made itself is not
\* that of somebody who has had an account.
Making ==
    making # NoUser => /\ making \in space
                       /\ fresh => making \notin owners

\* The inductive invariant.
AccountsInv == Sources /\ account = Merged /\ Making /\ AccountsKept

LEMMA LocalType == ASSUME Sources PROVE Local \in RoleMaps
BY DEF Sources, Local, RoleMaps

LEMMA AccountsInitially == AccountsInit => Init /\ AccountsInv
<1> SUFFICES ASSUME AccountsInit PROVE Init /\ AccountsInv
  OBVIOUS
<1>1. Sources BY DEF AccountsInit, Sources, RoleMaps
<1>2. AccountsKept BY DEF AccountsInit, AccountsKept
<1> QED BY <1>1, <1>2 DEF AccountsInit, AccountsInv, Making

-----------------------------------------------------------------------------
(* Every step is a step of Sessions, or leaves its variables alone.         *)

LEMMA AccountsStep ==
  ASSUME Sources, [AccountsNext]_allVars
  PROVE  [Next]_vars
<1>1. ASSUME NEW u \in Users, NEW t \in Tokens, Enters(u, t) PROVE Next
  BY <1>1 DEF Enters, Next
<1>2. CASE SessionStep
  BY <1>2 DEF SessionStep, Next
<1>3. ASSUME NEW u \in Users, Ready(u) \/ BeginCreate(u) PROVE UNCHANGED vars
  BY <1>3 DEF Ready, BeginCreate
<1>4. ASSUME NEW u \in Users, Delete(u) PROVE Next
  BY <1>4 DEF Delete, Next
<1>5. ASSUME NEW u \in Users, DeleteFails(u) \/ Edit(u) \/ Reconfigure(u) PROVE Next
  BY <1>5 DEF DeleteFails, Edit, Reconfigure, Follows, Next
<1>6. ASSUME NEW r \in Roles, Persist(r) PROVE Next
  <2>1. making \in Users BY <1>6 DEF Persist, Sources
  <2> QED BY <1>6, <2>1 DEF Persist, Next
<1>7. CASE PersistFails BY <1>7 DEF PersistFails, Follows, Next
<1>8. CASE Dies BY <1>8 DEF Dies, Next
<1>9. CASE UNCHANGED allVars BY <1>9 DEF allVars
<1> QED BY <1>1, <1>2, <1>3, <1>4, <1>5, <1>6, <1>7, <1>8, <1>9 DEF AccountsNext

-----------------------------------------------------------------------------
(* The invariant.                                                           *)

\* What is written back is what was read, with the change of one entry.
LEMMA WritesKeeps ==
  ASSUME AccountsInv, NEW u \in Users, NEW r \in Roles \cup {NoRole},
         NEW a \in {NoRole, r},
         Writes([Entries EXCEPT ![u] = r]), acked' = [Kept EXCEPT ![u] = a]
  PROVE  /\ file' \in RoleMaps /\ acked' \in RoleMaps /\ broken' = FALSE
         /\ \A v \in Users : acked'[v] # NoRole => file'[v] = acked'[v]
         /\ \A v \in Users : Local'[v] = IF v = u THEN r ELSE Local[v]
<1>1. Local \in RoleMaps BY LocalType DEF AccountsInv
<1>2. Kept \in RoleMaps BY DEF Kept, AccountsInv, Sources, RoleMaps
<1>3. file' = [Local EXCEPT ![u] = r] /\ broken' = FALSE BY DEF Writes, Entries
<1>4. file' \in RoleMaps /\ acked' \in RoleMaps BY <1>1, <1>2, <1>3 DEF RoleMaps
<1>5. Local' = file' BY <1>3 DEF Local
<1>6. \A v \in Users : Kept[v] # NoRole => Local[v] = Kept[v]
  BY DEF Kept, Local, AccountsInv, AccountsKept, Sources, RoleMaps
<1>7. ASSUME NEW v \in Users, acked'[v] # NoRole PROVE file'[v] = acked'[v]
  <2>1. CASE v = u BY <2>1, <1>1, <1>2, <1>3, <1>7 DEF RoleMaps
  <2>2. CASE v # u BY <2>2, <1>1, <1>2, <1>3, <1>6, <1>7 DEF RoleMaps
  <2> QED BY <2>1, <2>2
<1>8. \A v \in Users : Local'[v] = IF v = u THEN r ELSE Local[v]
  BY <1>1, <1>3, <1>5 DEF RoleMaps
<1> QED BY <1>3, <1>4, <1>7, <1>8

\* The accounts in force follow it when no entry of KIWIKI_USERS hides it.
LEMMA MergedFollows ==
  ASSUME AccountsInv, NEW u \in Users, NEW r, builtin[u] = NoRole, builtin' = builtin,
         \A v \in Users : Local'[v] = IF v = u THEN r ELSE Local[v],
         account' = [account EXCEPT ![u] = r]
  PROVE  account' = Merged'
<1>1. account = [v \in Users |-> IF builtin[v] # NoRole THEN builtin[v] ELSE Local[v]]
  BY DEF AccountsInv, Merged
<1>2. Merged' = [v \in Users |-> IF builtin[v] # NoRole THEN builtin[v] ELSE Local'[v]]
  BY DEF Merged
<1>3. account' = [v \in Users |-> IF v = u THEN r ELSE account[v]] BY <1>1
<1>4. ASSUME NEW v \in Users PROVE account'[v] = Merged'[v]
  BY <1>1, <1>2, <1>3
<1> QED BY <1>2, <1>3, <1>4

LEMMA CreationPreserves ==
  ASSUME AccountsInv, NEW r \in Roles, Persist(r)
  PROVE  AccountsInv'
<1> DEFINE u == making
<1>1. u \in Users /\ u # NoUser BY DEF Persist, AccountsInv, Sources
<1>2. /\ Writes([Entries EXCEPT ![u] = r]) /\ acked' = [Kept EXCEPT ![u] = r]
      /\ owners' = owners \cup {u} /\ making' = NoUser
      /\ builtin' = builtin /\ space' = space /\ fresh' = fresh
      /\ account[u] = NoRole /\ account' = [account EXCEPT ![u] = r]
  BY DEF Persist, CreateUser
<1> HIDE DEF u
<1>3. /\ file' \in RoleMaps /\ acked' \in RoleMaps /\ broken' = FALSE
      /\ \A v \in Users : acked'[v] # NoRole => file'[v] = acked'[v]
      /\ \A v \in Users : Local'[v] = IF v = u THEN r ELSE Local[v]
  BY <1>1, <1>2, WritesKeeps
<1>4. builtin[u] = NoRole BY <1>1, <1>2 DEF AccountsInv, Merged
<1>5. account' = Merged' BY <1>1, <1>2, <1>3, <1>4, MergedFollows
<1>6. u \in space BY <1>1 DEF u, AccountsInv, Making
<1>7. Sources' BY <1>1, <1>2, <1>3 DEF AccountsInv, Sources
<1>8. Making' BY <1>2 DEF Making
<1>9. AccountsKept' BY <1>2, <1>3, <1>6 DEF AccountsInv, AccountsKept
<1> QED BY <1>5, <1>7, <1>8, <1>9 DEF AccountsInv

LEMMA FailurePreserves ==
  ASSUME AccountsInv, PersistFails
  PROVE  AccountsInv'
<1>1. making \in Users /\ making # NoUser BY DEF PersistFails, AccountsInv, Sources
<1>2. /\ space' = Rollback /\ making' = NoUser
      /\ builtin' = builtin /\ fresh' = fresh /\ owners' = owners
      /\ account' = Merged'
  BY DEF PersistFails, Follows
<1>3. /\ file' \in RoleMaps /\ acked' \in RoleMaps /\ broken' \in BOOLEAN
      /\ \A v \in Users : acked'[v] # NoRole => file'[v] = acked'[v]
  <2>1. CASE UNCHANGED <<file, broken, acked>>
    BY <2>1 DEF AccountsInv, Sources, AccountsKept
  <2>2. ASSUME NEW r \in Roles, Local[making] = NoRole,
               Writes([Entries EXCEPT ![making] = r]), acked' = Kept
        PROVE  /\ file' \in RoleMaps /\ acked' \in RoleMaps /\ broken' \in BOOLEAN
               /\ \A v \in Users : acked'[v] # NoRole => file'[v] = acked'[v]
    <3>1. Kept \in RoleMaps BY DEF Kept, AccountsInv, Sources, RoleMaps
    <3>2. Kept[making] = NoRole
      BY <1>1, <2>2 DEF Kept, Local, AccountsInv, AccountsKept
    <3>3. acked' = [Kept EXCEPT ![making] = NoRole] BY <1>1, <2>2, <3>1, <3>2 DEF RoleMaps
    <3> QED BY <1>1, <2>2, <3>3, WritesKeeps
  <2> QED BY <2>1, <2>2 DEF PersistFails
<1>4. space' \subseteq space /\ owners \subseteq space'
  BY <1>1, <1>2 DEF Rollback, AccountsInv, AccountsKept, Making
<1>5. Sources' BY <1>2, <1>3, <1>4 DEF AccountsInv, Sources
<1>6. Making' BY <1>2 DEF Making
<1>7. AccountsKept' BY <1>2, <1>3, <1>4 DEF AccountsKept
<1> QED BY <1>2, <1>5, <1>6, <1>7 DEF AccountsInv

LEMMA DeletionPreserves ==
  ASSUME AccountsInv, NEW u \in Users, Delete(u) \/ DeleteFails(u)
  PROVE  AccountsInv'
<1>1. Erases(u) BY DEF Delete, DeleteFails
<1>2. /\ Writes([Entries EXCEPT ![u] = NoRole]) /\ acked' = [Kept EXCEPT ![u] = NoRole]
      /\ builtin[u] = NoRole
      /\ builtin' = builtin /\ space' = space /\ making' = making
      /\ fresh' = fresh /\ owners' = owners
  BY <1>1 DEF Erases
<1>3. /\ file' \in RoleMaps /\ acked' \in RoleMaps /\ broken' = FALSE
      /\ \A v \in Users : acked'[v] # NoRole => file'[v] = acked'[v]
      /\ \A v \in Users : Local'[v] = IF v = u THEN NoRole ELSE Local[v]
  BY <1>2, WritesKeeps
<1>4. account' = Merged'
  <2>1. CASE Delete(u)
    <3>1. account' = [account EXCEPT ![u] = NoRole] BY <2>1 DEF Delete, DeleteUser
    <3> QED BY <1>2, <1>3, <3>1, MergedFollows
  <2>2. CASE DeleteFails(u) BY <2>2 DEF DeleteFails, Follows
  <2> QED BY <2>1, <2>2
<1>5. Sources' BY <1>2, <1>3 DEF AccountsInv, Sources
<1>6. Making' BY <1>2 DEF AccountsInv, Making
<1>7. AccountsKept' BY <1>2, <1>3 DEF AccountsInv, AccountsKept
<1> QED BY <1>4, <1>5, <1>6, <1>7 DEF AccountsInv

LEMMA EditPreserves ==
  ASSUME AccountsInv, NEW u \in Users, Edit(u)
  PROVE  AccountsInv'
<1>1. /\ builtin' = builtin /\ space' = space /\ making' = making
      /\ fresh' = fresh /\ owners' = owners /\ account' = Merged'
  BY DEF Edit, Follows
<1>2. /\ file' \in RoleMaps /\ acked' \in RoleMaps /\ broken' \in BOOLEAN
      /\ \A v \in Users : acked'[v] # NoRole => file'[v] = acked'[v]
  <2>1. CASE broken' = ~broken /\ UNCHANGED <<file, acked>>
    BY <2>1 DEF AccountsInv, Sources, AccountsKept
  <2>2. ASSUME NEW r \in Roles \cup {NoRole}, file' = [file EXCEPT ![u] = r],
               acked' = [acked EXCEPT ![u] = NoRole], broken' = broken
        PROVE  /\ file' \in RoleMaps /\ acked' \in RoleMaps /\ broken' \in BOOLEAN
               /\ \A v \in Users : acked'[v] # NoRole => file'[v] = acked'[v]
    <3>1. file \in RoleMaps /\ acked \in RoleMaps /\ broken \in BOOLEAN
      BY DEF AccountsInv, Sources
    <3>2. \A v \in Users : acked[v] # NoRole => file[v] = acked[v]
      BY DEF AccountsInv, AccountsKept
    <3> QED BY <2>2, <3>1, <3>2 DEF RoleMaps
  <2> QED BY <2>1, <2>2 DEF Edit
<1>3. Sources' BY <1>1, <1>2 DEF AccountsInv, Sources
<1>4. Making' BY <1>1 DEF AccountsInv, Making
<1>5. AccountsKept' BY <1>1, <1>2 DEF AccountsInv, AccountsKept
<1> QED BY <1>1, <1>3, <1>4, <1>5 DEF AccountsInv

LEMMA AccountsInductive == AccountsInv /\ [AccountsNext]_allVars => AccountsInv'
<1> SUFFICES ASSUME AccountsInv, [AccountsNext]_allVars PROVE AccountsInv'
  OBVIOUS
<1> USE DEF AccountsInv
<1>1. ASSUME NEW u \in Users, NEW t \in Tokens, Enters(u, t) PROVE AccountsInv'
  <2>1. /\ making = NoUser /\ making' = NoUser
        /\ space' = space \cup {u} /\ owners' = owners \cup {u}
        /\ builtin' = builtin /\ file' = file /\ broken' = broken
        /\ fresh' = fresh /\ acked' = acked /\ account' = account
    BY <1>1 DEF Enters, Quiet, Ensures, Login, StoreOnly
  <2>2. account' = Merged' BY <2>1 DEF Merged, Local
  <2> QED BY <2>1, <2>2 DEF Sources, Making, AccountsKept
<1>2. CASE SessionStep
  <2>1. UNCHANGED accountVars /\ account' = account
    BY <1>2 DEF SessionStep, Accept, RejectChanged, RejectExpired, Logout, Load, LoadFails, RevokeAll,
                Tick, StoreOnly
  <2>2. account' = Merged' BY <2>1 DEF accountVars, Merged, Local
  <2> QED BY <2>1, <2>2 DEF accountVars, Sources, Making, AccountsKept
<1>3. ASSUME NEW u \in Users, Ready(u) PROVE AccountsInv'
  <2>1. /\ space' = space \cup {u} /\ account' = account
        /\ UNCHANGED <<builtin, file, broken, making, fresh, acked, owners>>
    BY <1>3 DEF Ready, Ensures, vars
  <2>2. account' = Merged' BY <2>1 DEF Merged, Local
  <2> QED BY <2>1, <2>2 DEF Sources, Making, AccountsKept
<1>4. ASSUME NEW u \in Users, BeginCreate(u) PROVE AccountsInv'
  <2>1. /\ making' = u /\ fresh' = (u \notin space)
        /\ space' = space \cup {u} /\ account' = account
        /\ UNCHANGED <<builtin, file, broken, acked, owners>>
    BY <1>4 DEF BeginCreate, Ensures, vars
  <2>2. account' = Merged' BY <2>1 DEF Merged, Local
  <2>3. fresh' => u \notin owners BY <2>1 DEF AccountsKept
  <2>4. Sources'
    <3>1. fresh' \in BOOLEAN BY <2>1
    <3> QED BY <2>1, <3>1 DEF Sources
  <2> QED BY <2>1, <2>2, <2>3, <2>4 DEF Making, AccountsKept
<1>5. ASSUME NEW u \in Users, Delete(u) \/ DeleteFails(u) PROVE AccountsInv'
  BY <1>5, DeletionPreserves
<1>6. ASSUME NEW u \in Users, Edit(u) PROVE AccountsInv'
  BY <1>6, EditPreserves
<1>7. ASSUME NEW u \in Users, Reconfigure(u) PROVE AccountsInv'
  <2>1. PICK r \in Roles \cup {NoRole} : builtin' = [builtin EXCEPT ![u] = r]
    BY <1>7 DEF Reconfigure
  <2>2. builtin' \in RoleMaps BY <2>1 DEF Sources, RoleMaps
  <2>3. /\ UNCHANGED <<file, broken, space, making, fresh, acked, owners>>
        /\ account' = Merged'
    BY <1>7 DEF Reconfigure, Follows
  <2> QED BY <2>2, <2>3 DEF Sources, Making, AccountsKept
<1>8. ASSUME NEW r \in Roles, Persist(r) PROVE AccountsInv'
  BY <1>8, CreationPreserves
<1>9. CASE PersistFails
  BY <1>9, FailurePreserves
<1>10. CASE Dies
  <2>1. /\ making' = NoUser /\ account' = account
        /\ UNCHANGED <<builtin, file, broken, space, fresh, acked, owners>>
    BY <1>10 DEF Dies, Crash
  <2>2. account' = Merged' BY <2>1 DEF Merged, Local
  <2> QED BY <2>1, <2>2 DEF Sources, Making, AccountsKept
<1>11. CASE UNCHANGED allVars
  <2>1. UNCHANGED accountVars /\ account' = account BY <1>11 DEF allVars, vars
  <2>2. account' = Merged' BY <2>1 DEF accountVars, Merged, Local
  <2> QED BY <2>1, <2>2 DEF accountVars, Sources, Making, AccountsKept
<1> QED
  BY <1>1, <1>2, <1>3, <1>4, <1>5, <1>6, <1>7, <1>8, <1>9, <1>10, <1>11 DEF AccountsNext

-----------------------------------------------------------------------------

\* For all users, roles and failures: a confirmed account stays in users.yaml until
\* it is deleted or the file is changed by hand, and the workspace of somebody who
\* has had an account is never rolled back.
THEOREM AccountsAreKept == AccountsSpec => []AccountsKept
<1>1. AccountsInv => AccountsKept BY DEF AccountsInv
<1> QED BY <1>1, AccountsInitially, AccountsInductive, PTL DEF AccountsSpec

\* What is done to the accounts, also half-way, is something that Sessions allows.
THEOREM AccountsImplementSessions == AccountsSpec => Spec
<1>1. AccountsInv => Sources BY DEF AccountsInv
<1>2. Sources /\ [AccountsNext]_allVars => [Next]_vars BY AccountsStep
<1> QED BY <1>1, <1>2, AccountsInitially, AccountsInductive, PTL DEF AccountsSpec, Spec

\* So the sessions of the composed system cost little at a restart and end with
\* their revocation.
THEOREM ComposedSessions == AccountsSpec => [](RestartKeepsSessions /\ RevokedStaysRevoked)
BY AccountsImplementSessions, RestartIsCheap, RevocationHolds, PTL

\* A creation begins when no other handler is between its steps, and none begins
\* before it has ended.
OneHandler == making # NoUser => Idle

LEMMA OneHandlerInductive == OneHandler /\ [AccountsNext]_allVars => OneHandler'
<1> SUFFICES ASSUME OneHandler, [AccountsNext]_allVars PROVE OneHandler' OBVIOUS
<1>1. ASSUME NEW u \in Users, NEW t \in Tokens, Enters(u, t) PROVE OneHandler'
  BY <1>1 DEF Enters, Quiet, OneHandler
<1>2. CASE SessionStep BY <1>2 DEF SessionStep, accountVars, OneHandler
<1>3. ASSUME NEW u \in Users, Ready(u) \/ BeginCreate(u) PROVE OneHandler'
  BY <1>3 DEF Ready, BeginCreate, Quiet, OneHandler, Idle, vars
<1>4. ASSUME NEW u \in Users, Delete(u) \/ DeleteFails(u) PROVE OneHandler'
  BY <1>4 DEF Delete, DeleteFails, Erases, Quiet, OneHandler
<1>5. ASSUME NEW u \in Users, Edit(u) \/ Reconfigure(u) PROVE OneHandler'
  BY <1>5 DEF Edit, Reconfigure, Follows, ChangeAccounts, OneHandler, Idle
<1>6. ASSUME \/ \E r \in Roles : Persist(r)
             \/ PersistFails \/ Dies
      PROVE  OneHandler'
  BY <1>6 DEF Persist, PersistFails, Dies, OneHandler
<1>7. CASE UNCHANGED allVars
  BY <1>7 DEF allVars, vars, accountVars, OneHandler, Idle
<1> QED BY <1>1, <1>2, <1>3, <1>4, <1>5, <1>6, <1>7 DEF AccountsNext

\* For all of them: every variable keeps its type, the accounts in force are those
\* of KIWIKI_USERS and users.yaml, and no creation overlaps a deletion.
THEOREM AccountsTypes == AccountsSpec => []AccountsTypeOK
<1>1. AccountsInit => OneHandler BY DEF AccountsInit, OneHandler
<1>2. AccountsSpec => []OneHandler
  BY <1>1, OneHandlerInductive, PTL DEF AccountsSpec
<1>3. AccountsSpec => []AccountsInv
  BY AccountsInitially, AccountsInductive, PTL DEF AccountsSpec
<1>4. AccountsSpec => []Inv
  BY AccountsImplementSessions, Initially, Inductive, PTL DEF Spec
<1>5. Inv /\ AccountsInv /\ OneHandler => AccountsTypeOK
  BY DEF Inv, Shape, SessionMaps, AccountsInv, Sources, OneHandler, AccountsTypeOK, TypeOK
<1> QED BY <1>2, <1>3, <1>4, <1>5, PTL
=============================================================================
