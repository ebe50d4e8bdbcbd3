------------------------- MODULE OAuthTokens_proofs -------------------------
(***************************************************************************)
(* Proofs about OAuthTokens, and about its composition with OAuthClients,  *)
(* for any keys, clients, codes, ids, caps and lifetimes.                  *)
(***************************************************************************)
EXTENDS OAuthClients, TLAPS, FiniteSetTheorems, WellFoundedInduction

\* A code that can still be exchanged has not led to a token.
PendingIsUnspent ==
    \A c \in Codes, i \in Ids : code[c].pending => token[i].grant # c

\* A token leads back to a code that has been handed out.
GrantsAreUsed == \A i \in Ids : Issued(i) => token[i].grant \in used

Inv ==
    /\ TypeOK
    /\ PendingIsUnspent
    /\ GrantsAreUsed
    /\ SpentIsRemembered
    /\ OneTokenPerGrant

\* Records are what their constructors say.
LEMMA Records ==
    /\ \A p, c, e : /\ CodeRecord(p, c, e).pending = p
                    /\ CodeRecord(p, c, e).client = c
                    /\ CodeRecord(p, c, e).expires = e
    /\ \A g, c, e : /\ Token(g, c, e).grant = g
                    /\ Token(g, c, e).client = c
                    /\ Token(g, c, e).exp = e
    /\ ~Gone.pending
    /\ Unissued.grant = NoCode
BY DEF CodeRecord, Token, Gone, Unissued

CodeRecords == [client : AnyClient, expires : Nat, pending : BOOLEAN]
Tokens == [client : AnyClient, grant : Codes \cup {NoCode}, exp : Nat]

LEMMA RecordTypes ==
    /\ \A p \in BOOLEAN, c \in AnyClient, e \in Nat : CodeRecord(p, c, e) \in CodeRecords
    /\ \A g \in Codes \cup {NoCode}, c \in AnyClient, e \in Nat : Token(g, c, e) \in Tokens
    /\ Gone \in CodeRecords
    /\ Unissued \in Tokens
BY DEF CodeRecord, Token, Gone, Unissued, CodeRecords, Tokens, AnyClient

\* The points in time that are compared are natural numbers.
LEMMA Times ==
    ASSUME TypeOK
    PROVE  /\ now \in Nat
           /\ Seconds + RefreshTTL \in Nat
           /\ now + CodeTTL \in Nat
           /\ \A i \in Ids : Expiry(i) \in Nat
<1>1. now \in Nat /\ Second \in Nat \ {0} /\ RefreshTTL \in Nat /\ CodeTTL \in Nat
  BY OAuthAssumption DEF TypeOK
<1>2. now \div Second \in Nat
  BY <1>1
<1>3. \A i \in Ids : token[i].exp \in Nat
  BY DEF TypeOK
<1> QED
  BY <1>1, <1>2, <1>3 DEF Seconds, Expiry

\* The initial states.
LEMMA InitInv == Init => Inv
<1> SUFFICES ASSUME Init PROVE Inv
  OBVIOUS
<1>1. \A i \in Ids : ~Issued(i)
  BY Records DEF Init, Issued
<1>2. TypeOK
  <2>1. code \in [Codes -> CodeRecords] /\ token \in [Ids -> Tokens]
    BY RecordTypes DEF Init
  <2>2. \A c \in Codes : ~code[c].pending
    BY Records DEF Init
  <2>3. now \in 0..MaxTime
    BY OAuthAssumption DEF Init
  <2> QED
    BY <2>1, <2>2, <2>3 DEF Init, TypeOK, CodeRecords, Tokens
<1>3. PendingIsUnspent
  BY Records DEF Init, PendingIsUnspent
<1> QED
  BY <1>1, <1>2, <1>3 DEF Inv, Init, GrantsAreUsed, SpentIsRemembered, OneTokenPerGrant

\* The steps that leave the tokens alone and only take codes away.
LEMMA CodesTaken ==
    ASSUME Inv,
           code' \in [Codes -> CodeRecords],
           \A c \in Codes : code'[c].pending => code[c].pending,
           UNCHANGED <<now, token, used, owner, spent, replayed>>,
           valid' \subseteq valid,
           \/ UNCHANGED <<seen, forgotten>>
           \/ seen' = {} /\ forgotten' = forgotten \cup seen
    PROVE  Inv'
<1>1. TypeOK'
  BY DEF Inv, TypeOK, CodeRecords, Issued
<1>2. PendingIsUnspent' /\ GrantsAreUsed' /\ OneTokenPerGrant'
  BY DEF Inv, PendingIsUnspent, GrantsAreUsed, OneTokenPerGrant, Issued
<1>3. SpentIsRemembered'
  BY DEF Inv, SpentIsRemembered, Expiry
<1> QED
  BY <1>1, <1>2, <1>3 DEF Inv

LEMMA AuthorizeInv ==
    ASSUME Inv, NEW c \in Codes, NEW client \in AnyClient, Authorize(c, client)
    PROVE  Inv'
<1> USE DEF Authorize
<1>1. code' \in [Codes -> CodeRecords]
  <2>1. Pruned \in [Codes -> CodeRecords]
    BY RecordTypes DEF Pruned, Inv, TypeOK, CodeRecords
  <2> QED
    BY <2>1, RecordTypes, Times DEF Inv
<1>2. \A d \in Codes : d # c => (code'[d].pending => code[d].pending)
  <2> TAKE d \in Codes
  <2> QED
    BY Records DEF Pruned
<1>3. TypeOK'
  BY <1>1, <1>2 DEF Inv, TypeOK, CodeRecords, Issued
<1>4. PendingIsUnspent'
  <2>1. \A i \in Ids : token[i].grant # c
    BY OAuthAssumption DEF Inv, GrantsAreUsed, Issued
  <2> QED
    BY <2>1, <1>2 DEF Inv, PendingIsUnspent
<1>5. GrantsAreUsed' /\ OneTokenPerGrant' /\ SpentIsRemembered'
  BY DEF Inv, GrantsAreUsed, OneTokenPerGrant, SpentIsRemembered, Issued, Expiry
<1> QED
  BY <1>3, <1>4, <1>5 DEF Inv

\* What issuing a token changes.
LEMMA Issuing ==
    ASSUME Inv, NEW i \in Ids, NEW g \in Codes, NEW client \in AnyClient,
           Issue(i, g, client)
    PROVE  /\ token' \in [Ids -> Tokens]
           /\ ~Issued(i) /\ Issued(i)' /\ token'[i].grant = g
           /\ \A x \in Ids : x # i => token'[x] = token[x]
<1>1. token' = [token EXCEPT ![i] = Token(g, client, Seconds + RefreshTTL)]
  BY DEF Issue
<1>2. Token(g, client, Seconds + RefreshTTL) \in Tokens
  BY RecordTypes, Times DEF Inv
<1>3. token \in [Ids -> Tokens]
  BY DEF Inv, TypeOK, Tokens
<1>4. token'[i] = Token(g, client, Seconds + RefreshTTL)
  BY <1>1, <1>3
<1> QED
  BY <1>1, <1>2, <1>3, <1>4, Records, OAuthAssumption DEF Issue, Issued

LEMMA ExchangeInv ==
    ASSUME Inv, NEW c \in Codes, NEW client \in AnyClient, NEW i \in Ids,
           Exchange(c, client, i)
    PROVE  Inv'
<1> USE DEF Exchange
<1>1. /\ token' \in [Ids -> Tokens]
      /\ ~Issued(i) /\ Issued(i)' /\ token'[i].grant = c
      /\ \A x \in Ids : x # i => token'[x] = token[x]
  BY Issuing
<1>2. /\ code' \in [Codes -> CodeRecords]
      /\ \A d \in Codes : code'[d].pending => code[d].pending /\ d # c
  <2>1. code \in [Codes -> CodeRecords]
    BY DEF Inv, TypeOK, CodeRecords
  <2> QED
    BY <2>1, RecordTypes, Records DEF Popped
<1>3. TypeOK'
  BY <1>1, <1>2 DEF Inv, TypeOK, CodeRecords, Tokens, Issued
<1>4. PendingIsUnspent'
  BY <1>1, <1>2 DEF Inv, PendingIsUnspent
<1>5. GrantsAreUsed'
  BY <1>1 DEF Inv, TypeOK, GrantsAreUsed, Issued
<1>6. SpentIsRemembered'
  <2>1. i \notin spent
    BY <1>1 DEF Inv, TypeOK
  <2> QED
    BY <1>1, <2>1 DEF Inv, TypeOK, SpentIsRemembered, Expiry
<1>7. OneTokenPerGrant'
  <2>1. \A x \in Ids : token[x].grant # c
    BY DEF Inv, PendingIsUnspent
  <2> QED
    BY <1>1, <2>1 DEF Inv, OneTokenPerGrant, Issued
<1> QED
  BY <1>3, <1>4, <1>5, <1>6, <1>7 DEF Inv

\* What the pruning keeps and what it notes as forgotten.
LEMMA Keeping ==
    ASSUME Inv, NEW K \in MayKeep
    PROVE  /\ K \subseteq seen
           /\ \A x \in seen : Expiry(x) >= now => x \in K \cup (Unexpired \ K)
BY DEF MayKeep, Unexpired

LEMMA RefreshInv ==
    ASSUME Inv, NEW i \in Ids, NEW client \in AnyClient, NEW j \in Ids,
           Refresh(i, client, j)
    PROVE  Inv'
<1> USE DEF Refresh
<1> DEFINE g == token[i].grant
<1>1. PICK K \in MayKeep : /\ i \notin K
                           /\ seen' = K \cup {i}
                           /\ forgotten' = forgotten \cup (Unexpired \ K)
  OBVIOUS
<1>2. g \in Codes /\ g \in used /\ token[i].client \in AnyClient
  BY DEF Accepted, Inv, TypeOK, GrantsAreUsed, Issued
<1>3. /\ token' \in [Ids -> Tokens]
      /\ ~Issued(j) /\ Issued(j)' /\ token'[j].grant = g
      /\ \A x \in Ids : x # j => token'[x] = token[x]
  <2> HIDE DEF g
  <2>1. Issue(j, g, token[i].client)
    BY DEF g
  <2> QED
    BY <1>2, <2>1, Issuing
<1>4. i # j /\ j \notin spent /\ Issued(i)
  BY <1>3 DEF Accepted, Inv, TypeOK
<1>5. K \subseteq seen /\ Unexpired \subseteq seen
  BY Keeping DEF Unexpired
<1>6. TypeOK'
  BY <1>1, <1>2, <1>3, <1>4, <1>5 DEF Inv, TypeOK, Tokens, Issued
<1>7. PendingIsUnspent'
  BY <1>2, <1>3, <1>4 DEF Inv, PendingIsUnspent
<1>8. GrantsAreUsed'
  BY <1>2, <1>3 DEF Inv, GrantsAreUsed, Issued
<1>9. SpentIsRemembered'
  <2> SUFFICES ASSUME NEW x \in spent' \ forgotten', Expiry(x)' >= now'
               PROVE  x \in seen'
    BY DEF SpentIsRemembered
  <2>1. CASE x = i
    BY <1>1, <2>1
  <2>2. CASE x # i
    <3>1. x \in spent \ forgotten /\ x \in Ids
      BY <1>1, <2>2 DEF Inv, TypeOK
    <3>2. Expiry(x) >= now
      BY <1>3, <1>4, <3>1 DEF Expiry
    <3>3. x \in seen
      BY <3>1, <3>2 DEF Inv, SpentIsRemembered
    <3> QED
      BY <1>1, <3>2, <3>3, Keeping
  <2> QED
    BY <2>1, <2>2
<1>10. OneTokenPerGrant'
  <2> SUFFICES ASSUME NEW x \in Ids \ spent', NEW y \in Ids \ spent',
                      Issued(x)', Issued(y)', token'[x].grant = token'[y].grant,
                      x # y
               PROVE  token'[x].grant \in replayed'
    BY DEF OneTokenPerGrant
  <2>1. x # i /\ y # i /\ x \notin spent /\ y \notin spent
    OBVIOUS
  <2>2. replayed \subseteq replayed'
    OBVIOUS
  <2>3. CASE x # j /\ y # j
    BY <1>3, <2>1, <2>2, <2>3 DEF Inv, OneTokenPerGrant, Issued
  <2>4. ASSUME NEW z \in Ids, z # i, z # j, z \notin spent, Issued(z)',
               token'[z].grant = g
        PROVE  g \in replayed'
    <3>1. Issued(z) /\ token[z].grant = g
      BY <1>3, <2>4 DEF Issued
    <3>2. CASE i \in spent
      BY <3>2
    <3>3. CASE i \notin spent
      BY <1>4, <2>2, <2>4, <3>1, <3>3 DEF Inv, OneTokenPerGrant
    <3> QED
      BY <3>2, <3>3
  <2>5. CASE x = j
    BY <1>3, <2>1, <2>4, <2>5
  <2>6. CASE y = j
    BY <1>3, <2>1, <2>4, <2>6
  <2> QED
    BY <2>3, <2>5, <2>6
<1> QED
  BY <1>6, <1>7, <1>8, <1>9, <1>10 DEF Inv

LEMMA RefusedInv ==
    ASSUME Inv, NEW i \in Ids, NEW client \in AnyClient, RefreshRefused(i, client)
    PROVE  Inv'
<1>1. PICK K \in MayKeep : /\ seen' = K
                           /\ forgotten' = forgotten \cup (Unexpired \ K)
  BY DEF RefreshRefused
<1>2. UNCHANGED <<now, valid, code, token, used, owner, spent, replayed>>
  BY DEF RefreshRefused
<1>3. TypeOK'
  BY <1>1, <1>2, Keeping DEF Inv, TypeOK, Issued, Unexpired
<1>4. PendingIsUnspent' /\ GrantsAreUsed' /\ OneTokenPerGrant'
  BY <1>2 DEF Inv, PendingIsUnspent, GrantsAreUsed, OneTokenPerGrant, Issued
<1>5. SpentIsRemembered'
  BY <1>1, <1>2, Keeping DEF Inv, SpentIsRemembered, Expiry
<1> QED
  BY <1>3, <1>4, <1>5 DEF Inv

LEMMA TickInv == ASSUME Inv, Tick PROVE Inv'
<1>1. TypeOK'
  BY OAuthAssumption DEF Tick, Inv, TypeOK, Issued
<1>2. PendingIsUnspent' /\ GrantsAreUsed' /\ OneTokenPerGrant'
  BY DEF Tick, Inv, PendingIsUnspent, GrantsAreUsed, OneTokenPerGrant, Issued
<1>3. SpentIsRemembered'
  <2> SUFFICES ASSUME NEW x \in spent \ forgotten, Expiry(x) >= now + 1
               PROVE  x \in seen
    BY DEF Tick, SpentIsRemembered, Expiry
  <2>1. Expiry(x) \in Nat /\ now \in Nat
    BY Times DEF Inv, TypeOK
  <2>2. Expiry(x) >= now
    BY <2>1
  <2> QED
    BY <2>2 DEF Inv, SpentIsRemembered
<1> QED
  BY <1>1, <1>2, <1>3 DEF Inv

\* Every step preserves the invariant.
LEMMA NextInv == ASSUME Inv, [Next]_vars PROVE Inv'
<1>0. code \in [Codes -> CodeRecords]
  BY DEF Inv, TypeOK, CodeRecords
<1>1. ASSUME NEW c \in Codes, NEW client \in AnyClient, Authorize(c, client) PROVE Inv'
  BY <1>1, AuthorizeInv
<1>2. ASSUME NEW c \in Codes, NEW client \in AnyClient, NEW i \in Ids,
             Exchange(c, client, i)
      PROVE  Inv'
  BY <1>2, ExchangeInv
<1>3. CASE AuthorizeFull
  <2>1. \A c \in Codes : Pruned[c] = code[c] \/ Pruned[c] = Gone
    BY DEF Pruned
  <2>2. code' \in [Codes -> CodeRecords]
    BY <1>0, <1>3, RecordTypes DEF AuthorizeFull, Pruned
  <2>3. \A c \in Codes : code'[c].pending => code[c].pending
    BY <1>3, <2>1, Records DEF AuthorizeFull
  <2> QED
    BY <1>3, <2>2, <2>3, CodesTaken DEF AuthorizeFull
<1>4. ASSUME NEW c \in Codes, ExchangeRefused(c) PROVE Inv'
  <2>1. code' = [code EXCEPT ![c] = Gone]
    BY <1>4 DEF ExchangeRefused, Popped
  <2>2. code' \in [Codes -> CodeRecords]
    BY <1>0, <2>1, RecordTypes
  <2>3. \A d \in Codes : code'[d].pending => code[d].pending
    BY <1>0, <2>1, Records
  <2> QED
    BY <1>4, <2>2, <2>3, CodesTaken DEF ExchangeRefused
<1>5. ASSUME NEW i \in Ids, NEW client \in AnyClient, NEW j \in Ids,
             Refresh(i, client, j)
      PROVE  Inv'
  BY <1>5, RefreshInv
<1>6. ASSUME NEW i \in Ids, NEW client \in AnyClient, RefreshRefused(i, client)
      PROVE  Inv'
  BY <1>6, RefusedInv
<1>7. ASSUME NEW k \in Keys, Revoke(k) PROVE Inv'
  BY <1>0, <1>7, CodesTaken DEF Revoke
<1>8. CASE Restart
  <2>1. code' \in [Codes -> CodeRecords] /\ \A c \in Codes : ~code'[c].pending
    BY <1>8, RecordTypes, Records DEF Restart
  <2> QED
    BY <1>8, <2>1, CodesTaken DEF Restart
<1>9. CASE Tick
  BY <1>9, TickInv
<1>10. CASE UNCHANGED vars
  BY <1>0, <1>10, CodesTaken DEF vars
<1> QED
  BY <1>1, <1>2, <1>3, <1>4, <1>5, <1>6, <1>7, <1>8, <1>9, <1>10 DEF Next

LEMMA Invariance == Spec => []Inv
BY InitInv, NextInv, PTL DEF Spec

\* The types, and that only ids of tokens that were exchanged are remembered.
THEOREM TypeCorrect == Spec => []TypeOK
<1>1. Inv => TypeOK
  BY DEF Inv
<1> QED
  BY Invariance, <1>1, PTL

\* The list of spent ids is complete until the expiry of each token, whatever the
\* order of exchanges, prunings and restarts.
THEOREM ReuseIsNoticed == Spec => []SpentIsRemembered
<1>1. Inv => SpentIsRemembered
  BY DEF Inv
<1> QED
  BY Invariance, <1>1, PTL

\* A grant has one token that can still be exchanged, as long as no spent token of
\* it has been honoured.
THEOREM RotationIsAChain == Spec => []OneTokenPerGrant
<1>1. Inv => OneTokenPerGrant
  BY DEF Inv
<1> QED
  BY Invariance, <1>1, PTL

\* No code and no token of a removed API key is exchanged.
THEOREM RevocationIsFinal == Spec => RevokedKeyGetsNothing
<1> DEFINE Step == \A i \in Ids : ~Issued(i) /\ Issued(i)' =>
                                     owner[token'[i].grant] \in valid
<1>1. ASSUME Inv, [Next]_vars PROVE [Step]_vars
  <2>1. ASSUME NEW c \in Codes, NEW client \in AnyClient, NEW i \in Ids,
               Exchange(c, client, i)
        PROVE  Step
    <3>1. /\ token'[i].grant = c
          /\ \A x \in Ids : x # i => token'[x] = token[x]
      BY <1>1, <2>1, Issuing DEF Exchange
    <3> QED
      BY <2>1, <3>1 DEF Exchange, Issued
  <2>2. ASSUME NEW i \in Ids, NEW client \in AnyClient, NEW j \in Ids,
               Refresh(i, client, j)
        PROVE  Step
    <3>1. token[i].grant \in Codes /\ token[i].client \in AnyClient
      BY <1>1, <2>2 DEF Refresh, Accepted, Inv, TypeOK, Issued
    <3>2. Issue(j, token[i].grant, token[i].client)
      BY <2>2 DEF Refresh
    <3>3. PICK g \in Codes, b \in AnyClient : g = token[i].grant /\ b = token[i].client
      BY <3>1
    <3>4. /\ token'[j].grant = g
          /\ \A x \in Ids : x # j => token'[x] = token[x]
      BY <1>1, <3>2, <3>3, Issuing
    <3> QED
      BY <2>2, <3>3, <3>4 DEF Refresh, Accepted, Issued
  <2>3. ASSUME UNCHANGED token PROVE Step
    BY <2>3 DEF Issued
  <2> QED
    BY <1>1, <2>1, <2>2, <2>3
    DEF Next, Authorize, AuthorizeFull, ExchangeRefused, RefreshRefused, Revoke,
        Restart, Tick, vars
<1> QED
  BY <1>1, Invariance, PTL DEF Spec, RevokedKeyGetsNothing

-----------------------------------------------------------------------------
(* The composition with client registration.                                *)

LEMMA ClientsStep ==
  ASSUME [ClientsNext]_<<vars, clientVars>>
  PROVE  [Next]_vars
<1>1. ASSUME NEW id \in AnyClient, ShowForm(id) PROVE UNCHANGED vars
  BY <1>1 DEF ShowForm
<1>2. ASSUME NEW id \in AnyClient, SubmitForm(id) PROVE Next
  BY <1>2 DEF SubmitForm, Next
<1>3. CASE Registration
  BY <1>3 DEF Registration
<1>4. CASE ClientsRestart
  BY <1>4 DEF ClientsRestart, Next
<1>5. CASE TokenStep
  BY <1>5 DEF TokenStep, Next
<1>6. CASE UNCHANGED <<vars, clientVars>>
  BY <1>6
<1> QED BY <1>1, <1>2, <1>3, <1>4, <1>5, <1>6 DEF ClientsNext

\* What is done about registrations never touches a code or a token in a way
\* that OAuthTokens does not know.
THEOREM ClientsImplementTokens == ClientsSpec => Spec
<1>1. ClientsInit => Init BY DEF ClientsInit
<1>2. [ClientsNext]_<<vars, clientVars>> => [Next]_vars BY ClientsStep
<1> QED BY <1>1, <1>2, PTL DEF ClientsSpec, Spec

\* So reuse is noticed, rotation is a chain and revocation is final in the
\* composed system.
THEOREM ComposedTokens ==
    ClientsSpec => [](SpentIsRemembered /\ OneTokenPerGrant) /\ RevokedKeyGetsNothing
<1>1. ClientsSpec => [](SpentIsRemembered /\ OneTokenPerGrant)
  BY ClientsImplementTokens, ReuseIsNoticed, RotationIsAChain, PTL
<1> QED BY <1>1, ClientsImplementTokens, RevocationIsFinal
-----------------------------------------------------------------------------
(* Bookings in the order of time, and what the window leaves of them.        *)

Bookings(n) ==
    {h \in Seq(Nat) : /\ \A i \in 1..Len(h) : h[i] <= n
                      /\ \A i \in 1..Len(h), j \in 1..Len(h) : i <= j => h[i] <= h[j]}

LEMMA BookingFacts ==
  ASSUME NEW n, NEW h \in Bookings(n)
  PROVE  /\ h \in Seq(Nat) /\ Len(h) \in Nat
         /\ \A i \in 1..Len(h) : h[i] \in Nat /\ h[i] <= n
         /\ \A i \in 1..Len(h), j \in 1..Len(h) : i <= j => h[i] <= h[j]
<1>1. h \in Seq(Nat) BY DEF Bookings
<1>2. Len(h) \in Nat BY <1>1
<1>3. \A i \in 1..Len(h) : h[i] \in Nat BY <1>1
<1>4. \A i \in 1..Len(h) : h[i] <= n BY DEF Bookings
<1>5. \A i \in 1..Len(h), j \in 1..Len(h) : i <= j => h[i] <= h[j] BY DEF Bookings
<1> QED BY <1>1, <1>2, <1>3, <1>4, <1>5

LEMMA LaterBookings ==
  ASSUME NEW n \in Nat, NEW m \in Nat, n <= m, NEW h \in Bookings(n)
  PROVE  h \in Bookings(m)
<1>1. /\ h \in Seq(Nat) /\ Len(h) \in Nat
      /\ \A i \in 1..Len(h) : h[i] \in Nat /\ h[i] <= n
  BY BookingFacts
<1>2. \A i \in 1..Len(h) : h[i] <= m BY <1>1
<1> QED BY <1>1, <1>2 DEF Bookings

LEMMA AppendBooking ==
  ASSUME NEW n \in Nat, NEW h \in Bookings(n)
  PROVE  /\ Append(h, n) \in Bookings(n)
         /\ Len(Append(h, n)) = Len(h) + 1
         /\ \A i \in 1..Len(h) : Append(h, n)[i] = h[i]
         /\ Append(h, n)[Len(h) + 1] = n
<1>1. /\ h \in Seq(Nat) /\ Len(h) \in Nat
      /\ \A i \in 1..Len(h) : h[i] \in Nat /\ h[i] <= n
      /\ \A i \in 1..Len(h), j \in 1..Len(h) : i <= j => h[i] <= h[j]
  BY BookingFacts
<1>2. PICK y : y = Append(h, n) OBVIOUS
<1>3. /\ y \in Seq(Nat) /\ Len(y) = Len(h) + 1
      /\ \A i \in 1..Len(h) : y[i] = h[i]
      /\ y[Len(h) + 1] = n
  BY <1>1, <1>2
<1>4. \A i \in 1..Len(y) : i \in 1..Len(h) \/ i = Len(h) + 1 BY <1>1, <1>3
<1>5. \A i \in 1..Len(y) : y[i] <= n BY <1>1, <1>3, <1>4
<1>6. ASSUME NEW i \in 1..Len(y), NEW j \in 1..Len(y), i <= j PROVE y[i] <= y[j]
  <2>1. CASE j = Len(h) + 1 BY <1>3, <1>5, <2>1
  <2>2. CASE j \in 1..Len(h)
    <3>1. i \in 1..Len(h) BY <1>1, <1>6, <2>2
    <3> QED BY <1>1, <1>3, <1>6, <2>2, <3>1
  <2> QED BY <1>4, <2>1, <2>2
<1>7. y \in Bookings(n) BY <1>3, <1>5, <1>6 DEF Bookings
<1> QED BY <1>2, <1>3, <1>7

\* The natural numbers are well-ordered.
LEMMA LeastNat ==
  ASSUME NEW S \in SUBSET Nat, S # {}
  PROVE  \E x \in S : \A y \in S : x <= y
<1>1. IsWellFoundedOn({xy \in Nat \X Nat : xy[1] < xy[2]}, Nat)
  BY NatLessThanWellFounded DEF OpToRel
<1>2. PICK x \in S : \A y \in S : <<y, x>> \notin {xy \in Nat \X Nat : xy[1] < xy[2]}
  BY <1>1, WFMin
<1>3. ASSUME NEW y \in S PROVE x <= y
  <2>1. <<y, x>> \notin {xy \in Nat \X Nat : xy[1] < xy[2]} BY <1>2
  <2>2. <<y, x>> \in Nat \X Nat /\ <<y, x>>[1] = y /\ <<y, x>>[2] = x OBVIOUS
  <2>3. ~(y < x) BY <2>1, <2>2
  <2> QED BY <2>3
<1> QED BY <1>3

\* w is h without its first m bookings, those outside the window.
CutAfter(w, h, m) ==
    /\ w \in Seq(Nat) /\ Len(w) = Len(h) - m
    /\ \A i \in 1..(Len(h) - m) : w[i] = h[i + m]
    /\ \A i \in 1..Len(h) : h[i] + Window > now <=> i > m

LEMMA WindowCut ==
  ASSUME NEW n, NEW h \in Bookings(n), now \in Nat
  PROVE  \E m \in 0..Len(h) : CutAfter(InWindow(h), h, m)
<1> DEFINE I == {i \in 1..Len(h) : h[i] + Window > now}
<1>0. /\ h \in Seq(Nat) /\ Len(h) \in Nat /\ Window \in Nat
      /\ \A i \in 1..Len(h) : h[i] \in Nat
      /\ \A i \in 1..Len(h), j \in 1..Len(h) : i <= j => h[i] <= h[j]
  BY BookingFacts, ClientsAssumption
<1>1. SelectInSeq(h, LAMBDA at : at + Window > now) = IF I # {} THEN Min(I) ELSE 0
  BY DEF SelectInSeq
<1>2. ASSUME NEW m \in 0..Len(h), InWindow(h) = SubSeq(h, m + 1, Len(h)),
             \A i \in 1..Len(h) : h[i] + Window > now <=> i > m
      PROVE  CutAfter(InWindow(h), h, m)
  <2>1. SubSeq(h, m + 1, Len(h)) \in Seq(Nat) BY <1>0
  <2>2. Len(SubSeq(h, m + 1, Len(h))) = Len(h) - m BY <1>0
  <2>3. \A i \in 1..(Len(h) - m) : SubSeq(h, m + 1, Len(h))[i] = h[i + m] BY <1>0
  <2> QED BY <1>2, <2>1, <2>2, <2>3 DEF CutAfter
<1>3. CASE I = {}
  <2>1. InWindow(h) = <<>> BY <1>1, <1>3 DEF InWindow
  <2>2. ASSUME NEW i \in 1..Len(h) PROVE h[i] + Window > now <=> i > Len(h)
    <3>1. ~(h[i] + Window > now) BY <1>3
    <3>2. ~(i > Len(h)) BY <1>0
    <3> QED BY <3>1, <3>2
  <2>3. Len(h) \in 0..Len(h) /\ Len(h) - Len(h) = 0 BY <1>0
  <2>4. CutAfter(<<>>, h, Len(h)) BY <2>2, <2>3 DEF CutAfter
  <2> QED BY <2>1, <2>3, <2>4
<1>4. CASE I # {}
  <2>1. I \in SUBSET Nat BY <1>0
  <2>2. \E x \in I : \A y \in I : x <= y BY <1>4, <2>1, LeastNat
  <2>3. Min(I) \in I /\ \A y \in I : Min(I) <= y BY <2>2 DEF Min
  <2> DEFINE f == Min(I)
  <2>4. f \in 1..Len(h) /\ h[f] + Window > now BY <2>3
  <2>5. f # 0 BY <2>4
  <2>6. InWindow(h) = SubSeq(h, f, Len(h)) BY <1>1, <1>4, <2>5 DEF InWindow
  <2>7. \A y \in 1..Len(h) : h[y] + Window > now => f <= y BY <2>3
  <2> HIDE DEF f, I
  <2>8. ASSUME NEW i \in 1..Len(h) PROVE h[i] + Window > now <=> i > f - 1
    <3>1. CASE i >= f
      <4>1. h[f] <= h[i] BY <1>0, <2>4, <3>1
      <4>2. \A j \in 1..Len(h) : h[j] \in Nat BY <1>0
      <4>3. h[f] \in Nat /\ h[i] \in Nat /\ Window \in Nat BY <1>0, <2>4, <4>2
      <4>4. h[i] + Window > now BY <2>4, <4>1, <4>3
      <4>5. i > f - 1 BY <1>0, <2>4, <3>1
      <4> QED BY <4>4, <4>5
    <3>2. CASE i < f BY <1>0, <2>4, <2>7, <3>2
    <3> QED BY <1>0, <2>4, <3>1, <3>2
  <2>9. f - 1 \in 0..Len(h) /\ (f - 1) + 1 = f BY <1>0, <2>4
  <2> QED BY <1>2, <2>6, <2>8, <2>9
<1> QED BY <1>3, <1>4

LEMMA WindowBookings ==
  ASSUME NEW n, NEW h \in Bookings(n), now \in Nat
  PROVE  InWindow(h) \in Bookings(n) /\ Len(InWindow(h)) <= Len(h)
<1>1. PICK w : w = InWindow(h) OBVIOUS
<1>2. PICK m \in 0..Len(h) : CutAfter(w, h, m) BY <1>1, WindowCut
<1>3. /\ Len(h) \in Nat /\ \A i \in 1..Len(h) : h[i] \in Nat /\ h[i] <= n
      /\ \A i \in 1..Len(h), j \in 1..Len(h) : i <= j => h[i] <= h[j]
  BY BookingFacts
<1>4. w \in Seq(Nat) /\ Len(w) = Len(h) - m BY <1>2 DEF CutAfter
<1>5. \A i \in 1..Len(w) : i + m \in 1..Len(h) /\ w[i] = h[i + m]
  BY <1>2, <1>3, <1>4 DEF CutAfter
<1>6. \A i \in 1..Len(w) : w[i] <= n BY <1>3, <1>5
<1>7. ASSUME NEW i \in 1..Len(w), NEW j \in 1..Len(w), i <= j PROVE w[i] <= w[j]
  <2>1. i + m <= j + m BY <1>3, <1>4, <1>7
  <2> QED BY <1>3, <1>5, <2>1
<1>8. w \in Bookings(n) BY <1>4, <1>6, <1>7 DEF Bookings
<1>9. Len(w) <= Len(h) BY <1>3, <1>4
<1> QED BY <1>1, <1>8, <1>9

-----------------------------------------------------------------------------
(* Each recent client of a source has a booking of its own.                  *)

\* The booking f[c] of each client c in R is not older than the registration.
IsBookkeeping(f, h, R, o) ==
    /\ f \in [R -> 1..Len(h)]
    /\ \A c, d \in R : f[c] = f[d] => c = d
    /\ \A c \in R : o[c].at <= h[f[c]]
Covers(h, R, o) == \E f : IsBookkeeping(f, h, R, o)

LEMMA CoversBounds ==
  ASSUME NEW n, NEW h \in Bookings(n), NEW R, NEW o, Covers(h, R, o)
  PROVE  IsFiniteSet(R) /\ Cardinality(R) <= Len(h)
<1>1. PICK f : IsBookkeeping(f, h, R, o) BY DEF Covers
<1>2. f \in Injection(R, 1..Len(h))
  BY <1>1 DEF IsBookkeeping, Injection, IsInjective
<1>3. Len(h) \in Nat BY BookingFacts
<1>4. IsFiniteSet(1..Len(h)) /\ Cardinality(1..Len(h)) = Len(h)
  <2>1. IsFiniteSet(1..Len(h)) /\ Cardinality(1..Len(h)) =
          IF 1 > Len(h) THEN 0 ELSE Len(h) - 1 + 1
    BY <1>3, FS_Interval
  <2> QED BY <1>3, <2>1
<1> QED BY <1>2, <1>4, FS_Injection

LEMMA CoversFewer ==
  ASSUME NEW h, NEW R, NEW o, Covers(h, R, o),
         NEW Q \in SUBSET R, NEW p, \A c \in Q : p[c] = o[c]
  PROVE  Covers(h, Q, p)
<1>1. PICK f : IsBookkeeping(f, h, R, o) BY DEF Covers
<1>2. IsBookkeeping([c \in Q |-> f[c]], h, Q, p) BY <1>1 DEF IsBookkeeping
<1> QED BY <1>2 DEF Covers

LEMMA CoversNobody ==
  ASSUME NEW h, NEW o PROVE Covers(h, {}, o)
<1>1. IsBookkeeping([c \in {} |-> 1], h, {}, o) BY DEF IsBookkeeping
<1> QED BY <1>1 DEF Covers

\* The window drops no booking that a recent client needs.
LEMMA CoversInWindow ==
  ASSUME now \in Nat, NEW n, NEW h \in Bookings(n), NEW R, NEW o, Covers(h, R, o),
         \A c \in R : o[c].at \in Nat /\ o[c].at + Window > now
  PROVE  Covers(InWindow(h), R, o)
<1>1. PICK w : w = InWindow(h) OBVIOUS
<1>2. PICK m \in 0..Len(h) : CutAfter(w, h, m) BY <1>1, WindowCut
<1>3. PICK f : IsBookkeeping(f, h, R, o) BY DEF Covers
<1>4. Len(h) \in Nat /\ Window \in Nat /\ \A i \in 1..Len(h) : h[i] \in Nat
  BY BookingFacts, ClientsAssumption
<1>5. ASSUME NEW c \in R PROVE f[c] - m \in 1..Len(w) /\ w[f[c] - m] = h[f[c]]
  <2>1. PICK i \in 1..Len(h) : i = f[c] BY <1>3 DEF IsBookkeeping
  <2>2. o[c].at <= h[i] BY <1>3, <2>1 DEF IsBookkeeping
  <2>3. h[i] \in Nat /\ o[c].at \in Nat /\ o[c].at + Window > now BY <1>4
  <2>4. h[i] + Window > now BY <1>4, <2>2, <2>3
  <2>5. i > m BY <1>2, <2>4 DEF CutAfter
  <2>6. i - m \in 1..(Len(h) - m) BY <1>4, <2>5
  <2>7. Len(w) = Len(h) - m /\ w[i - m] = h[(i - m) + m] BY <1>2, <2>6 DEF CutAfter
  <2>8. (i - m) + m = i BY <1>4
  <2> QED BY <2>1, <2>6, <2>7, <2>8
<1> DEFINE g == [c \in R |-> f[c] - m]
<1>6. g \in [R -> 1..Len(w)] BY <1>5
<1>7. ASSUME NEW c \in R, NEW d \in R, g[c] = g[d] PROVE c = d
  <2>1. f[c] \in Nat /\ f[d] \in Nat BY <1>3, <1>4 DEF IsBookkeeping
  <2>2. f[c] = f[d] BY <1>7, <2>1
  <2> QED BY <1>3, <2>2 DEF IsBookkeeping
<1>8. \A c \in R : o[c].at <= w[g[c]] BY <1>3, <1>5 DEF IsBookkeeping
<1>9. IsBookkeeping(g, w, R, o) BY <1>6, <1>7, <1>8 DEF IsBookkeeping
<1> QED BY <1>1, <1>9 DEF Covers

\* A client that is entered brings its booking.
LEMMA CoversOneMore ==
  ASSUME NEW n \in Nat, NEW h \in Bookings(n), NEW R, NEW o, Covers(h, R, o),
         NEW c, c \notin R, NEW p, \A d \in R : p[d] = o[d], p[c].at = n
  PROVE  Covers(Append(h, n), R \cup {c}, p)
<1>1. PICK f : IsBookkeeping(f, h, R, o) BY DEF Covers
<1>2. PICK y : y = Append(h, n) OBVIOUS
<1>3. Len(h) \in Nat BY BookingFacts
<1>4. /\ Len(y) = Len(h) + 1
      /\ \A i \in 1..Len(h) : y[i] = h[i]
      /\ y[Len(h) + 1] = n
  BY <1>2, AppendBooking
<1> DEFINE g == [d \in R \cup {c} |-> IF d = c THEN Len(h) + 1 ELSE f[d]]
<1>5. \A d \in R : d # c /\ g[d] = f[d] /\ f[d] \in 1..Len(h)
  BY <1>1 DEF IsBookkeeping
<1>6. g[c] = Len(h) + 1 OBVIOUS
<1>7. g \in [R \cup {c} -> 1..Len(y)] BY <1>3, <1>4, <1>5
<1>8. ASSUME NEW d \in R \cup {c}, NEW e \in R \cup {c}, g[d] = g[e] PROVE d = e
  <2>1. \A x \in R : g[x] # Len(h) + 1 BY <1>3, <1>5
  <2>2. CASE d = c \/ e = c BY <1>6, <1>8, <2>1, <2>2
  <2>3. CASE d \in R /\ e \in R
    <3>1. f[d] = f[e] BY <1>5, <1>8, <2>3
    <3> QED BY <1>1, <2>3, <3>1 DEF IsBookkeeping
  <2> QED BY <2>2, <2>3
<1>9. ASSUME NEW d \in R \cup {c} PROVE p[d].at <= y[g[d]]
  <2>1. CASE d = c BY <1>4, <1>6, <2>1
  <2>2. CASE d \in R
    <3>1. o[d].at <= h[f[d]] BY <1>1, <2>2 DEF IsBookkeeping
    <3>2. y[g[d]] = h[f[d]] BY <1>4, <1>5, <2>2
    <3> QED BY <2>2, <3>1, <3>2
  <2> QED BY <2>1, <2>2
<1> HIDE DEF g
<1>10. IsBookkeeping(g, y, R \cup {c}, p) BY <1>7, <1>8, <1>9 DEF IsBookkeeping
<1> QED BY <1>2, <1>10 DEF Covers

-----------------------------------------------------------------------------
(* The invariant of the registrations.                                       *)

\* The clients of a source whose booking time is in the window.
Recent(s) ==
    {c \in Listed : origin[c].source = s /\ origin[c].at + Window > now}

BookedSources == {s \in Sources : hits[s] # <<>>}

TablesOK ==
    /\ now \in Nat /\ peak \in Nat
    /\ registered = [c \in Clients |-> registered[c]]
    /\ hits = [s \in Sources |-> hits[s]]
    /\ waiting = [r \in Requests |-> waiting[r]]
    /\ Listed \subseteq DOMAIN origin
    /\ \A c \in DOMAIN origin : origin[c].at \in Nat

\* A booking list is in order and no longer than the cap; the one that a waiting
\* registration has read has room for its own booking.
HitsOK ==
    \A s \in Sources : hits[s] \in Bookings(now) /\ Len(hits[s]) <= MaxPerSource

WaitingOK ==
    \A r \in Waiting :
        /\ waiting[r].source \in Sources
        /\ waiting[r].at \in Nat /\ waiting[r].at <= now
        /\ waiting[r].read \in Bookings(waiting[r].at)
        /\ Len(waiting[r].read) < MaxPerSource

\* What is entered and what may still be entered, together, keep to the caps.
Few ==
    /\ IsFiniteSet(Listed) /\ IsFiniteSet(BookedSources) /\ IsFiniteSet(Waiting)
    /\ Cardinality(Waiting) <= peak
    /\ Cardinality(Listed) + Cardinality(Waiting) <= MaxClients - 1 + peak
    /\ Cardinality(BookedSources) + Cardinality(Waiting) <= MaxSources + peak

\* A source that is not excused has one registration waiting at a time, and a
\* booking for each recent client in what is booked and in what that one has read.
Alone ==
    \A q, r \in Waiting :
        waiting[q].source = waiting[r].source /\ waiting[r].source \notin excused => q = r

HitsCover == \A s \in Sources \ excused : Covers(hits[s], Recent(s), origin)

ReadCovers ==
    \A r \in Waiting : waiting[r].source \notin excused =>
        Covers(waiting[r].read, Recent(waiting[r].source), origin)

Registry == TablesOK /\ HitsOK /\ WaitingOK /\ Few /\ Alone /\ HitsCover /\ ReadCovers

LEMMA RegistryAtFirst == ClientsInit => Registry
<1> SUFFICES ASSUME ClientsInit PROVE Registry
  OBVIOUS
<1>1. /\ now = 0 /\ peak = 0 /\ origin = <<>>
      /\ registered = [c \in Clients |-> NotRegistered]
      /\ hits = [s \in Sources |-> <<>>]
      /\ waiting = [r \in Requests |-> Idle]
  BY DEF ClientsInit, Init
<1>2. Listed = {} BY <1>1 DEF Listed
<1>3. BookedSources = {} BY <1>1 DEF BookedSources
<1>4. Waiting = {} BY <1>1 DEF Waiting, Idle
<1>5. TablesOK BY <1>1, <1>2 DEF TablesOK
<1>6. <<>> \in Bookings(0) BY DEF Bookings
<1>7. HitsOK BY <1>1, <1>6, ClientsAssumption DEF HitsOK
<1>8. WaitingOK /\ Alone /\ ReadCovers BY <1>4 DEF WaitingOK, Alone, ReadCovers
<1>9. Few BY <1>1, <1>2, <1>3, <1>4, FS_EmptySet, ClientsAssumption DEF Few
<1>10. \A s : Recent(s) = {} BY <1>2 DEF Recent
<1>11. HitsCover BY <1>10, CoversNobody DEF HitsCover
<1> QED BY <1>5, <1>7, <1>8, <1>9, <1>11 DEF Registry

\* The invariant and the property.
LEMMA RegistryBounds == Registry => RegistrationsBounded
<1> SUFFICES ASSUME Registry PROVE RegistrationsBounded
  OBVIOUS
<1> USE DEF Registry
<1>1. /\ Cardinality(Waiting) \in Nat /\ Cardinality(Listed) \in Nat
      /\ Cardinality(BookedSources) \in Nat /\ peak \in Nat
  BY FS_CardinalityType DEF Few, TablesOK
<1>2. /\ Cardinality(Listed) <= MaxClients - 1 + peak
      /\ Cardinality(BookedSources) <= MaxSources + peak
  BY <1>1, ClientsAssumption DEF Few
<1>3. ASSUME NEW s \in Sources \ excused
      PROVE  Cardinality({c \in Listed : origin[c].source = s /\ origin[c].at + Window > now})
                <= MaxPerSource
  <2>1. hits[s] \in Bookings(now) /\ Len(hits[s]) <= MaxPerSource BY DEF HitsOK
  <2>2. Covers(hits[s], Recent(s), origin) BY DEF HitsCover
  <2>3. IsFiniteSet(Recent(s)) /\ Cardinality(Recent(s)) <= Len(hits[s])
    BY <2>1, <2>2, CoversBounds
  <2>4. Cardinality(Recent(s)) \in Nat BY <2>3, FS_CardinalityType
  <2>5. Len(hits[s]) \in Nat BY <2>1, BookingFacts
  <2>6. Cardinality(Recent(s)) <= MaxPerSource BY <2>1, <2>3, <2>4, <2>5, ClientsAssumption
  <2> QED BY <2>6 DEF Recent
<1> QED BY <1>2, <1>3 DEF RegistrationsBounded, BookedSources

\* What waiting registrations have read covers the clients of their sources as
\* long as these become no more.
LEMMA ReadStays ==
  ASSUME Registry, NEW W \in SUBSET Waiting,
         \A r \in W : waiting'[r] = waiting[r],
         \A r \in W, c \in DOMAIN origin : c \in DOMAIN origin' /\ origin'[c] = origin[c],
         \A r \in W : \A s : s = waiting[r].source /\ s \notin excused'
                                => Recent(s)' \in SUBSET Recent(s),
         excused \subseteq excused'
  PROVE  \A r \in W : waiting'[r].source \notin excused' =>
             Covers(waiting[r].read, Recent(waiting[r].source), origin)'
<1>1. ASSUME NEW r \in W, NEW s, s = waiting[r].source, s \notin excused'
      PROVE  Covers(waiting[r].read, Recent(s)', origin')
  <2>1. Covers(waiting[r].read, Recent(s), origin)
    BY <1>1 DEF Registry, ReadCovers
  <2>2. Recent(s)' \in SUBSET Recent(s) BY <1>1
  <2>3. \A c \in Recent(s)' : origin'[c] = origin[c]
    BY <2>2 DEF Recent, Registry, TablesOK
  <2> QED BY <2>1, <2>2, <2>3, CoversFewer
<1>2. ASSUME NEW r \in W PROVE waiting'[r].source \notin excused' =>
          Covers(waiting[r].read, Recent(waiting[r].source), origin)'
  <2>1. PICK s : s = waiting[r].source OBVIOUS
  <2>2. s \notin excused' => Covers(waiting[r].read, Recent(s)', origin')
    BY <1>1, <2>1
  <2>3. waiting'[r].source = s /\ waiting'[r].read = waiting[r].read BY <2>1
  <2> QED BY <2>2, <2>3
<1> QED BY <1>2

\* Registrations may go and time may pass.
LEMMA RegistryQuiet ==
  ASSUME Registry, UNCHANGED <<hits, waiting, origin, peak, excused>>,
         registered' = [c \in Clients |-> registered'[c]],
         Listed' \subseteq Listed, now' \in Nat, now <= now'
  PROVE  Registry'
<1> USE DEF Registry
<1>1. TablesOK' BY DEF TablesOK
<1>2. Waiting' = Waiting BY DEF Waiting
<1>3. now \in Nat BY DEF TablesOK
<1>4. HitsOK' BY <1>3, LaterBookings DEF HitsOK
<1>5. WaitingOK' BY <1>2, <1>3 DEF WaitingOK
<1>6. Alone' BY <1>2 DEF Alone
<1>7. ASSUME NEW s PROVE Recent(s)' \in SUBSET Recent(s)
  <2>1. ASSUME NEW c \in Listed', origin[c].at + Window > now'
        PROVE  origin[c].at + Window > now
    <3>1. origin[c].at \in Nat /\ Window \in Nat BY ClientsAssumption DEF TablesOK
    <3>2. PICK t \in Nat : t = origin[c].at BY <3>1
    <3> QED BY <1>3, <2>1, <3>1, <3>2
  <2> QED BY <2>1 DEF Recent
<1>8. HitsCover'
  <2>1. ASSUME NEW s \in Sources \ excused PROVE Covers(hits[s], Recent(s)', origin)
    <3>1. Covers(hits[s], Recent(s), origin) BY DEF HitsCover
    <3> QED BY <1>7, <3>1, CoversFewer
  <2> QED BY <2>1 DEF HitsCover
<1>9. ReadCovers'
  <2>1. \A r \in Waiting : waiting'[r].source \notin excused' =>
            Covers(waiting[r].read, Recent(waiting[r].source), origin)'
    BY <1>7, ReadStays
  <2> QED BY <1>2, <2>1 DEF ReadCovers
<1>10. Few'
  <2>1. BookedSources' = BookedSources BY DEF BookedSources
  <2>2. IsFiniteSet(Listed') /\ Cardinality(Listed') <= Cardinality(Listed)
    BY FS_Subset DEF Few
  <2>3. /\ Cardinality(Waiting) \in Nat /\ Cardinality(Listed) \in Nat
        /\ Cardinality(Listed') \in Nat /\ peak \in Nat /\ MaxClients \in Nat
    BY <2>2, FS_CardinalityType, ClientsAssumption DEF Few, TablesOK
  <2>4. Cardinality(Listed') + Cardinality(Waiting) <= MaxClients - 1 + peak
    BY <2>2, <2>3 DEF Few
  <2> QED BY <1>2, <2>1, <2>2, <2>4 DEF Few
<1> QED BY <1>1, <1>4, <1>5, <1>6, <1>8, <1>9, <1>10

\* What a registration that finds room prunes, keeping the bookings of K.
PruneFacts(K) ==
    /\ K \subseteq Active
    /\ registered' = CurrentClients /\ hits' = CurrentHits(K)
    /\ excused \cup (Active \ K) \subseteq excused'

LEMMA PrunedClients ==
  ASSUME Registry, registered' = CurrentClients
  PROVE  /\ registered' = [c \in Clients |-> registered'[c]]
         /\ Listed' \subseteq Listed
         /\ Listed' = Listed \ {c \in Clients : Overdue(c)}
<1>1. registered' = [c \in Clients |-> IF Overdue(c) THEN NotRegistered ELSE registered[c]]
  BY DEF CurrentClients
<1>2. registered' = [c \in Clients |-> registered'[c]] BY <1>1
<1>3. \A c \in Clients : registered'[c] = NotRegistered <=>
          Overdue(c) \/ registered[c] = NotRegistered
  BY <1>1
<1> QED BY <1>2, <1>3 DEF Listed

LEMMA PrunedHits ==
  ASSUME Registry, NEW K, PruneFacts(K), UNCHANGED <<now, origin>>
  PROVE  /\ hits' = [s \in Sources |-> hits'[s]]
         /\ HitsOK'
         /\ \A s \in Sources \ excused' : Covers(hits'[s], Recent(s)', origin)
         /\ BookedSources' = K /\ K \subseteq BookedSources
<1> USE DEF Registry
<1>1. now \in Nat BY DEF TablesOK
<1>2. hits' = [s \in Sources |-> IF s \in K THEN InWindow(hits[s]) ELSE <<>>]
  BY DEF PruneFacts, CurrentHits
<1>3. hits' = [s \in Sources |-> hits'[s]] BY <1>2
<1>4. \A s \in Sources : hits[s] \in Bookings(now) /\ Len(hits[s]) <= MaxPerSource
  BY DEF HitsOK
<1>5. Listed' \subseteq Listed BY PrunedClients DEF PruneFacts
<1>6. \A s : Recent(s)' \in SUBSET Recent(s) BY <1>5 DEF Recent
<1>7. <<>> \in Bookings(now) /\ Len(<<>>) <= MaxPerSource
  BY <1>1, ClientsAssumption DEF Bookings
<1>8. HitsOK'
  <2>1. ASSUME NEW s \in Sources
        PROVE  InWindow(hits[s]) \in Bookings(now) /\ Len(InWindow(hits[s])) <= MaxPerSource
    <3>1. InWindow(hits[s]) \in Bookings(now) /\ Len(InWindow(hits[s])) <= Len(hits[s])
      BY <1>1, <1>4, WindowBookings
    <3>2. Len(InWindow(hits[s])) \in Nat /\ Len(hits[s]) \in Nat
      BY <1>4, <3>1, BookingFacts
    <3> QED BY <1>4, <3>1, <3>2, ClientsAssumption
  <2>2. ASSUME NEW s \in Sources
        PROVE  hits'[s] \in Bookings(now) /\ Len(hits'[s]) <= MaxPerSource
    <3>1. CASE s \in K BY <1>2, <2>1, <3>1
    <3>2. CASE s \notin K BY <1>2, <1>7, <3>2
    <3> QED BY <3>1, <3>2
  <2> QED BY <2>2 DEF HitsOK
<1>9. ASSUME NEW s \in Sources \ excused'
      PROVE  Covers(hits'[s], Recent(s)', origin)
  <2>1. Covers(hits[s], Recent(s), origin) BY <1>9 DEF HitsCover, PruneFacts
  <2>2. \A c \in Recent(s) : origin[c].at \in Nat /\ origin[c].at + Window > now
    BY DEF Recent, TablesOK
  <2>3. Covers(InWindow(hits[s]), Recent(s), origin)
    BY <1>1, <1>4, <2>1, <2>2, CoversInWindow
  <2>4. hits'[s] = InWindow(hits[s])
    <3>1. CASE s \in K BY <1>2, <3>1
    <3>2. CASE s \notin K
      <4>1. s \notin Active BY <1>9, <3>2 DEF PruneFacts
      <4>2. InWindow(hits[s]) = <<>> BY <4>1 DEF Active
      <4> QED BY <1>2, <3>2, <4>2
    <3> QED BY <3>1, <3>2
  <2> QED BY <1>6, <2>3, <2>4, CoversFewer
<1>10. BookedSources' = K
  <2>1. \A s \in K : s \in Sources /\ InWindow(hits[s]) # <<>> BY DEF PruneFacts, Active
  <2>2. \A s \in Sources : hits'[s] # <<>> <=> s \in K BY <1>2, <2>1
  <2> QED BY <2>1, <2>2 DEF BookedSources
<1>11. K \subseteq BookedSources
  <2>1. ASSUME NEW s \in K PROVE hits[s] # <<>>
    <3>1. s \in Sources /\ InWindow(hits[s]) # <<>> BY DEF PruneFacts, Active
    <3>2. InWindow(<<>>) = <<>>
      <4>1. <<>> \in Bookings(now) BY <1>7
      <4>2. PICK w : w = InWindow(<<>>) OBVIOUS
      <4>3. w \in Bookings(now) /\ Len(w) <= Len(<<>>) BY <1>1, <4>1, <4>2, WindowBookings
      <4>4. w \in Seq(Nat) /\ Len(w) \in Nat BY <4>3, BookingFacts
      <4>5. Len(w) = 0 BY <4>3, <4>4
      <4> QED BY <4>2, <4>4, <4>5
    <3> QED BY <3>1, <3>2
  <2> QED BY <2>1 DEF BookedSources, PruneFacts, Active
<1> QED BY <1>3, <1>8, <1>9, <1>10, <1>11

LEMMA KeptFew ==
  ASSUME Registry, NEW K \in KeptSources, K \subseteq BookedSources
  PROVE  IsFiniteSet(K) /\ Cardinality(K) \in Nat /\ Cardinality(K) <= MaxSources
<1>1. IsFiniteSet(BookedSources) BY DEF Registry, Few
<1>2. IsFiniteSet(K) /\ Cardinality(K) \in Nat BY <1>1, FS_Subset, FS_CardinalityType
<1>3. Cardinality(K) <= MaxSources BY <1>2, ClientsAssumption DEF KeptSources
<1> QED BY <1>2, <1>3

\* 429: both tables are pruned, and nothing waits that did not.
LEMMA ThrottledPreserves ==
  ASSUME Registry, UNCHANGED vars, NEW s \in Sources, RegisterThrottled(s)
  PROVE  Registry'
<1> USE DEF Registry
<1>1. PICK K \in KeptSources :
         /\ Prunes(K) /\ excused' = excused \cup (Active \ K)
         /\ UNCHANGED <<waiting, origin, peak>>
  BY DEF RegisterThrottled
<1>2. UNCHANGED <<now, origin, waiting, peak>> BY <1>1 DEF vars
<1>3. PruneFacts(K) BY <1>1 DEF PruneFacts, Prunes, KeptSources
<1>4. /\ hits' = [t \in Sources |-> hits'[t]]
      /\ HitsOK'
      /\ \A t \in Sources \ excused' : Covers(hits'[t], Recent(t)', origin)
      /\ BookedSources' = K /\ K \subseteq BookedSources
  BY <1>2, <1>3, PrunedHits
<1>5. /\ registered' = [c \in Clients |-> registered'[c]]
      /\ Listed' \subseteq Listed
  BY <1>3, PrunedClients DEF PruneFacts
<1>6. Waiting' = Waiting BY <1>2 DEF Waiting
<1>7. TablesOK' BY <1>2, <1>4, <1>5 DEF TablesOK
<1>8. WaitingOK' BY <1>2, <1>6 DEF WaitingOK
<1>9. excused \subseteq excused' BY <1>1
<1>10. Alone' BY <1>2, <1>6, <1>9 DEF Alone
<1>11. HitsCover' BY <1>2, <1>4 DEF HitsCover
<1>12. ReadCovers'
  <2>1. \A t : Recent(t)' \in SUBSET Recent(t) BY <1>2, <1>5 DEF Recent
  <2>2. \A r \in Waiting : waiting'[r].source \notin excused' =>
            Covers(waiting[r].read, Recent(waiting[r].source), origin)'
    BY <1>2, <1>9, <2>1, ReadStays
  <2> QED BY <1>6, <2>2 DEF ReadCovers
<1>13. Few'
  <2>1. /\ IsFiniteSet(K) /\ Cardinality(K) \in Nat /\ Cardinality(K) <= MaxSources
    BY <1>4, KeptFew
  <2>2. IsFiniteSet(Listed') /\ Cardinality(Listed') <= Cardinality(Listed)
    BY <1>5, FS_Subset DEF Few
  <2>3. /\ Cardinality(Waiting) \in Nat /\ Cardinality(Listed) \in Nat
        /\ Cardinality(Listed') \in Nat /\ peak \in Nat
        /\ MaxClients \in Nat /\ MaxSources \in Nat
    BY <2>2, FS_CardinalityType, ClientsAssumption DEF Few, TablesOK
  <2>4. Cardinality(Listed') + Cardinality(Waiting) <= MaxClients - 1 + peak
    BY <2>2, <2>3 DEF Few
  <2>5. Cardinality(K) + Cardinality(Waiting) <= MaxSources + peak
    BY <2>1, <2>3 DEF Few
  <2> QED BY <1>2, <1>4, <1>6, <2>1, <2>2, <2>4, <2>5 DEF Few
<1> QED BY <1>7, <1>4, <1>8, <1>10, <1>11, <1>12, <1>13

LEMMA SuspendedFields ==
  \A s, h, n : /\ Suspended(s, h, n).active = TRUE /\ Suspended(s, h, n).source = s
               /\ Suspended(s, h, n).read = h /\ Suspended(s, h, n).at = n
BY DEF Suspended

\* A registration begins to wait; if one of its source waits already, the source
\* is excused.
LEMMA BeginPreserves ==
  ASSUME Registry, UNCHANGED vars, NEW r \in Requests, NEW s \in Sources,
         RegisterBegin(r, s)
  PROVE  Registry'
<1> USE DEF Registry
<1>1. PICK K \in KeptSources :
         /\ r \notin Waiting /\ Prunes(K)
         /\ Len(CurrentHits(K)[s]) < MaxPerSource
         /\ waiting' = [waiting EXCEPT ![r] = Suspended(s, CurrentHits(K)[s], now)]
         /\ peak' = IF Cardinality(Waiting) + 1 > peak THEN peak + 1 ELSE peak
         /\ excused' = excused \cup (Active \ K)
                         \cup {t \in {s} : \E q \in Waiting : waiting[q].source = s}
         /\ UNCHANGED origin
  BY DEF RegisterBegin
<1>2. UNCHANGED <<now, origin>> BY <1>1 DEF vars
<1>3. PruneFacts(K) BY <1>1 DEF PruneFacts, Prunes, KeptSources
<1>4. /\ hits' = [t \in Sources |-> hits'[t]]
      /\ HitsOK'
      /\ \A t \in Sources \ excused' : Covers(hits'[t], Recent(t)', origin)
      /\ BookedSources' = K /\ K \subseteq BookedSources
  BY <1>2, <1>3, PrunedHits
<1>5. /\ registered' = [c \in Clients |-> registered'[c]]
      /\ Listed' \subseteq Listed
      /\ Listed' = Listed \ {c \in Clients : Overdue(c)}
  BY <1>3, PrunedClients DEF PruneFacts
<1>6. /\ waiting' = [q \in Requests |-> waiting'[q]]
      /\ waiting'[r] = Suspended(s, hits'[s], now)
      /\ \A q \in Requests \ {r} : waiting'[q] = waiting[q]
  BY <1>1, <1>3 DEF TablesOK, PruneFacts
<1>7. Waiting' = Waiting \cup {r} BY <1>6, SuspendedFields DEF Waiting
<1>8. \A q \in Waiting : q # r /\ waiting'[q] = waiting[q] BY <1>1, <1>6 DEF Waiting
<1>9. /\ waiting'[r].source = s /\ waiting'[r].at = now /\ waiting'[r].read = hits'[s]
  BY <1>6, SuspendedFields
<1>10. /\ IsFiniteSet(Waiting') /\ Cardinality(Waiting') = Cardinality(Waiting) + 1
       /\ Cardinality(Waiting) \in Nat
  BY <1>1, <1>7, FS_AddElement, FS_CardinalityType DEF Few
<1>11. peak \in Nat /\ peak' \in Nat /\ Cardinality(Waiting') <= peak'
  <2>1. peak \in Nat /\ Cardinality(Waiting) <= peak BY DEF TablesOK, Few
  <2> QED BY <1>1, <1>10, <2>1
<1>12. TablesOK' BY <1>2, <1>4, <1>5, <1>6, <1>11 DEF TablesOK
<1>13. WaitingOK'
  <2>1. hits'[s] \in Bookings(now) BY <1>2, <1>4 DEF HitsOK
  <2>2. Len(hits'[s]) < MaxPerSource /\ now \in Nat BY <1>1, <1>3 DEF PruneFacts, TablesOK
  <2>3. ASSUME NEW q \in Waiting'
        PROVE  /\ waiting'[q].source \in Sources
               /\ waiting'[q].at \in Nat /\ waiting'[q].at <= now'
               /\ waiting'[q].read \in Bookings(waiting'[q].at)
               /\ Len(waiting'[q].read) < MaxPerSource
    <3>1. CASE q = r BY <1>2, <1>9, <2>1, <2>2, <3>1
    <3>2. CASE q \in Waiting BY <1>2, <1>8, <3>2 DEF WaitingOK
    <3> QED BY <1>7, <3>1, <3>2
  <2> QED BY <2>3 DEF WaitingOK
<1>14. excused \subseteq excused' BY <1>1
<1>15. Alone'
  <2>1. ASSUME NEW q \in Waiting, waiting[q].source = s PROVE s \in excused' BY <1>1, <2>1
  <2>2. ASSUME NEW p \in Waiting', NEW q \in Waiting',
               waiting'[p].source = waiting'[q].source, waiting'[q].source \notin excused'
        PROVE  p = q
    <3>1. CASE p = r /\ q \in Waiting BY <1>8, <1>9, <2>1, <2>2, <3>1
    <3>2. CASE q = r /\ p \in Waiting BY <1>8, <1>9, <2>1, <2>2, <3>2
    <3>3. CASE p \in Waiting /\ q \in Waiting BY <1>8, <1>14, <2>2, <3>3 DEF Alone
    <3> QED BY <1>7, <3>1, <3>2, <3>3
  <2> QED BY <2>2 DEF Alone
<1>16. HitsCover' BY <1>2, <1>4 DEF HitsCover
<1>17. ReadCovers'
  <2>1. \A t : Recent(t)' \in SUBSET Recent(t) BY <1>2, <1>5 DEF Recent
  <2>2. \A q \in Waiting : waiting'[q].source \notin excused' =>
            Covers(waiting[q].read, Recent(waiting[q].source), origin)'
    BY <1>2, <1>8, <1>14, <2>1, ReadStays
  <2>3. waiting'[r].source \notin excused' =>
            Covers(waiting[r].read, Recent(waiting[r].source), origin)'
    BY <1>2, <1>4, <1>9
  <2> QED BY <1>7, <2>2, <2>3 DEF ReadCovers
<1>18. Few'
  <2>1. /\ IsFiniteSet(K) /\ Cardinality(K) \in Nat /\ Cardinality(K) <= MaxSources
    BY <1>4, KeptFew
  <2>2. IsFiniteSet(Listed') /\ Cardinality(Listed') \in Nat
    BY <1>5, FS_Subset, FS_CardinalityType DEF Few
  <2>3. Cardinality(Listed') < MaxClients BY <1>1, <1>5 DEF Prunes
  <2>4. Cardinality(Waiting') \in Nat BY <1>10
  <2>5. Cardinality(Listed') + Cardinality(Waiting') <= MaxClients - 1 + peak'
    BY <1>11, <2>2, <2>3, <2>4, ClientsAssumption
  <2>6. Cardinality(K) + Cardinality(Waiting') <= MaxSources + peak'
    BY <1>11, <2>1, <2>4, ClientsAssumption
  <2> QED BY <1>4, <1>10, <1>11, <2>1, <2>2, <2>5, <2>6 DEF Few
<1> QED BY <1>12, <1>4, <1>13, <1>15, <1>16, <1>17, <1>18

\* A registration that has waited is entered and booked.
LEMMA EndPreserves ==
  ASSUME Registry, UNCHANGED vars, NEW r \in Requests, NEW c \in Clients, NEW uris,
         RegisterEnd(r, c, uris)
  PROVE  Registry'
<1> USE DEF Registry
<1>1. PICK s, h, n : s = waiting[r].source /\ h = waiting[r].read /\ n = waiting[r].at
  OBVIOUS
<1>2. /\ r \in Waiting /\ c \notin DOMAIN origin
      /\ registered' = [registered EXCEPT ![c] = ClientRecord(uris, now + ClientTTL)]
      /\ hits' = [hits EXCEPT ![s] = Append(h, n)]
      /\ waiting' = [waiting EXCEPT ![r] = Idle]
      /\ origin' = [d \in DOMAIN origin \cup {c} |->
                       IF d = c THEN [source |-> s, at |-> n] ELSE origin[d]]
      /\ UNCHANGED <<peak, excused, now>>
  BY <1>1 DEF RegisterEnd, Booked, vars
<1>3. /\ s \in Sources /\ n \in Nat /\ n <= now /\ now \in Nat
      /\ h \in Bookings(n) /\ Len(h) < MaxPerSource
  BY <1>1, <1>2 DEF WaitingOK, TablesOK
<1>4. c \notin Listed BY <1>2 DEF TablesOK
<1>5. /\ registered' = [d \in Clients |-> registered'[d]]
      /\ \A d \in Clients \ {c} : registered'[d] = registered[d]
  BY <1>2 DEF TablesOK
<1>6. Listed' \subseteq Listed \cup {c} BY <1>5 DEF Listed
<1>7. /\ hits' = [t \in Sources |-> hits'[t]] /\ hits'[s] = Append(h, n)
      /\ \A t \in Sources \ {s} : hits'[t] = hits[t]
  BY <1>2, <1>3 DEF TablesOK
<1>8. /\ waiting' = [q \in Requests |-> waiting'[q]] /\ waiting'[r] = Idle
      /\ \A q \in Requests \ {r} : waiting'[q] = waiting[q]
  BY <1>2 DEF TablesOK
<1>9. Waiting' = Waiting \ {r} BY <1>8 DEF Waiting, Idle
<1>10. \A q \in Waiting' : q \in Waiting /\ q # r /\ waiting'[q] = waiting[q]
  BY <1>8, <1>9 DEF Waiting
<1>11. /\ DOMAIN origin' = DOMAIN origin \cup {c}
       /\ \A d \in DOMAIN origin : origin'[d] = origin[d]
       /\ origin'[c].source = s /\ origin'[c].at = n
  BY <1>2
<1>12. TablesOK'
  <2>1. Listed' \subseteq DOMAIN origin' BY <1>6, <1>11 DEF TablesOK
  <2>2. \A d \in DOMAIN origin' : origin'[d].at \in Nat BY <1>3, <1>11 DEF TablesOK
  <2> QED BY <1>2, <1>5, <1>7, <1>8, <2>1, <2>2 DEF TablesOK
<1>13. HitsOK'
  <2>1. Append(h, n) \in Bookings(n) /\ Len(Append(h, n)) = Len(h) + 1
    BY <1>3, AppendBooking
  <2>2. Append(h, n) \in Bookings(now) BY <1>3, <2>1, LaterBookings
  <2>3. Len(h) \in Nat BY <1>3, BookingFacts
  <2>4. Len(Append(h, n)) <= MaxPerSource BY <1>3, <2>1, <2>3, ClientsAssumption
  <2>5. ASSUME NEW t \in Sources
        PROVE  hits'[t] \in Bookings(now) /\ Len(hits'[t]) <= MaxPerSource
    <3>1. CASE t = s BY <1>7, <2>2, <2>4, <3>1
    <3>2. CASE t # s BY <1>7, <3>2 DEF HitsOK
    <3> QED BY <3>1, <3>2
  <2> QED BY <1>2, <2>5 DEF HitsOK
<1>14. WaitingOK' BY <1>2, <1>10 DEF WaitingOK
<1>15. Alone' BY <1>2, <1>10 DEF Alone
<1>16. ASSUME NEW t, t # s PROVE Recent(t)' \in SUBSET Recent(t)
  BY <1>2, <1>6, <1>11, <1>16 DEF Recent, TablesOK
<1>17. Recent(s)' \subseteq Recent(s) \cup {c}
  BY <1>2, <1>6, <1>11 DEF Recent, TablesOK
<1>18. HitsCover'
  <2>1. ASSUME s \notin excused PROVE Covers(hits'[s], Recent(s)', origin')
    <3>1. Covers(h, Recent(s), origin) BY <1>1, <1>2, <2>1 DEF ReadCovers
    <3>2. c \notin Recent(s) BY <1>4 DEF Recent
    <3>3. \A d \in Recent(s) : origin'[d] = origin[d] BY <1>11 DEF Recent, TablesOK
    <3>4. Covers(Append(h, n), Recent(s) \cup {c}, origin')
      BY <1>3, <1>11, <3>1, <3>2, <3>3, CoversOneMore
    <3> QED BY <1>7, <1>17, <3>4, CoversFewer
  <2>2. ASSUME NEW t \in Sources \ excused, t # s
        PROVE  Covers(hits'[t], Recent(t)', origin')
    <3>1. Covers(hits[t], Recent(t), origin) BY DEF HitsCover
    <3>2. \A d \in Recent(t)' : origin'[d] = origin[d]
      BY <1>11, <1>16, <2>2 DEF Recent, TablesOK
    <3> QED BY <1>7, <1>16, <2>2, <3>1, <3>2, CoversFewer
  <2> QED BY <1>2, <2>1, <2>2 DEF HitsCover
<1>19. ReadCovers'
  <2>1. ASSUME NEW q \in Waiting', NEW t, t = waiting[q].source, t \notin excused'
        PROVE  Recent(t)' \in SUBSET Recent(t)
    <3>1. t # s BY <1>1, <1>2, <1>10, <2>1 DEF Alone
    <3> QED BY <1>16, <3>1
  <2>2. Waiting' \in SUBSET Waiting BY <1>9
  <2>3. \A q \in Waiting' : waiting'[q].source \notin excused' =>
            Covers(waiting[q].read, Recent(waiting[q].source), origin)'
    BY <1>2, <1>10, <1>11, <2>1, <2>2, ReadStays
  <2> QED BY <2>3 DEF ReadCovers
<1>20. Few'
  <2>1. /\ IsFiniteSet(Waiting') /\ Cardinality(Waiting') = Cardinality(Waiting) - 1
        /\ Cardinality(Waiting) \in Nat /\ Cardinality(Waiting') \in Nat
    BY <1>2, <1>9, FS_RemoveElement, FS_CardinalityType DEF Few
  <2>2. /\ IsFiniteSet(Listed') /\ Cardinality(Listed') <= Cardinality(Listed) + 1
        /\ Cardinality(Listed') \in Nat /\ Cardinality(Listed) \in Nat
    <3>1. /\ IsFiniteSet(Listed \cup {c})
          /\ Cardinality(Listed \cup {c}) = Cardinality(Listed) + 1
      BY <1>4, FS_AddElement DEF Few
    <3> QED BY <1>6, <3>1, FS_Subset, FS_CardinalityType DEF Few
  <2>3. BookedSources' \subseteq BookedSources \cup {s} BY <1>7 DEF BookedSources
  <2>4. /\ IsFiniteSet(BookedSources')
        /\ Cardinality(BookedSources') <= Cardinality(BookedSources) + 1
        /\ Cardinality(BookedSources') \in Nat /\ Cardinality(BookedSources) \in Nat
    <3>1. PICK B : B = BookedSources \cup {s} OBVIOUS
    <3>2. /\ IsFiniteSet(B) /\ Cardinality(BookedSources) \in Nat
          /\ Cardinality(B) = IF s \in BookedSources THEN Cardinality(BookedSources)
                                                   ELSE Cardinality(BookedSources) + 1
      BY <3>1, FS_AddElement, FS_CardinalityType DEF Few
    <3>3. /\ IsFiniteSet(BookedSources') /\ Cardinality(BookedSources') <= Cardinality(B)
          /\ Cardinality(BookedSources') \in Nat
      BY <2>3, <3>1, <3>2, FS_Subset, FS_CardinalityType
    <3> QED BY <3>2, <3>3
  <2>5. peak \in Nat /\ peak' = peak BY <1>2 DEF TablesOK
  <2>6. Cardinality(Waiting') <= peak BY <2>1, <2>5 DEF Few
  <2>7. Cardinality(Listed') + Cardinality(Waiting') <= MaxClients - 1 + peak
    BY <2>1, <2>2, <2>5, ClientsAssumption DEF Few
  <2>8. Cardinality(BookedSources') + Cardinality(Waiting') <= MaxSources + peak
    BY <2>1, <2>4, <2>5, ClientsAssumption DEF Few
  <2> QED BY <2>1, <2>2, <2>4, <2>5, <2>6, <2>7, <2>8 DEF Few
<1> QED BY <1>12, <1>13, <1>14, <1>15, <1>18, <1>19, <1>20

\* A registration that waits no more leaves everything else.
LEMMA FailsPreserves ==
  ASSUME Registry, UNCHANGED vars, NEW r \in Requests, RegisterFails(r)
  PROVE  Registry'
<1> USE DEF Registry
<1>1. /\ r \in Waiting /\ waiting' = [waiting EXCEPT ![r] = Idle]
      /\ UNCHANGED <<registered, hits, origin, peak, excused, now>>
  BY DEF RegisterFails, vars
<1>2. /\ waiting' = [q \in Requests |-> waiting'[q]] /\ waiting'[r] = Idle
      /\ \A q \in Requests \ {r} : waiting'[q] = waiting[q]
  BY <1>1 DEF TablesOK
<1>3. Waiting' = Waiting \ {r} BY <1>2 DEF Waiting, Idle
<1>4. \A q \in Waiting' : q \in Waiting /\ waiting'[q] = waiting[q]
  BY <1>2, <1>3 DEF Waiting
<1>5. Listed' = Listed /\ BookedSources' = BookedSources
  BY <1>1 DEF Listed, BookedSources
<1>6. \A s : Recent(s)' = Recent(s) BY <1>1, <1>5 DEF Recent
<1>7. TablesOK' BY <1>1, <1>2, <1>5 DEF TablesOK
<1>8. HitsOK' BY <1>1 DEF HitsOK
<1>9. WaitingOK' BY <1>1, <1>4 DEF WaitingOK
<1>10. Alone' BY <1>1, <1>4 DEF Alone
<1>11. HitsCover' BY <1>1, <1>6 DEF HitsCover
<1>12. ReadCovers'
  <2>1. Waiting' \in SUBSET Waiting BY <1>3
  <2>2. \A q \in Waiting' : waiting'[q].source \notin excused' =>
            Covers(waiting[q].read, Recent(waiting[q].source), origin)'
    BY <1>1, <1>4, <1>6, <2>1, ReadStays
  <2> QED BY <2>2 DEF ReadCovers
<1>13. Few'
  <2>1. /\ IsFiniteSet(Waiting') /\ Cardinality(Waiting') = Cardinality(Waiting) - 1
        /\ Cardinality(Waiting) \in Nat /\ Cardinality(Listed) \in Nat
        /\ Cardinality(BookedSources) \in Nat /\ peak \in Nat
    BY <1>1, <1>3, FS_RemoveElement, FS_CardinalityType DEF Few, TablesOK
  <2>2. /\ Cardinality(Waiting') <= peak
        /\ Cardinality(Listed) + Cardinality(Waiting') <= MaxClients - 1 + peak
        /\ Cardinality(BookedSources) + Cardinality(Waiting') <= MaxSources + peak
    BY <2>1, ClientsAssumption DEF Few
  <2> QED BY <1>1, <1>5, <2>1, <2>2 DEF Few
<1> QED BY <1>7, <1>8, <1>9, <1>10, <1>11, <1>12, <1>13

LEMMA RestartEmpties ==
  ASSUME Registry, ClientsRestart PROVE Registry'
<1> USE DEF Registry
<1>1. /\ registered' = [c \in Clients |-> NotRegistered]
      /\ hits' = [s \in Sources |-> <<>>]
      /\ waiting' = [r \in Requests |-> Idle]
      /\ peak' = 0 /\ UNCHANGED <<origin, now>>
  BY DEF ClientsRestart, Restart
<1>2. Listed' = {} BY <1>1 DEF Listed
<1>3. BookedSources' = {} BY <1>1 DEF BookedSources
<1>4. Waiting' = {} BY <1>1 DEF Waiting, Idle
<1>5. now \in Nat BY DEF TablesOK
<1>6. TablesOK' BY <1>1, <1>2 DEF TablesOK
<1>7. <<>> \in Bookings(now) BY DEF Bookings
<1>8. HitsOK' BY <1>1, <1>7, ClientsAssumption DEF HitsOK
<1>9. WaitingOK' /\ Alone' /\ ReadCovers' BY <1>4 DEF WaitingOK, Alone, ReadCovers
<1>10. Few' BY <1>1, <1>2, <1>3, <1>4, FS_EmptySet, ClientsAssumption DEF Few
<1>11. \A s : Recent(s)' = {} BY <1>2 DEF Recent
<1>12. HitsCover' BY <1>11, CoversNobody DEF HitsCover
<1> QED BY <1>6, <1>8, <1>9, <1>10, <1>12

\* The consent form drops at most a registration.
LEMMA LookUpPreserves ==
  ASSUME Registry, NEW id, LooksUp(id), UNCHANGED now PROVE Registry'
<1>1. registered' = IF Overdue(id) THEN [registered EXCEPT ![id] = NotRegistered]
                                   ELSE registered
  BY DEF LooksUp
<1>2. registered' = [c \in Clients |-> registered'[c]]
  BY <1>1 DEF Registry, TablesOK
<1>3. Listed' \subseteq Listed BY <1>1 DEF Listed, Registry, TablesOK
<1>4. now' \in Nat /\ now <= now' BY DEF Registry, TablesOK
<1> QED BY <1>2, <1>3, <1>4, RegistryQuiet DEF LooksUp

LEMMA TimePasses ==
  ASSUME Registry, UNCHANGED clientVars, now' = now \/ now' = now + 1
  PROVE  Registry'
<1>1. now' \in Nat /\ now <= now' BY DEF Registry, TablesOK
<1>2. Listed' \subseteq Listed BY DEF Listed, clientVars
<1>3. registered' = [c \in Clients |-> registered'[c]]
  BY DEF Registry, TablesOK, clientVars
<1> QED BY <1>1, <1>2, <1>3, RegistryQuiet DEF clientVars

LEMMA RegistryPreserved ==
  ASSUME Registry, [ClientsNext]_<<vars, clientVars>> PROVE Registry'
<1>1. ASSUME NEW id \in AnyClient, ShowForm(id) PROVE Registry'
  BY <1>1, LookUpPreserves DEF ShowForm, vars
<1>2. ASSUME NEW id \in AnyClient, SubmitForm(id) PROVE Registry'
  <2>1. UNCHANGED now BY <1>2 DEF SubmitForm, AuthorizeFull, Authorize
  <2> QED BY <1>2, <2>1, LookUpPreserves DEF SubmitForm
<1>3. CASE Registration
  <2>1. CASE RegisterFull
    <3>1. registered' = CurrentClients /\ UNCHANGED <<hits, waiting, origin, peak, excused, now>>
      BY <1>3, <2>1 DEF RegisterFull, Registration, vars
    <3>2. registered' = [c \in Clients |-> registered'[c]] /\ Listed' \subseteq Listed
      BY <3>1, PrunedClients
    <3>3. now' \in Nat /\ now <= now' BY <3>1 DEF Registry, TablesOK
    <3> QED BY <3>1, <3>2, <3>3, RegistryQuiet
  <2>2. ASSUME NEW s \in Sources, RegisterThrottled(s) PROVE Registry'
    BY <1>3, <2>2, ThrottledPreserves DEF Registration
  <2>3. ASSUME NEW r \in Requests, NEW s \in Sources, RegisterBegin(r, s) PROVE Registry'
    BY <1>3, <2>3, BeginPreserves DEF Registration
  <2>4. ASSUME NEW r \in Requests, NEW c \in Clients,
               NEW uris \in (SUBSET Uris) \ {{}}, RegisterEnd(r, c, uris)
        PROVE Registry'
    BY <1>3, <2>4, EndPreserves DEF Registration
  <2>5. ASSUME NEW r \in Requests, RegisterFails(r) PROVE Registry'
    BY <1>3, <2>5, FailsPreserves DEF Registration
  <2> QED BY <1>3, <2>1, <2>2, <2>3, <2>4, <2>5 DEF Registration
<1>4. CASE ClientsRestart BY <1>4, RestartEmpties
<1>5. CASE TokenStep /\ UNCHANGED clientVars
  <2>1. now' = now \/ now' = now + 1
    BY <1>5 DEF TokenStep, ExchangeRefused, Exchange, Refresh, RefreshRefused, Revoke, Tick
  <2> QED BY <1>5, <2>1, TimePasses
<1>6. CASE UNCHANGED <<vars, clientVars>>
  <2>1. now' = now BY <1>6 DEF vars
  <2> QED BY <1>6, <2>1, TimePasses
<1> QED BY <1>1, <1>2, <1>3, <1>4, <1>5, <1>6 DEF ClientsNext

\* RegistrationsBounded in every state: the two caps on dynamic registrations
\* hold up to what has waited at the same time, and a source keeps to its number
\* (oauth_register, mcp_server.py:661-709).
THEOREM RegistrationsAreBounded == ClientsSpec => []RegistrationsBounded
<1>1. Registry /\ [ClientsNext]_<<vars, clientVars>> => Registry'
  BY RegistryPreserved
<1> QED BY <1>1, RegistryAtFirst, RegistryBounds, PTL DEF ClientsSpec
=============================================================================
