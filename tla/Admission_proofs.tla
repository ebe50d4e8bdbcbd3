-------------------------- MODULE Admission_proofs --------------------------
(***************************************************************************)
(* Limits hold in every window, the budget of failed keys forgets nothing  *)
(* that is young, and a login beyond the limit is denied properly, for all *)
(* requests, sources, tiers, limits and windows.                           *)
(***************************************************************************)
EXTENDS Admission, TLAPS, WellFoundedInduction

-----------------------------------------------------------------------------
(* A login beyond the limit finds the entry that its denial speaks of.       *)

Answers == {"out", "counted", "extra", "accepted", "denied", "refused"}

Shape ==
    /\ window = [k \in WinKeys |-> window[k]]
    /\ req \in [Requests -> Answers]

\* A login that went on beyond the limit found a full window: it is empty only
\* after somebody else has emptied it.
ExtraHadWindow ==
    \A r \in Requests :
        req[r] \in {"extra", "denied"} /\ window[Key(r)] = <<>> => r \in freed

\* The inductive invariant.
Inv == Shape /\ ExtraHadWindow

LEMMA KeyType == ASSUME NEW r \in Requests PROVE Key(r) \in WinKeys
BY AdmissionAssumption DEF Key, WinKeys

\* At the limit the window of a request has an entry.
LEMMA LimitLeavesEntry ==
  ASSUME NEW r \in Requests, Len(Recent(r)) >= Limit[Tier[r]]
  PROVE  Recent(r) # <<>>
<1>1. Limit[Tier[r]] \in Nat \ {0} BY AdmissionAssumption
<1> SUFFICES ASSUME Recent(r) = <<>> PROVE FALSE
  OBVIOUS
<1>2. Len(Recent(r)) = 0 OBVIOUS
<1> QED BY <1>1, <1>2

\* A step that touches no window and calls no request "extra" that was not.
LEMMA WindowsKept ==
  ASSUME Inv, UNCHANGED <<window, freed>>,
         req' \in [Requests -> Answers],
         \A r \in Requests : req'[r] \in {"extra", "denied"} => req[r] \in {"extra", "denied"}
  PROVE  Inv'
<1>1. Shape' BY DEF Inv, Shape
<1>2. ExtraHadWindow' BY DEF Inv, ExtraHadWindow, Key
<1> QED BY <1>1, <1>2 DEF Inv

LEMMA AnsweredType ==
  ASSUME Inv, NEW r \in Requests, NEW ok \in BOOLEAN,
         req[r] \in {"counted", "extra"}, Answered(r, ok)
  PROVE  /\ req' \in [Requests -> Answers]
         /\ \A q \in Requests :
               req'[q] \in {"extra", "denied"} => req[q] \in {"extra", "denied"}
BY DEF Answered, Inv, Shape, Answers

\* The window of r is cut, and the one of no other key.
LEMMA CutPreserves ==
  ASSUME Inv, NEW r \in Requests, Len(Recent(r)) >= Limit[Tier[r]],
         window' = [window EXCEPT ![Key(r)] = Recent(r)],
         freed \ {r} \subseteq freed',
         req' \in [Requests -> Answers],
         \A q \in Requests \ {r} : req'[q] = req[q]
  PROVE  Inv'
<1>1. Recent(r) # <<>> BY LimitLeavesEntry
<1>2. Key(r) \in WinKeys BY KeyType
<1>3. Shape' BY <1>2 DEF Inv, Shape
<1>4. ASSUME NEW q \in Requests, req'[q] \in {"extra", "denied"}, window'[Key(q)] = <<>>
      PROVE  q \in freed'
  <2>1. Key(q) \in WinKeys BY KeyType
  <2>2. window'[Key(r)] = Recent(r) BY <1>2 DEF Inv, Shape
  <2>3. Key(q) # Key(r) BY <1>1, <1>4, <2>2
  <2>4. q # r BY <2>3
  <2>5. window'[Key(q)] = window[Key(q)] BY <2>1, <2>3, <1>2 DEF Inv, Shape
  <2>6. q \in freed BY <1>4, <2>4, <2>5 DEF Inv, ExtraHadWindow
  <2> QED BY <2>4, <2>6
<1>5. ExtraHadWindow' BY <1>4 DEF ExtraHadWindow, Key
<1> QED BY <1>3, <1>5 DEF Inv

LEMMA AdmitPreserves ==
  ASSUME Inv, NEW r \in Requests, Admit(r) PROVE Inv'
<1> DEFINE win == [window EXCEPT ![Key(r)] = Append(Recent(r), clock)]
<1>1. Key(r) \in WinKeys BY KeyType
<1>2. window' = Prune(win, r) BY DEF Admit
<1>3. win = [k \in WinKeys |-> win[k]] BY <1>1 DEF Inv, Shape
<1>4. window' = [k \in WinKeys |-> window'[k]] BY <1>2, <1>3 DEF Prune
<1>5. req' = [req EXCEPT ![r] = "counted"] /\ freed' = (freed \cup Emptied(window')) \ {r}
  BY DEF Admit
<1> HIDE DEF win
<1>6. Shape' BY <1>4, <1>5 DEF Inv, Shape, Answers
<1>7. ASSUME NEW q \in Requests, req'[q] \in {"extra", "denied"}, window'[Key(q)] = <<>>
      PROVE  q \in freed'
  <2>1. q # r /\ req[q] # "out" BY <1>5, <1>7 DEF Inv, Shape
  <2>2. Key(q) \in WinKeys BY KeyType
  <2>3. q \in InFlight(Key(q)) BY <2>1 DEF InFlight
  <2>4. q \in Emptied(window') BY <1>7, <2>2, <2>3 DEF Emptied
  <2> QED BY <1>5, <2>1, <2>4
<1>8. ExtraHadWindow' BY <1>7 DEF ExtraHadWindow, Key
<1> QED BY <1>6, <1>8 DEF Inv

LEMMA ReleasePreserves ==
  ASSUME Inv, NEW r \in Requests, Release(r) PROVE Inv'
<1>1. Key(r) \in WinKeys BY KeyType
<1>2. /\ window' = [window EXCEPT ![Key(r)] = <<>>]
      /\ req' = [req EXCEPT ![r] = "out"]
      /\ freed' = freed \cup InFlight(Key(r))
  BY DEF Release
<1>3. Shape' BY <1>1, <1>2 DEF Inv, Shape, Answers
<1>4. ASSUME NEW q \in Requests, req'[q] \in {"extra", "denied"}, window'[Key(q)] = <<>>
      PROVE  q \in freed'
  <2>1. req[q] \in {"extra", "denied"} BY <1>2, <1>4 DEF Inv, Shape
  <2>2. Key(q) \in WinKeys BY KeyType
  <2>3. CASE Key(q) = Key(r) BY <1>2, <2>1, <2>3 DEF InFlight
  <2>4. CASE Key(q) # Key(r)
    <3>1. window[Key(q)] = <<>> BY <1>1, <1>2, <1>4, <2>2, <2>4 DEF Inv, Shape
    <3> QED BY <1>2, <2>1, <3>1 DEF Inv, ExtraHadWindow
  <2> QED BY <2>3, <2>4
<1>5. ExtraHadWindow' BY <1>4 DEF ExtraHadWindow, Key
<1> QED BY <1>3, <1>5 DEF Inv

LEMMA Preserved == Inv /\ [Next]_vars => Inv'
<1> SUFFICES ASSUME Inv, [Next]_vars PROVE Inv'
  OBVIOUS
<1>1. ASSUME NEW r \in Requests, Admit(r) PROVE Inv' BY <1>1, AdmitPreserves
<1>2. ASSUME NEW r \in Requests, LetThrough(r) \/ Refuse(r) PROVE Inv'
  <2>1. /\ Len(Recent(r)) >= Limit[Tier[r]]
        /\ window' = [window EXCEPT ![Key(r)] = Recent(r)]
        /\ freed \ {r} \subseteq freed'
    BY <1>2 DEF LetThrough, Refuse
  <2>2. /\ req' \in [Requests -> Answers]
        /\ \A q \in Requests \ {r} : req'[q] = req[q]
    BY <1>2 DEF LetThrough, Refuse, Inv, Shape, Answers
  <2> QED BY <2>1, <2>2, CutPreserves
<1>3. ASSUME NEW r \in Requests,
             RightKey(r) \/ WrongKey(r) \/ Handle(r) \/ Raises(r) \/ SendRefusal(r)
      PROVE  Inv'
  <2>1. UNCHANGED <<window, freed>>
    BY <1>3 DEF RightKey, WrongKey, Handle, Raises, SendRefusal
  <2>2. \/ req[r] \in {"counted", "extra"} /\ \E ok \in BOOLEAN : Answered(r, ok)
        \/ \E a \in {"out", "refused"} : req' = [req EXCEPT ![r] = a]
    BY <1>3 DEF RightKey, WrongKey, Handle, Raises, SendRefusal, Raised
  <2>3. /\ req' \in [Requests -> Answers]
        /\ \A q \in Requests :
              req'[q] \in {"extra", "denied"} => req[q] \in {"extra", "denied"}
    <3>1. CASE \E a \in {"out", "refused"} : req' = [req EXCEPT ![r] = a]
      BY <3>1 DEF Inv, Shape, Answers
    <3> QED BY <2>2, <3>1, AnsweredType
  <2> QED BY <2>1, <2>3, WindowsKept
<1>4. ASSUME NEW r \in Requests, Release(r) PROVE Inv' BY <1>4, ReleasePreserves
<1>5. ASSUME NEW r \in Requests, Deny(r) \/ Break(r) PROVE Inv'
  <2>1. req' = [req EXCEPT ![r] = "out"] /\ UNCHANGED <<window, freed>>
    BY <1>5 DEF Deny, Break
  <2>2. /\ req' \in [Requests -> Answers]
        /\ \A q \in Requests :
              req'[q] \in {"extra", "denied"} => req[q] \in {"extra", "denied"}
    BY <2>1 DEF Inv, Shape, Answers
  <2> QED BY <2>1, <2>2, WindowsKept
<1>6. CASE Tick \/ UNCHANGED vars
  <2>1. UNCHANGED <<window, freed, req>> BY <1>6 DEF Tick, vars
  <2> QED BY <2>1, WindowsKept DEF Inv, Shape
<1>7. CASE Restart
  <2>1. window' = [k \in WinKeys |-> <<>>] /\ req' = [r \in Requests |-> "out"]
    BY <1>7 DEF Restart
  <2> QED BY <2>1 DEF Inv, Shape, ExtraHadWindow, Answers
<1> QED BY <1>1, <1>2, <1>3, <1>4, <1>5, <1>6, <1>7 DEF Next

\* BreaksOnlyWhenFreed in every state: the answer of 429 after an awaited login
\* finds the entry it reads, unless another login or the pruning took it
\* (rate_limiter.py:274-280).
THEOREM DenialIsAnswered == Spec => []BreaksOnlyWhenFreed
<1>1. Init => Inv BY DEF Init, Inv, Shape, ExtraHadWindow, Answers
<1>2. Inv => BreaksOnlyWhenFreed BY DEF Inv, ExtraHadWindow, BreaksOnlyWhenFreed
<1> QED BY <1>1, <1>2, Preserved, PTL DEF Spec

-----------------------------------------------------------------------------
(* What is young of a sequence of times.                                     *)

\* The natural numbers are well-ordered.
LEMMA LeastNat ==
  ASSUME NEW S \in SUBSET Nat, S # {}
  PROVE  \E x \in S : \A y \in S : x <= y
<1>1. IsWellFoundedOn({xy \in Nat \X Nat : xy[1] < xy[2]}, Nat)
  BY NatLessThanWellFounded DEF OpToRel
<1>2. PICK x \in S : \A y \in S : <<y, x>> \notin {xy \in Nat \X Nat : xy[1] < xy[2]}
  BY <1>1, WFMin
<1>3. ASSUME NEW y \in S PROVE x <= y
  <2>1. <<y, x>> \notin {xy \in Nat \X Nat : xy[1] < xy[2]} BY <1>2
  <2>2. <<y, x>> \in Nat \X Nat /\ <<y, x>>[1] = y /\ <<y, x>>[2] = x OBVIOUS
  <2>3. ~(y < x) BY <2>1, <2>2
  <2> QED BY <2>3
<1> QED BY <1>3

\* Sequences of times in their order, none later than n.
Timeline(n) ==
    {s \in Seq(Times) : /\ \A i \in 1..Len(s) : s[i] <= n
                        /\ \A i \in 1..Len(s), j \in 1..Len(s) :
                              i <= j => s[i] <= s[j]}

LEMMA TimesAreNat == Times \subseteq Nat
BY AdmissionAssumption DEF Times

LEMMA TimelineFacts ==
  ASSUME NEW n \in Nat, NEW s \in Timeline(n)
  PROVE  /\ s \in Seq(Times) /\ Len(s) \in Nat
         /\ \A i \in 1..Len(s) : s[i] \in Times /\ s[i] \in Nat /\ s[i] <= n
         /\ \A i \in 1..Len(s), j \in 1..Len(s) : i <= j => s[i] <= s[j]
<1>1. s \in Seq(Times) BY DEF Timeline
<1>2. Len(s) \in Nat BY <1>1
<1>3. \A i \in 1..Len(s) : s[i] \in Times BY <1>1
<1>4. \A i \in 1..Len(s) : s[i] \in Nat BY <1>3, TimesAreNat
<1>5. \A i \in 1..Len(s), j \in 1..Len(s) : i <= j => s[i] <= s[j] BY DEF Timeline
<1>6. \A i \in 1..Len(s) : s[i] <= n BY DEF Timeline
<1> QED BY <1>1, <1>2, <1>3, <1>4, <1>5, <1>6

LEMMA NoEntries ==
  ASSUME NEW n, NEW w, NEW now
  PROVE  <<>> \in Timeline(n) /\ YoungAt(<<>>, w, now) = <<>>
<1>1. <<>> \in Timeline(n) BY DEF Timeline
<1>2. {i \in 1..Len(<<>>) : <<>>[i] + w > now} = {} OBVIOUS
<1>3. SelectInSeq(<<>>, LAMBDA t : t + w > now) = 0 BY <1>2 DEF SelectInSeq
<1> QED BY <1>1, <1>3 DEF YoungAt

\* What is young of a sequence in order is what follows some place of it.
LEMMA CutPoint ==
  ASSUME NEW n \in Nat, NEW s \in Timeline(n), NEW w \in Nat, NEW now \in Nat
  PROVE  \E m \in 0..Len(s) :
            /\ YoungAt(s, w, now) = SubSeq(s, m + 1, Len(s))
            /\ \A i \in 1..Len(s) : s[i] + w > now <=> i > m
<1> DEFINE I == {i \in 1..Len(s) : s[i] + w > now}
<1>0. /\ s \in Seq(Times) /\ Len(s) \in Nat
      /\ \A i \in 1..Len(s) : s[i] \in Nat
      /\ \A i \in 1..Len(s), j \in 1..Len(s) : i <= j => s[i] <= s[j]
  BY TimelineFacts
<1>1. SelectInSeq(s, LAMBDA t : t + w > now) = IF I # {} THEN Min(I) ELSE 0
  BY DEF SelectInSeq
<1>2. CASE I = {}
  <2>1. YoungAt(s, w, now) = <<>> BY <1>1, <1>2 DEF YoungAt
  <2>2. SubSeq(s, Len(s) + 1, Len(s)) = <<>> BY <1>0
  <2>3. \A i \in 1..Len(s) : s[i] + w > now <=> i > Len(s) BY <1>0, <1>2
  <2> QED BY <1>0, <2>1, <2>2, <2>3
<1>3. CASE I # {}
  <2>1. I \in SUBSET Nat BY <1>0
  <2>2. \E x \in I : \A y \in I : x <= y BY <1>3, <2>1, LeastNat
  <2>3. Min(I) \in I /\ \A y \in I : Min(I) <= y BY <2>2 DEF Min
  <2> DEFINE f == Min(I)
  <2>4. f \in 1..Len(s) /\ s[f] + w > now BY <2>3
  <2>5. f # 0 BY <2>4
  <2>6. YoungAt(s, w, now) = SubSeq(s, f, Len(s)) BY <1>1, <1>3, <2>5 DEF YoungAt
  <2>7. \A y \in 1..Len(s) : s[y] + w > now => f <= y BY <2>3
  <2> HIDE DEF f, I
  <2>8. ASSUME NEW i \in 1..Len(s) PROVE s[i] + w > now <=> i > f - 1
    <3>1. CASE i >= f
      <4>1. s[f] <= s[i] BY <1>0, <2>4, <3>1
      <4> QED BY <1>0, <2>4, <3>1, <4>1
    <3>2. CASE i < f BY <1>0, <2>4, <2>7, <3>2
    <3> QED BY <1>0, <2>4, <3>1, <3>2
  <2>9. f - 1 \in 0..Len(s) /\ (f - 1) + 1 = f BY <1>0, <2>4
  <2> QED BY <2>6, <2>8, <2>9
<1> QED BY <1>2, <1>3

\* y is s without its first m entries, those not young.
CutAt(y, s, m, w, now) ==
    /\ y \in Seq(Times)
    /\ Len(y) = Len(s) - m
    /\ \A i \in 1..(Len(s) - m) : y[i] = s[i + m]
    /\ \A i \in 1..Len(s) : s[i] + w > now <=> i > m

LEMMA YoungEntries ==
  ASSUME NEW n \in Nat, NEW s \in Timeline(n), NEW w \in Nat, NEW now \in Nat
  PROVE  \E m \in 0..Len(s) : CutAt(YoungAt(s, w, now), s, m, w, now)
<1>1. PICK m \in 0..Len(s) :
         /\ YoungAt(s, w, now) = SubSeq(s, m + 1, Len(s))
         /\ \A i \in 1..Len(s) : s[i] + w > now <=> i > m
  BY CutPoint
<1>2. s \in Seq(Times) /\ Len(s) \in Nat BY TimelineFacts
<1>3. SubSeq(s, m + 1, Len(s)) \in Seq(Times)
  BY <1>2
<1>4. Len(SubSeq(s, m + 1, Len(s))) = Len(s) - m
  BY <1>2
<1>5. \A i \in 1..(Len(s) - m) : SubSeq(s, m + 1, Len(s))[i] = s[i + m]
  BY <1>2
<1> QED BY <1>1, <1>3, <1>4, <1>5 DEF CutAt

LEMMA YoungIsTimeline ==
  ASSUME NEW n \in Nat, NEW s \in Timeline(n), NEW w \in Nat, NEW now \in Nat
  PROVE  /\ YoungAt(s, w, now) \in Timeline(n)
         /\ Len(YoungAt(s, w, now)) <= Len(s)
<1>1. PICK m \in 0..Len(s) : CutAt(YoungAt(s, w, now), s, m, w, now)
  BY YoungEntries
<1> USE DEF CutAt
<1>2. /\ Len(s) \in Nat /\ \A i \in 1..Len(s) : s[i] <= n
      /\ \A i \in 1..Len(s), j \in 1..Len(s) : i <= j => s[i] <= s[j]
  BY TimelineFacts
<1>3. PICK y : y = YoungAt(s, w, now) OBVIOUS
<1>4. \A i \in 1..Len(y) : y[i] <= n BY <1>1, <1>2, <1>3
<1>5. ASSUME NEW i \in 1..Len(y), NEW j \in 1..Len(y), i <= j PROVE y[i] <= y[j]
  <2>1. i + m \in 1..Len(s) /\ j + m \in 1..Len(s) /\ i + m <= j + m
    BY <1>1, <1>2, <1>3, <1>5
  <2>2. y[i] = s[i + m] /\ y[j] = s[j + m] BY <1>1, <1>3
  <2> QED BY <1>2, <2>1, <2>2
<1>6. y \in Timeline(n) BY <1>1, <1>3, <1>4, <1>5 DEF Timeline
<1>7. Len(y) <= Len(s) BY <1>1, <1>2, <1>3
<1> QED BY <1>3, <1>6, <1>7

\* Cutting twice is cutting at the later of both.
LEMMA YoungOfYoung ==
  ASSUME NEW n \in Nat, NEW s \in Timeline(n),
         NEW v \in Nat, NEW before \in Nat, NEW w \in Nat, NEW now \in Nat,
         before + w <= now + v
  PROVE  YoungAt(YoungAt(s, v, before), w, now) = YoungAt(s, w, now)
<1>1. PICK y : y = YoungAt(s, v, before) OBVIOUS
<1>2. PICK m \in 0..Len(s) : CutAt(y, s, m, v, before)
  BY <1>1, YoungEntries
<1>3. y \in Timeline(n) BY <1>1, YoungIsTimeline
<1>4. PICK z : z = YoungAt(y, w, now) OBVIOUS
<1>5. PICK k \in 0..Len(y) : CutAt(z, y, k, w, now)
  BY <1>3, <1>4, YoungEntries
<1>6. PICK x : x = YoungAt(s, w, now) OBVIOUS
<1>7. PICK l \in 0..Len(s) : CutAt(x, s, l, w, now)
  BY <1>6, YoungEntries
<1> USE DEF CutAt
<1>8. Len(s) \in Nat /\ \A i \in 1..Len(s) : s[i] \in Nat BY TimelineFacts
<1>9. l = m + k
  <2>1. ASSUME l < m PROVE FALSE
    <3>1. l + 1 \in 1..Len(s) /\ ~(l + 1 > m) /\ l + 1 > l BY <1>8, <2>1
    <3>2. s[l + 1] + w > now /\ ~(s[l + 1] + v > before) BY <1>2, <1>7, <3>1
    <3>3. PICK t \in Nat : t = s[l + 1] BY <1>8, <3>1
    <3>4. t + w > now /\ ~(t + v > before) BY <3>2, <3>3
    <3> QED BY <3>4
  <2>2. ASSUME l > m + k PROVE FALSE
    <3>1. l \in 1..Len(s) /\ ~(l > l) /\ l - m \in 1..Len(y) /\ l - m > k
      BY <1>2, <1>8, <2>2
    <3>2. ~(s[l] + w > now) /\ y[l - m] = s[l] BY <1>2, <1>7, <1>8, <3>1
    <3>3. y[l - m] + w > now BY <1>5, <3>1
    <3> QED BY <3>2, <3>3
  <2>3. ASSUME l < m + k, l >= m PROVE FALSE
    <3>1. /\ l + 1 \in 1..Len(s) /\ l + 1 > l
          /\ l + 1 - m \in 1..Len(y) /\ ~(l + 1 - m > k)
      BY <1>2, <1>8, <2>3
    <3>2. s[l + 1] + w > now BY <1>7, <3>1
    <3>3. y[l + 1 - m] = s[l + 1] BY <1>2, <1>8, <3>1
    <3>4. ~(y[l + 1 - m] + w > now) BY <1>5, <3>1
    <3> QED BY <3>2, <3>3, <3>4
  <2> QED BY <1>2, <1>8, <2>1, <2>2, <2>3
<1>10. Len(z) = Len(x) BY <1>2, <1>5, <1>7, <1>8, <1>9
<1>11. ASSUME NEW i \in 1..Len(z) PROVE z[i] = x[i]
  <2>1. i + k \in 1..(Len(s) - m) /\ i \in 1..(Len(s) - l) /\ i \in 1..(Len(y) - k)
    BY <1>2, <1>5, <1>8, <1>9
  <2>2. z[i] = y[i + k] BY <1>5, <2>1
  <2>3. y[i + k] = s[i + k + m] BY <1>2, <2>1
  <2>4. x[i] = s[i + l] BY <1>7, <2>1
  <2>5. i + k + m = i + l BY <1>2, <1>8, <1>9
  <2> QED BY <2>2, <2>3, <2>4, <2>5
<1>12. z = x
  <2>1. z \in Seq(Times) /\ x \in Seq(Times) BY <1>5, <1>7
  <2> HIDE DEF CutAt
  <2> QED BY <1>10, <1>11, <2>1
<1> QED BY <1>1, <1>4, <1>6, <1>12

\* An entry of now is young.
LEMMA YoungOfAppend ==
  ASSUME NEW now \in Times, NEW s \in Timeline(now), NEW w \in Nat \ {0}
  PROVE  /\ Append(s, now) \in Timeline(now)
         /\ YoungAt(Append(s, now), w, now) = Append(YoungAt(s, w, now), now)
<1>1. PICK a : a = Append(s, now) OBVIOUS
<1>2. /\ now \in Nat /\ s \in Seq(Times) /\ Len(s) \in Nat
      /\ \A i \in 1..Len(s) : s[i] \in Nat /\ s[i] <= now
      /\ \A i \in 1..Len(s), j \in 1..Len(s) : i <= j => s[i] <= s[j]
  BY TimelineFacts, TimesAreNat
<1>3. /\ a \in Seq(Times) /\ Len(a) = Len(s) + 1 /\ a[Len(s) + 1] = now
      /\ \A i \in 1..Len(s) : a[i] = s[i]
  BY <1>1, <1>2
<1>4. \A i \in 1..Len(a) : a[i] <= now
  <2> TAKE i \in 1..Len(a)
  <2>1. CASE i \in 1..Len(s) BY <1>2, <1>3, <2>1
  <2>2. CASE i = Len(s) + 1 BY <1>2, <1>3, <2>2
  <2> QED BY <1>2, <1>3, <2>1, <2>2
<1>5. \A i \in 1..Len(a), j \in 1..Len(a) : i <= j => a[i] <= a[j]
  <2> SUFFICES ASSUME NEW i \in 1..Len(a), NEW j \in 1..Len(a), i <= j
               PROVE  a[i] <= a[j]
    OBVIOUS
  <2>1. CASE j = Len(s) + 1 BY <1>3, <1>4, <2>1
  <2>2. CASE j # Len(s) + 1
    <3>1. i \in 1..Len(s) /\ j \in 1..Len(s) /\ i <= j BY <1>2, <1>3, <2>2
    <3> QED BY <1>2, <1>3, <3>1
  <2> QED BY <2>1, <2>2
<1>6. a \in Timeline(now) BY <1>3, <1>4, <1>5 DEF Timeline
<1>7. PICK y : y = YoungAt(s, w, now) OBVIOUS
<1>8. PICK m \in 0..Len(s) : CutAt(y, s, m, w, now)
  BY <1>2, <1>7, YoungEntries
<1>9. PICK z : z = YoungAt(a, w, now) OBVIOUS
<1>10. PICK k \in 0..Len(a) : CutAt(z, a, k, w, now)
  BY <1>2, <1>6, <1>9, YoungEntries
<1> USE DEF CutAt
<1>11. k = m
  <2>1. Len(s) + 1 > k
    <3>1. a[Len(s) + 1] + w > now BY <1>2, <1>3
    <3>2. Len(s) + 1 \in 1..Len(a) BY <1>2, <1>3
    <3> QED BY <1>10, <3>1, <3>2
  <2>2. ASSUME k < m PROVE FALSE
    <3>1. m \in 1..Len(s) /\ m \in 1..Len(a) /\ m > k /\ ~(m > m) BY <1>2, <1>3, <2>2
    <3>2. a[m] + w > now /\ ~(s[m] + w > now) BY <1>8, <1>10, <3>1
    <3> QED BY <1>3, <3>1, <3>2
  <2>3. ASSUME k > m PROVE FALSE
    <3>1. k \in 1..Len(s) /\ k \in 1..Len(a) /\ k > m /\ ~(k > k)
      BY <1>2, <1>3, <2>1, <2>3
    <3>2. ~(a[k] + w > now) /\ s[k] + w > now BY <1>8, <1>10, <3>1
    <3> QED BY <1>3, <3>1, <3>2
  <2> QED BY <1>2, <2>2, <2>3
<1>12. PICK x : x = Append(y, now) OBVIOUS
<1>13. /\ x \in Seq(Times) /\ Len(x) = Len(y) + 1 /\ x[Len(y) + 1] = now
       /\ \A i \in 1..Len(y) : x[i] = y[i]
  BY <1>8, <1>12
<1>14. Len(y) \in Nat /\ Len(z) = Len(x) BY <1>2, <1>3, <1>8, <1>10, <1>11, <1>13
<1>15. ASSUME NEW i \in 1..Len(z) PROVE z[i] = x[i]
  <2>1. z[i] = a[i + m] BY <1>10, <1>11
  <2>2. CASE i = Len(y) + 1
    <3>1. i + m = Len(s) + 1 BY <1>2, <1>8, <2>2
    <3> QED BY <1>3, <1>13, <2>1, <2>2, <3>1
  <2>3. CASE i # Len(y) + 1
    <3>1. i \in 1..Len(y) /\ i + m \in 1..Len(s) BY <1>2, <1>8, <1>13, <1>14, <2>3
    <3>2. x[i] = y[i] /\ a[i + m] = s[i + m] BY <1>3, <1>13, <3>1
    <3>3. y[i] = s[i + m] BY <1>8, <3>1
    <3> QED BY <2>1, <3>2, <3>3
  <2> QED BY <2>2, <2>3
<1>16. z = x BY <1>10, <1>13, <1>14, <1>15
<1> QED BY <1>1, <1>6, <1>7, <1>9, <1>12, <1>16

LEMMA TimelineGrows ==
  ASSUME NEW n \in Nat, NEW s \in Timeline(n)
  PROVE  s \in Timeline(n + 1)
<1>1. ASSUME NEW i \in 1..Len(s) PROVE s[i] <= n + 1
  <2>1. s[i] \in Nat /\ s[i] <= n BY TimelineFacts
  <2> QED BY <2>1
<1> QED BY <1>1 DEF Timeline

\* The longest window of the tiers.
LEMMA LongestWindow ==
  /\ Max({Window[t] : t \in Tiers}) \in Nat
  /\ \A u \in Tiers : Window[u] <= Max({Window[t] : t \in Tiers})
<1>1. PICK t \in Tiers : \A u \in Tiers : Window[u] <= Window[t] BY AdmissionAssumption
<1>2. \A u \in Tiers : Window[u] \in Nat BY AdmissionAssumption
<1> DEFINE S == {Window[u] : u \in Tiers}
<1>3. Window[t] \in S /\ \A y \in S : Window[t] >= y BY <1>1, <1>2
<1> HIDE DEF S
<1>4. Max(S) \in S /\ \A y \in S : Max(S) >= y BY <1>3 DEF Max
<1>5. PICK x : x = Max(S) OBVIOUS
<1>6. x \in S /\ \A y \in S : x >= y BY <1>4, <1>5
<1>7. x \in Nat /\ \A u \in Tiers : Window[u] <= x BY <1>2, <1>6 DEF S
<1> QED BY <1>5, <1>7 DEF S

-----------------------------------------------------------------------------
(* The windows and the budget hold what they must.                           *)

LEMMA KeyTier ==
  ASSUME NEW r \in Requests
  PROVE  Key(r) \in WinKeys /\ Key(r)[2] = Tier[r]
BY AdmissionAssumption DEF Key, WinKeys

\* A request may be where a says.
Proper(r, a) ==
    /\ a \in {"extra", "accepted", "denied"} => Tier[r] = "login"
    /\ a = "refused" => Tier[r] = "oauth"

\* Every variable has its type, and what is remembered is in the order of time.
InOrder ==
    /\ clock \in Times /\ shared \in BOOLEAN
    /\ window \in [WinKeys -> Timeline(clock)]
    /\ counted \in [WinKeys -> Timeline(clock)]
    /\ tries \in [Scopes -> Timeline(clock)]
    /\ failed \in [Scopes -> Timeline(clock)]
    /\ req \in [Requests -> Answers]
    /\ \A r \in Requests : Proper(r, req[r])

\* The window of k holds what was admitted for k, as far as that is young, and no
\* more of it than the limit allows.
CountsAll(k) ==
    /\ Young(counted[k], Window[k[2]]) = Young(window[k], Window[k[2]])
    /\ Len(Young(window[k], Window[k[2]])) <= Limit[k[2]]

Counts == InOrder /\ (\A k \in WinKeys : CountsAll(k)) /\ BudgetHolds

LEMMA TierFacts ==
  ASSUME NEW k \in WinKeys
  PROVE  Window[k[2]] \in Nat \ {0} /\ Limit[k[2]] \in Nat \ {0} /\ k[2] \in Tiers
BY AdmissionAssumption DEF WinKeys

LEMMA ClockIsNat == ASSUME InOrder PROVE clock \in Nat /\ clock \in Times
BY TimesAreNat DEF InOrder

\* Cutting changes nothing that counts.
LEMMA YoungAgain ==
  ASSUME InOrder, NEW s \in Timeline(clock), NEW v \in Nat, NEW w \in Nat, w <= v
  PROVE  /\ Young(s, v) \in Timeline(clock)
         /\ Young(Young(s, v), w) = Young(s, w)
<1>1. clock \in Nat BY ClockIsNat
<1>2. clock + w <= clock + v BY <1>1
<1> QED BY <1>1, <1>2, YoungIsTimeline, YoungOfYoung DEF Young

LEMMA YoungBooked ==
  ASSUME InOrder, NEW s \in Timeline(clock), NEW w \in Nat \ {0}
  PROVE  /\ Append(s, clock) \in Timeline(clock)
         /\ Young(Append(s, clock), w) = Append(Young(s, w), clock)
BY ClockIsNat, YoungOfAppend DEF Young

LEMMA YoungNone == \A w : Young(<<>>, w) = <<>> /\ <<>> \in Timeline(clock)
BY NoEntries DEF Young

LEMMA PruneFacts ==
  ASSUME InOrder, NEW win \in [WinKeys -> Timeline(clock)], NEW r
  PROVE  /\ Prune(win, r) \in [WinKeys -> Timeline(clock)]
         /\ \A k \in WinKeys :
               Young(Prune(win, r)[k], Window[k[2]]) = Young(win[k], Window[k[2]])
<1> DEFINE m == Max({Window[t] : t \in Tiers})
<1>1. m \in Nat /\ \A u \in Tiers : Window[u] <= m BY LongestWindow
<1> HIDE DEF m
<1>2. \A k \in WinKeys : /\ Young(win[k], m) \in Timeline(clock)
                         /\ Young(Young(win[k], m), Window[k[2]]) = Young(win[k], Window[k[2]])
  BY <1>1, TierFacts, YoungAgain
<1>3. \/ Prune(win, r) = [k \in WinKeys |-> Young(win[k], m)]
      \/ Prune(win, r) = win
  BY DEF Prune, m
<1> QED BY <1>2, <1>3

\* A step of the middleware.
LEMMA WindowStep ==
  ASSUME Counts, UNCHANGED <<clock, shared, tries, failed>>,
         window' \in [WinKeys -> Timeline(clock)],
         counted' \in [WinKeys -> Timeline(clock)],
         \A k \in WinKeys :
            /\ Young(counted'[k], Window[k[2]]) = Young(window'[k], Window[k[2]])
            /\ Len(Young(window'[k], Window[k[2]])) <= Limit[k[2]],
         req' \in [Requests -> Answers],
         \A r \in Requests : Proper(r, req'[r])
  PROVE  Counts'
<1>1. InOrder' BY DEF Counts, InOrder
<1>2. \A k \in WinKeys : CountsAll(k)' BY DEF CountsAll, Young
<1>3. BudgetHolds' BY DEF Counts, BudgetHolds, Young
<1> QED BY <1>1, <1>2, <1>3 DEF Counts

\* A step of a handler.
LEMMA BudgetStep ==
  ASSUME Counts, UNCHANGED <<clock, shared, window, counted>>,
         tries' \in [Scopes -> Timeline(clock)],
         failed' \in [Scopes -> Timeline(clock)],
         \A s \in Scopes : Young(tries'[s], FailWindow) = Young(failed'[s], FailWindow),
         req' \in [Requests -> Answers],
         \A r \in Requests : Proper(r, req'[r])
  PROVE  Counts'
<1>1. InOrder' BY DEF Counts, InOrder
<1>2. \A k \in WinKeys : CountsAll(k)' BY DEF Counts, CountsAll, Young
<1>3. BudgetHolds' BY DEF BudgetHolds, Young
<1> QED BY <1>1, <1>2, <1>3 DEF Counts

LEMMA AnswerType ==
  ASSUME Counts, NEW r \in Requests, NEW ok \in BOOLEAN,
         req[r] \in {"counted", "extra"}, Answered(r, ok)
  PROVE  /\ req' \in [Requests -> Answers]
         /\ \A q \in Requests : Proper(q, req'[q])
BY DEF Answered, Counts, InOrder, Answers, Proper

LEMMA RequestLeaves ==
  ASSUME Counts, NEW r \in Requests, req' = [req EXCEPT ![r] = "out"]
  PROVE  /\ req' \in [Requests -> Answers]
         /\ \A q \in Requests : Proper(q, req'[q])
BY DEF Counts, InOrder, Answers, Proper

LEMMA AdmitCounts ==
  ASSUME Counts, NEW r \in Requests, Admit(r) PROVE Counts'
<1>0. InOrder BY DEF Counts
<1>1. PICK K : K = Key(r) OBVIOUS
<1>2. K \in WinKeys /\ K[2] = Tier[r] BY <1>1, KeyTier
<1>3. PICK w : w = Window[K[2]] OBVIOUS
<1>4. w \in Nat \ {0} /\ Limit[K[2]] \in Nat \ {0} BY <1>2, <1>3, TierFacts
<1>5. PICK y : y = Young(window[K], w) OBVIOUS
<1>6. Recent(r) = y BY <1>1, <1>2, <1>3, <1>5 DEF Recent
<1>7. Len(y) < Limit[K[2]] BY <1>2, <1>6 DEF Admit
<1>8. window[K] \in Timeline(clock) /\ counted[K] \in Timeline(clock)
  BY <1>2 DEF Counts, InOrder
<1>9. y \in Timeline(clock) /\ Young(y, w) = y BY <1>0, <1>4, <1>5, <1>8, YoungAgain
<1>10. y = Young(counted[K], w) BY <1>2, <1>3, <1>5 DEF Counts, CountsAll
<1>11. /\ Append(y, clock) \in Timeline(clock)
       /\ Young(Append(y, clock), w) = Append(y, clock)
  BY <1>0, <1>4, <1>9, YoungBooked
<1>12. /\ Append(counted[K], clock) \in Timeline(clock)
       /\ Young(Append(counted[K], clock), w) = Append(y, clock)
  BY <1>0, <1>4, <1>8, <1>10, YoungBooked
<1>13. Len(Append(y, clock)) <= Limit[K[2]]
  <2>1. y \in Seq(Times) /\ Len(y) \in Nat BY <1>0, <1>9, ClockIsNat, TimelineFacts
  <2>2. Len(Append(y, clock)) = Len(y) + 1 BY <2>1
  <2> QED BY <1>4, <1>7, <2>1, <2>2
<1>14. PICK win : win = [window EXCEPT ![K] = Append(y, clock)] OBVIOUS
<1>15. win \in [WinKeys -> Timeline(clock)] BY <1>11, <1>14 DEF Counts, InOrder
<1>16. window' = Prune(win, r) BY <1>1, <1>6, <1>14 DEF Admit
<1>17. counted' = [counted EXCEPT ![K] = Append(counted[K], clock)] BY <1>1 DEF Admit
<1>18. counted' \in [WinKeys -> Timeline(clock)] BY <1>12, <1>17 DEF Counts, InOrder
<1>19. ASSUME NEW k \in WinKeys
       PROVE  /\ Young(counted'[k], Window[k[2]]) = Young(win[k], Window[k[2]])
              /\ Len(Young(win[k], Window[k[2]])) <= Limit[k[2]]
  <2>1. CASE k = K
    <3>1. win[k] = Append(y, clock) BY <1>2, <1>14, <2>1 DEF Counts, InOrder
    <3>2. counted'[k] = Append(counted[K], clock) BY <1>2, <1>17, <2>1 DEF Counts, InOrder
    <3> QED BY <1>3, <1>11, <1>12, <1>13, <2>1, <3>1, <3>2
  <2>2. CASE k # K
    <3>1. win[k] = window[k] BY <1>14, <2>2 DEF Counts, InOrder
    <3>2. counted'[k] = counted[k] BY <1>17, <2>2 DEF Counts, InOrder
    <3> QED BY <3>1, <3>2 DEF Counts, CountsAll
  <2> QED BY <2>1, <2>2
<1>20. /\ window' \in [WinKeys -> Timeline(clock)]
       /\ \A k \in WinKeys : Young(window'[k], Window[k[2]]) = Young(win[k], Window[k[2]])
  BY <1>0, <1>15, <1>16, PruneFacts
<1>21. /\ req' \in [Requests -> Answers]
       /\ \A q \in Requests : Proper(q, req'[q])
  BY DEF Admit, Counts, InOrder, Answers, Proper
<1>22. \A k \in WinKeys :
            /\ Young(counted'[k], Window[k[2]]) = Young(window'[k], Window[k[2]])
            /\ Len(Young(window'[k], Window[k[2]])) <= Limit[k[2]]
  BY <1>19, <1>20
<1>23. UNCHANGED <<clock, shared, tries, failed>> BY DEF Admit
<1> QED BY <1>18, <1>20, <1>21, <1>22, <1>23, WindowStep

LEMMA CutCounts ==
  ASSUME Counts, NEW r \in Requests,
         window' = [window EXCEPT ![Key(r)] = Recent(r)],
         UNCHANGED <<clock, shared, tries, failed, counted>>,
         req' \in [Requests -> Answers],
         \A q \in Requests : Proper(q, req'[q])
  PROVE  Counts'
<1>0. InOrder BY DEF Counts
<1>1. PICK K : K = Key(r) OBVIOUS
<1>2. K \in WinKeys /\ K[2] = Tier[r] BY <1>1, KeyTier
<1>3. PICK w : w = Window[K[2]] OBVIOUS
<1>4. w \in Nat /\ w <= w BY <1>2, <1>3, TierFacts
<1>5. PICK y : y = Young(window[K], w) OBVIOUS
<1>6. window' = [window EXCEPT ![K] = y] BY <1>1, <1>2, <1>3, <1>5 DEF Recent
<1>7. window[K] \in Timeline(clock) BY <1>2 DEF Counts, InOrder
<1>8. y \in Timeline(clock) /\ Young(y, w) = y BY <1>0, <1>4, <1>5, <1>7, YoungAgain
<1>9. window' \in [WinKeys -> Timeline(clock)] BY <1>6, <1>8 DEF Counts, InOrder
<1>10. counted' \in [WinKeys -> Timeline(clock)] BY DEF Counts, InOrder
<1>11. ASSUME NEW k \in WinKeys
       PROVE  /\ Young(counted'[k], Window[k[2]]) = Young(window'[k], Window[k[2]])
              /\ Len(Young(window'[k], Window[k[2]])) <= Limit[k[2]]
  <2>1. /\ Young(counted[k], Window[k[2]]) = Young(window[k], Window[k[2]])
        /\ Len(Young(window[k], Window[k[2]])) <= Limit[k[2]]
    BY DEF Counts, CountsAll
  <2>2. CASE k = K
    <3>1. window'[k] = y BY <1>2, <1>6, <2>2 DEF Counts, InOrder
    <3>2. Young(window'[k], Window[k[2]]) = Young(window[k], Window[k[2]])
      BY <1>3, <1>5, <1>8, <2>2, <3>1
    <3> QED BY <2>1, <3>2
  <2>3. CASE k # K
    <3>1. window'[k] = window[k] BY <1>6, <2>3 DEF Counts, InOrder
    <3> QED BY <2>1, <3>1
  <2> QED BY <2>2, <2>3
<1> QED BY <1>9, <1>10, <1>11, WindowStep

LEMMA ReleaseCounts ==
  ASSUME Counts, NEW r \in Requests, Release(r) PROVE Counts'
<1>1. PICK K : K = Key(r) OBVIOUS
<1>2. K \in WinKeys BY <1>1, KeyTier
<1>3. /\ window' = [window EXCEPT ![K] = <<>>]
      /\ counted' = [counted EXCEPT ![K] = <<>>]
      /\ req' = [req EXCEPT ![r] = "out"]
      /\ UNCHANGED <<clock, shared, tries, failed>>
  BY <1>1 DEF Release
<1>4. <<>> \in Timeline(clock) BY YoungNone
<1>5. window' \in [WinKeys -> Timeline(clock)] /\ counted' \in [WinKeys -> Timeline(clock)]
  BY <1>3, <1>4 DEF Counts, InOrder
<1>6. ASSUME NEW k \in WinKeys
      PROVE  /\ Young(counted'[k], Window[k[2]]) = Young(window'[k], Window[k[2]])
             /\ Len(Young(window'[k], Window[k[2]])) <= Limit[k[2]]
  <2>1. CASE k = K
    <3>1. window'[k] = <<>> /\ counted'[k] = <<>> BY <1>2, <1>3, <2>1 DEF Counts, InOrder
    <3>2. Young(<<>>, Window[k[2]]) = <<>> BY YoungNone
    <3>3. Len(<<>>) <= Limit[k[2]] BY TierFacts
    <3> QED BY <3>1, <3>2, <3>3
  <2>2. CASE k # K
    <3>1. window'[k] = window[k] /\ counted'[k] = counted[k]
      BY <1>3, <2>2 DEF Counts, InOrder
    <3> QED BY <3>1 DEF Counts, CountsAll
  <2> QED BY <2>1, <2>2
<1> QED BY <1>3, <1>5, <1>6, RequestLeaves, WindowStep

LEMMA RightKeyCounts ==
  ASSUME Counts, NEW r \in Requests, RightKey(r) PROVE Counts'
<1>1. /\ req[r] \in {"counted", "extra"}
      /\ Raised(r) \/ \E ok \in BOOLEAN : Answered(r, ok)
      /\ tries' = [tries EXCEPT ![Source[r]] = <<>>]
      /\ failed' = [failed EXCEPT ![Source[r]] = <<>>]
      /\ UNCHANGED <<clock, shared, window, counted>>
  BY DEF RightKey, Reset
<1>2. /\ req' \in [Requests -> Answers]
      /\ \A q \in Requests : Proper(q, req'[q])
  BY <1>1, AnswerType, RequestLeaves DEF Raised
<1>4. <<>> \in Timeline(clock) BY YoungNone
<1>5. tries' \in [Scopes -> Timeline(clock)] /\ failed' \in [Scopes -> Timeline(clock)]
  BY <1>1, <1>4 DEF Counts, InOrder
<1>7. \A s \in Scopes : \/ tries'[s] = <<>> /\ failed'[s] = <<>>
                        \/ tries'[s] = tries[s] /\ failed'[s] = failed[s]
  BY <1>1 DEF Counts, InOrder
<1>8. \A s \in Scopes : Young(tries'[s], FailWindow) = Young(failed'[s], FailWindow)
  BY <1>7 DEF Counts, BudgetHolds
<1> QED BY <1>1, <1>2, <1>5, <1>8, BudgetStep

\* Booking in memory, for one scope.
LEMMA BookedFacts ==
  ASSUME Counts, NEW s \in Scopes
  PROVE  /\ Booked(s) \in [Scopes -> Timeline(clock)]
         /\ \A x \in Scopes : Young(Booked(s)[x], FailWindow)
                = IF x = s THEN Append(Young(tries[s], FailWindow), clock)
                  ELSE Young(tries[x], FailWindow)
<1>0. InOrder BY DEF Counts
<1>1. FailWindow \in Nat \ {0} /\ FailWindow <= FailWindow BY AdmissionAssumption
<1>2. tries \in [Scopes -> Timeline(clock)] BY DEF Counts, InOrder
<1>3. PICK y : y = Young(tries[s], FailWindow) OBVIOUS
<1>4. y \in Timeline(clock) /\ Young(y, FailWindow) = y
  BY <1>0, <1>1, <1>2, <1>3, YoungAgain
<1>5. /\ Append(y, clock) \in Timeline(clock)
      /\ Young(Append(y, clock), FailWindow) = Append(y, clock)
  BY <1>0, <1>1, <1>4, YoungBooked
<1>6. PICK b : b = [tries EXCEPT ![s] = Append(y, clock)] OBVIOUS
<1>7. b \in [Scopes -> Timeline(clock)] BY <1>2, <1>5, <1>6
<1>8. ASSUME NEW x \in Scopes
      PROVE  Young(b[x], FailWindow) = IF x = s THEN Append(y, clock)
                                       ELSE Young(tries[x], FailWindow)
  <2>1. b[x] = IF x = s THEN Append(y, clock) ELSE tries[x] BY <1>2, <1>6
  <2> QED BY <1>5, <2>1
<1>9. PICK c : c = Booked(s) OBVIOUS
<1>10. \/ c = b
       \/ c = [x \in Scopes |-> IF Young(b[x], FailWindow) = <<>> THEN <<>> ELSE b[x]]
  BY <1>3, <1>6, <1>9 DEF Booked
<1>11. <<>> \in Timeline(clock) /\ Young(<<>>, FailWindow) = <<>> BY YoungNone
<1>12. c \in [Scopes -> Timeline(clock)] BY <1>7, <1>10, <1>11
<1>13. \A x \in Scopes : Young(c[x], FailWindow) = Young(b[x], FailWindow)
  <2> TAKE x \in Scopes
  <2>1. c[x] = b[x] \/ (c[x] = <<>> /\ Young(b[x], FailWindow) = <<>>) BY <1>10
  <2> QED BY <1>11, <2>1
<1>14. \A x \in Scopes : Young(c[x], FailWindow)
                = IF x = s THEN Append(y, clock) ELSE Young(tries[x], FailWindow)
  BY <1>8, <1>13
<1> QED BY <1>3, <1>9, <1>12, <1>14

\* Booking in the shared store, for one scope.
LEMMA BookedSharedFacts ==
  ASSUME Counts, NEW s \in Scopes
  PROVE  /\ BookedShared(s) \in [Scopes -> Timeline(clock)]
         /\ \A x \in Scopes : Young(BookedShared(s)[x], FailWindow)
                = IF x = s THEN Append(Young(tries[s], FailWindow), clock)
                  ELSE Young(tries[x], FailWindow)
<1>1. FailWindow \in Nat \ {0} /\ FailWindow <= FailWindow BY AdmissionAssumption
<1>2. ASSUME NEW x \in Scopes
      PROVE  /\ Young(tries[x], FailWindow) \in Timeline(clock)
             /\ Young(Young(tries[x], FailWindow), FailWindow) = Young(tries[x], FailWindow)
             /\ Append(Young(tries[x], FailWindow), clock) \in Timeline(clock)
             /\ Young(Append(Young(tries[x], FailWindow), clock), FailWindow)
                  = Append(Young(tries[x], FailWindow), clock)
  <2>1. InOrder /\ tries[x] \in Timeline(clock) BY DEF Counts, InOrder
  <2>2. PICK y : y = Young(tries[x], FailWindow) OBVIOUS
  <2>3. y \in Timeline(clock) /\ Young(y, FailWindow) = y BY <1>1, <2>1, <2>2, YoungAgain
  <2>4. /\ Append(y, clock) \in Timeline(clock)
        /\ Young(Append(y, clock), FailWindow) = Append(y, clock)
    BY <1>1, <2>1, <2>3, YoungBooked
  <2> QED BY <2>2, <2>3, <2>4
<1>3. PICK B : B = BookedShared(s) OBVIOUS
<1>4. B = [x \in Scopes |-> IF x = s THEN Append(Young(tries[x], FailWindow), clock)
                            ELSE Young(tries[x], FailWindow)]
  BY <1>3 DEF BookedShared
<1>5. B \in [Scopes -> Timeline(clock)] BY <1>2, <1>4
<1>6. \A x \in Scopes : Young(B[x], FailWindow)
                = IF x = s THEN Append(Young(tries[s], FailWindow), clock)
                  ELSE Young(tries[x], FailWindow)
  BY <1>2, <1>4
<1> QED BY <1>3, <1>5, <1>6

LEMMA WrongKeyCounts ==
  ASSUME Counts, NEW r \in Requests, WrongKey(r) PROVE Counts'
<1>0. InOrder BY DEF Counts
<1>1. FailWindow \in Nat \ {0} /\ FailWindow <= FailWindow BY AdmissionAssumption
<1>2. PICK u : u = Source[r] OBVIOUS
<1>3. u \in Scopes /\ u # Everyone /\ Everyone \in Scopes
  BY <1>2, AdmissionAssumption DEF Scopes
<1>4. /\ tries' = Book(u) /\ UNCHANGED <<clock, shared, window, counted>>
      /\ failed' = [s \in Scopes |-> IF s \in {Everyone, u}
                                      THEN Append(failed[s], clock) ELSE failed[s]]
  BY <1>2 DEF WrongKey
<1>5. tries \in [Scopes -> Timeline(clock)] /\ failed \in [Scopes -> Timeline(clock)]
  BY DEF Counts, InOrder
<1>6. \A s \in Scopes : /\ Append(failed[s], clock) \in Timeline(clock)
                        /\ Young(Append(failed[s], clock), FailWindow)
                           = Append(Young(failed[s], FailWindow), clock)
  BY <1>0, <1>1, <1>5, YoungBooked
<1>7. failed' \in [Scopes -> Timeline(clock)] BY <1>4, <1>5, <1>6
<1>8. \A s \in Scopes : Young(failed'[s], FailWindow)
         = IF s \in {Everyone, u} THEN Append(Young(failed[s], FailWindow), clock)
           ELSE Young(failed[s], FailWindow)
  BY <1>4, <1>6
<1>9. /\ req' \in [Requests -> Answers]
      /\ \A q \in Requests : Proper(q, req'[q])
  <2>1. CASE Tier[r] = "oauth" /\ req' = [req EXCEPT ![r] = "refused"]
    BY <2>1 DEF Counts, InOrder, Answers, Proper
  <2>2. req[r] \in {"counted", "extra"} BY DEF WrongKey
  <2>3. CASE Answered(r, FALSE) BY <2>2, <2>3, AnswerType
  <2> QED BY <2>1, <2>3 DEF WrongKey
<1>10. PICK B : B = IF shared THEN BookedShared(u) ELSE Booked(u) OBVIOUS
<1>11. /\ B \in [Scopes -> Timeline(clock)]
       /\ \A x \in Scopes : Young(B[x], FailWindow)
                = IF x = u THEN Append(Young(tries[u], FailWindow), clock)
                  ELSE Young(tries[x], FailWindow)
  BY <1>3, <1>10, BookedFacts, BookedSharedFacts
<1>12. PICK y : y = Young(tries[Everyone], FailWindow) OBVIOUS
<1>13. y \in Timeline(clock) /\ Young(y, FailWindow) = y
  BY <1>0, <1>1, <1>3, <1>5, <1>12, YoungAgain
<1>14. /\ Append(y, clock) \in Timeline(clock)
       /\ Young(Append(y, clock), FailWindow) = Append(y, clock)
  BY <1>0, <1>1, <1>13, YoungBooked
<1>15. tries' = [B EXCEPT ![Everyone] = Append(y, clock)]
  BY <1>4, <1>10, <1>12 DEF Book
<1>16. tries' \in [Scopes -> Timeline(clock)] BY <1>11, <1>14, <1>15
<1>17. \A s \in Scopes : Young(tries[s], FailWindow) = Young(failed[s], FailWindow)
  BY DEF Counts, BudgetHolds
<1>18. ASSUME NEW s \in Scopes
       PROVE  Young(tries'[s], FailWindow) = Young(failed'[s], FailWindow)
  <2>1. CASE s = Everyone
    <3>1. tries'[s] = Append(y, clock) BY <1>11, <1>15, <2>1
    <3> QED BY <1>8, <1>12, <1>14, <1>17, <2>1, <3>1
  <2>2. CASE s # Everyone
    <3>1. tries'[s] = B[s] BY <1>11, <1>15, <2>2
    <3> QED BY <1>3, <1>8, <1>11, <1>17, <2>2, <3>1
  <2> QED BY <2>1, <2>2
<1> QED BY <1>4, <1>7, <1>9, <1>16, <1>18, BudgetStep

LEMMA TickCounts ==
  ASSUME Counts, Tick PROVE Counts'
<1>0. InOrder BY DEF Counts
<1>1. clock \in Nat /\ clock' = clock + 1 /\ clock' \in Times /\ clock' \in Nat
  BY <1>0, ClockIsNat, AdmissionAssumption DEF Tick, Times
<1>2. /\ counted' = [k \in WinKeys |-> YoungAt(counted[k], Window[k[2]], clock')]
      /\ failed' = [s \in Scopes |-> YoungAt(failed[s], FailWindow, clock')]
      /\ UNCHANGED <<shared, window, req, tries>>
  BY DEF Tick
<1>3. \A s \in Timeline(clock) : s \in Timeline(clock') BY <1>1, TimelineGrows
<1>4. FailWindow \in Nat BY AdmissionAssumption
<1>5. \A k \in WinKeys :
        /\ window[k] \in Timeline(clock) /\ counted[k] \in Timeline(clock)
        /\ window[k] \in Timeline(clock') /\ counted[k] \in Timeline(clock')
  BY <1>3 DEF Counts, InOrder
<1>6. \A s \in Scopes :
        /\ tries[s] \in Timeline(clock) /\ failed[s] \in Timeline(clock)
        /\ tries[s] \in Timeline(clock') /\ failed[s] \in Timeline(clock')
  BY <1>3 DEF Counts, InOrder
<1>7. \A k \in WinKeys : YoungAt(counted[k], Window[k[2]], clock') \in Timeline(clock')
  BY <1>1, <1>5, TierFacts, YoungIsTimeline
<1>8. \A s \in Scopes : YoungAt(failed[s], FailWindow, clock') \in Timeline(clock')
  BY <1>1, <1>4, <1>6, YoungIsTimeline
<1>9. counted' \in [WinKeys -> Timeline(clock')] BY <1>2, <1>7
<1>10. failed' \in [Scopes -> Timeline(clock')] BY <1>2, <1>8
<1>11. window' \in [WinKeys -> Timeline(clock')] BY <1>2, <1>5 DEF Counts, InOrder
<1>12. tries' \in [Scopes -> Timeline(clock')] BY <1>2, <1>6 DEF Counts, InOrder
<1>13. InOrder' BY <1>1, <1>2, <1>9, <1>10, <1>11, <1>12 DEF Counts, InOrder
\* A moment later less is young of the same.
<1>14. ASSUME NEW s \in Timeline(clock), NEW w \in Nat
       PROVE  /\ YoungAt(YoungAt(s, w, clock), w, clock') = YoungAt(s, w, clock')
              /\ YoungAt(s, w, clock) \in Timeline(clock)
  BY <1>1, YoungOfYoung, YoungIsTimeline
<1>15. ASSUME NEW s \in Timeline(clock'), NEW w \in Nat
       PROVE  YoungAt(YoungAt(s, w, clock'), w, clock') = YoungAt(s, w, clock')
  BY <1>1, YoungOfYoung
<1>16. ASSUME NEW k \in WinKeys PROVE CountsAll(k)'
  <2>1. PICK w : w = Window[k[2]] OBVIOUS
  <2>2. w \in Nat BY <2>1, TierFacts
  <2>3. /\ YoungAt(counted[k], w, clock) = YoungAt(window[k], w, clock)
        /\ Len(YoungAt(window[k], w, clock)) <= Limit[k[2]]
    BY <2>1 DEF Counts, CountsAll, Young
  <2>4. counted'[k] = YoungAt(counted[k], w, clock') BY <1>2, <2>1
  <2>5. YoungAt(counted'[k], w, clock') = YoungAt(counted[k], w, clock')
    BY <1>5, <1>15, <2>2, <2>4
  <2>6. YoungAt(counted[k], w, clock') = YoungAt(window[k], w, clock')
    BY <1>5, <1>14, <2>2, <2>3
  <2>7. Len(YoungAt(window[k], w, clock')) <= Len(YoungAt(window[k], w, clock))
    BY <1>1, <1>5, <1>14, <2>2, YoungIsTimeline
  <2>8. Len(YoungAt(window[k], w, clock')) <= Limit[k[2]]
    <3>1. YoungAt(window[k], w, clock') \in Timeline(clock')
      BY <1>1, <1>5, <2>2, YoungIsTimeline
    <3>2. YoungAt(window[k], w, clock) \in Timeline(clock) BY <1>5, <1>14, <2>2
    <3>3. /\ Len(YoungAt(window[k], w, clock')) \in Nat
          /\ Len(YoungAt(window[k], w, clock)) \in Nat
      BY <1>1, <3>1, <3>2, TimelineFacts
    <3> QED BY <2>3, <2>7, <3>3, TierFacts
  <2> QED BY <1>2, <2>1, <2>5, <2>6, <2>8 DEF CountsAll, Young
<1>17. BudgetHolds'
  <2>1. ASSUME NEW s \in Scopes
        PROVE  YoungAt(tries'[s], FailWindow, clock') = YoungAt(failed'[s], FailWindow, clock')
    <3>1. YoungAt(tries[s], FailWindow, clock) = YoungAt(failed[s], FailWindow, clock)
      BY DEF Counts, BudgetHolds, Young
    <3>2. YoungAt(tries[s], FailWindow, clock') = YoungAt(failed[s], FailWindow, clock')
      BY <1>4, <1>6, <1>14, <3>1
    <3>3. YoungAt(failed'[s], FailWindow, clock') = YoungAt(failed[s], FailWindow, clock')
      BY <1>2, <1>4, <1>6, <1>15
    <3> QED BY <1>2, <3>2, <3>3
  <2> QED BY <1>2, <2>1 DEF BudgetHolds, Young
<1> QED BY <1>13, <1>16, <1>17 DEF Counts

LEMMA CountsInitially == Init => Counts
<1> SUFFICES ASSUME Init PROVE Counts OBVIOUS
<1>1. \A n, w : <<>> \in Timeline(n) /\ Young(<<>>, w) = <<>> BY NoEntries DEF Young
<1>2. 0 \in Times BY AdmissionAssumption DEF Times
<1>3. InOrder BY <1>1, <1>2 DEF Init, InOrder, Answers, Proper
<1>4. \A k \in WinKeys : CountsAll(k)
  <2> TAKE k \in WinKeys
  <2>1. Len(<<>>) <= Limit[k[2]] BY TierFacts
  <2> QED BY <1>1, <2>1 DEF Init, CountsAll
<1>5. BudgetHolds BY <1>1 DEF Init, BudgetHolds
<1> QED BY <1>3, <1>4, <1>5 DEF Counts

LEMMA RestartCounts ==
  ASSUME Counts, Restart PROVE Counts'
<1>1. /\ window' = [k \in WinKeys |-> <<>>] /\ counted' = [k \in WinKeys |-> <<>>]
      /\ req' = [r \in Requests |-> "out"] /\ clock' = clock /\ shared' = shared
      /\ tries' = IF shared THEN tries ELSE [s \in Scopes |-> <<>>]
      /\ failed' = IF shared THEN failed ELSE [s \in Scopes |-> <<>>]
  BY DEF Restart
<1>2. \A n, w, now : <<>> \in Timeline(n) /\ YoungAt(<<>>, w, now) = <<>> BY NoEntries
<1>3. InOrder'
  <2>1. tries' \in [Scopes -> Timeline(clock)] /\ failed' \in [Scopes -> Timeline(clock)]
    BY <1>1, <1>2 DEF Counts, InOrder
  <2>2. window' \in [WinKeys -> Timeline(clock)] /\ counted' \in [WinKeys -> Timeline(clock)]
    BY <1>1, <1>2
  <2> QED BY <1>1, <2>1, <2>2 DEF Counts, InOrder, Answers, Proper
<1>4. \A k \in WinKeys : CountsAll(k)'
  <2> TAKE k \in WinKeys
  <2>1. Len(<<>>) <= Limit[k[2]] BY TierFacts
  <2>2. window'[k] = <<>> /\ counted'[k] = <<>> BY <1>1
  <2> QED BY <1>2, <2>1, <2>2 DEF CountsAll, Young
<1>5. BudgetHolds'
  <2>1. CASE shared BY <1>1, <2>1 DEF Counts, BudgetHolds, Young
  <2>2. CASE ~shared
    <3>1. \A s \in Scopes : tries'[s] = <<>> /\ failed'[s] = <<>> BY <1>1, <2>2
    <3> QED BY <1>1, <2>2, <3>1 DEF BudgetHolds, Young
  <2> QED BY <2>1, <2>2
<1> QED BY <1>3, <1>4, <1>5 DEF Counts

LEMMA CountsPreserved == Counts /\ [Next]_vars => Counts'
<1> SUFFICES ASSUME Counts, [Next]_vars PROVE Counts' OBVIOUS
<1>1. ASSUME NEW r \in Requests, Admit(r) PROVE Counts' BY <1>1, AdmitCounts
<1>2. ASSUME NEW r \in Requests, LetThrough(r) \/ Refuse(r) PROVE Counts'
  <2>1. /\ window' = [window EXCEPT ![Key(r)] = Recent(r)]
        /\ UNCHANGED <<clock, shared, tries, failed, counted>>
    BY <1>2 DEF LetThrough, Refuse
  <2>2. /\ req' \in [Requests -> Answers]
        /\ \A q \in Requests : Proper(q, req'[q])
    BY <1>2 DEF LetThrough, Refuse, Counts, InOrder, Answers, Proper
  <2> QED BY <2>1, <2>2, CutCounts
<1>3. ASSUME NEW r \in Requests, RightKey(r) PROVE Counts' BY <1>3, RightKeyCounts
<1>4. ASSUME NEW r \in Requests, WrongKey(r) PROVE Counts' BY <1>4, WrongKeyCounts
<1>5. ASSUME NEW r \in Requests,
             Handle(r) \/ Raises(r) \/ SendRefusal(r) \/ Deny(r) \/ Break(r)
      PROVE  Counts'
  <2>1. UNCHANGED <<clock, shared, window, tries, counted, failed>>
    BY <1>5 DEF Handle, Raises, SendRefusal, Deny, Break
  <2>2. /\ req' \in [Requests -> Answers]
        /\ \A q \in Requests : Proper(q, req'[q])
    <3>1. CASE Handle(r) BY <3>1, AnswerType DEF Handle
    <3>2. CASE Raises(r) \/ SendRefusal(r) \/ Deny(r) \/ Break(r)
      BY <3>2, RequestLeaves DEF Raises, Raised, SendRefusal, Deny, Break
    <3> QED BY <1>5, <3>1, <3>2
  <2> QED BY <2>1, <2>2 DEF Counts, InOrder, CountsAll, BudgetHolds, Young
<1>6. ASSUME NEW r \in Requests, Release(r) PROVE Counts' BY <1>6, ReleaseCounts
<1>7. CASE Tick BY <1>7, TickCounts
<1>8. CASE Restart BY <1>8, RestartCounts
<1>9. CASE UNCHANGED vars
  BY <1>9 DEF vars, Counts, InOrder, CountsAll, BudgetHolds, Young
<1> QED BY <1>1, <1>2, <1>3, <1>4, <1>5, <1>6, <1>7, <1>8, <1>9 DEF Next

\* For all limits, windows and thresholds of pruning, and any number of requests
\* under way: within its window no source is counted more often than the limit of the
\* tier allows, unless a login has given the window up; the logins that are let
\* through beyond the limit are not counted.
THEOREM LimitsHold == Spec => []AdmittedWithinLimit
<1>1. Counts => AdmittedWithinLimit
  <2> SUFFICES ASSUME Counts, NEW k \in WinKeys
               PROVE  Len(Young(counted[k], Window[k[2]])) <= Limit[k[2]]
    BY DEF AdmittedWithinLimit
  <2>1. /\ Young(counted[k], Window[k[2]]) = Young(window[k], Window[k[2]])
        /\ Len(Young(window[k], Window[k[2]])) <= Limit[k[2]]
    BY DEF Counts, CountsAll
  <2> QED BY <2>1
<1> QED BY <1>1, CountsInitially, CountsPreserved, PTL DEF Spec

\* For all of them: neither cutting nor pruning nor a right key takes a failure that
\* counts out of the budget it belongs to.
THEOREM BudgetIsKept == Spec => []BudgetHolds
<1>1. Counts => BudgetHolds BY DEF Counts
<1> QED BY <1>1, CountsInitially, CountsPreserved, PTL DEF Spec

\* For all of them, all budgets and both stores: the 429 of /oauth/authorize says
\* exactly that the keys answered as wrong, wherever they were tried, exceed a budget.
THEOREM RefusesOverBudget == Spec => RefusedOverBudget
<1> DEFINE OverBudget(r) ==
        \/ Len(Young(failed'[Everyone], FailWindow)) > GlobalBudget
        \/ Len(Young(failed'[Source[r]], FailWindow)) > SourceBudget
<1>1. ASSUME Counts, NEW r \in Requests, Tier[r] = "oauth", WrongKey(r)
      PROVE  req'[r] = "refused" <=> OverBudget(r)
  <2>1. Everyone \in Scopes /\ Source[r] \in Scopes BY AdmissionAssumption DEF Scopes
  <2>2. BudgetHolds' /\ clock' = clock BY <1>1, WrongKeyCounts DEF Counts, WrongKey
  <2>3. \A s \in Scopes : Young(tries'[s], FailWindow) = Young(failed'[s], FailWindow)
    BY <2>2 DEF BudgetHolds, Young
  <2>4. Blocked(tries', Source[r]) <=> OverBudget(r) BY <2>1, <2>3 DEF Blocked
  <2>5. req \in [Requests -> Answers] BY <1>1 DEF Counts, InOrder
  <2>6. CASE Blocked(tries', Source[r]) BY <1>1, <2>4, <2>5, <2>6 DEF WrongKey
  <2>7. CASE ~Blocked(tries', Source[r])
    <3>1. req'[r] \in {"out", "denied"} BY <1>1, <2>5, <2>7 DEF WrongKey, Answered
    <3> QED BY <2>4, <2>7, <3>1
  <2> QED BY <2>6, <2>7
<1>2. Counts => [\A r \in Requests : Tier[r] = "oauth" /\ WrongKey(r) =>
                    (req'[r] = "refused" <=> OverBudget(r))]_vars
  BY <1>1
<1> QED BY <1>2, CountsInitially, CountsPreserved, PTL DEF Spec, RefusedOverBudget

\* For all of them: only logins go on beyond their limit.
THEOREM TypeCorrect == Spec => []TypeOK
<1>1. Counts => TypeOK
  <2> SUFFICES ASSUME Counts PROVE TypeOK OBVIOUS
  <2>1. Timeline(clock) \subseteq Seq(Times) BY DEF Timeline
  <2>2. window \in [WinKeys -> Seq(Times)] BY <2>1 DEF Counts, InOrder
  <2>3. tries \in [Scopes -> Seq(Times)] BY <2>1 DEF Counts, InOrder
  <2> QED BY <2>2, <2>3 DEF Counts, InOrder, TypeOK, Answers, Proper
<1> QED BY <1>1, CountsInitially, CountsPreserved, PTL DEF Spec
=============================================================================
