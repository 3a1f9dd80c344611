------------------------- MODULE ComputationsProofs -------------------------
(***************************************************************************)
(* Proofs about the computations: that the two sliding windows keep their  *)
(* limits, for any numbers of clients, accounts and log-ins under way, any *)
(* limits and any order the threads take the lock in; and that what        *)
(* becomes a rule set can be run, for every list of requirements a model   *)
(* may answer and every list of fields an administrator may give; and that *)
(* what was not read is not judged, for every list of pages of a PDF,      *)
(* every limit on OCR and every list of fragments on a page; and, for any  *)
(* document, what it means that the order of its sections, its page        *)
(* numbers or two of its fields are found to be in order.                  *)
(***************************************************************************)
EXTENDS Computations, FiniteSetTheorems, SequenceTheorems, WellFoundedInduction, TLAPS

-----------------------------------------------------------------------------
(* Numbers.                                                                *)

\* A set of natural numbers that is not empty has a least one.
LEMMA LeastNumber ==
  ASSUME NEW S \in SUBSET Nat, S # {}
  PROVE  \E x \in S : \A y \in S : x <= y
<1>1. PICK x \in S : \A y \in S : <<y, x>> \notin OpToRel(<, Nat)
  BY NatLessThanWellFounded, WFMin
<1>2. \A y \in S : ~(y < x)
  BY <1>1 DEF OpToRel
<1> QED BY <1>2

-----------------------------------------------------------------------------
(* The two sliding windows.                                                *)

\* What a window remembers is the end of what it let through.
TailOf(s, times) ==
  /\ Len(s) <= Len(times)
  /\ \A i \in 1 .. Len(s) : s[i] = times[Len(times) - Len(s) + i]

\* What is let through has its order, and lies in the past.
Ordered(times) == \A i, j \in 1 .. Len(times) : i < j => times[i] <= times[j]
Past(times)    == \A i \in 1 .. Len(times) : times[i] <= clock

\* What is let through and not remembered is more than a minute old.
Forgotten(s, times) == \A i \in 1 .. Len(times) - Len(s) : times[i] + Minute < clock

Stamps(a) == [i \in 1 .. Len(admitted[a]) |-> admitted[a][i].at]
Whens(a)  == [i \in 1 .. Len(admitted[a]) |-> admitted[a][i].when]

Known == {a \in Accounts : admitted[a] # <<>>}

WindowTypes ==
  /\ clock \in Nat
  /\ requests \in [Clients -> Seq(Nat)]
  /\ passed \in [Clients -> Seq(Nat)]
  /\ logins \in [DOMAIN logins -> Seq(Nat)] /\ DOMAIN logins \subseteq Known
  /\ admitted \in [Accounts -> Seq([at : Nat, when : Nat])]
  /\ pending \subseteq [id : Attempts, account : Accounts, at : Nat \union {Unread}]
  /\ \A p \in pending : p.at <= clock

RequestsKept(c) ==
  /\ Len(requests[c]) <= RequestLimit
  /\ TailOf(requests[c], passed[c]) /\ Forgotten(requests[c], passed[c])
  /\ Ordered(passed[c]) /\ Past(passed[c])

LoginsKept(a) ==
  /\ Len(EventsOf(a)) <= LoginLimit
  /\ TailOf(EventsOf(a), Stamps(a))
  /\ Cardinality(Known) <= MaxKeys => Forgotten(EventsOf(a), Stamps(a))
  /\ \A i \in 1 .. Len(admitted[a]) : admitted[a][i].at <= admitted[a][i].when
  /\ Ordered(Whens(a)) /\ Past(Whens(a))

WindowInv ==
  /\ WindowTypes
  /\ \A c \in Clients : RequestsKept(c)
  /\ \A a \in Accounts : LoginsKept(a)
  /\ WindowHolds

\* The loop of popleft drops from the front what is too old, and nothing else.
LEMMA RecentIs ==
  ASSUME NEW s \in Seq(Nat), NEW now \in Nat
  PROVE  \E d \in 0 .. Len(s) :
            /\ Recent(s, now) = SubSeq(s, d + 1, Len(s))
            /\ \A i \in 1 .. d : s[i] + Minute < now
            /\ d < Len(s) => s[d + 1] + Minute >= now
<1> DEFINE kept == {n \in 1 .. Len(s) + 1 : n > Len(s) \/ s[n] >= now - Minute}
<1>0. Minute \in Nat /\ Len(s) \in Nat /\ \A i \in 1 .. Len(s) : s[i] \in Nat
  BY WindowAssumption
<1>1. Len(s) + 1 \in kept /\ kept \in SUBSET Nat
  BY <1>0
<1>2. PICK n \in kept : \A m \in kept : n <= m
  <2> HIDE DEF kept
  <2> QED BY <1>1, LeastNumber
<1>3. \A i \in 1 .. n - 1 : s[i] < now - Minute
  BY <1>0, <1>2
<1> DEFINE First(m) == /\ m > Len(s) \/ s[m] >= now - Minute
                       /\ \A i \in 1 .. m - 1 : s[i] < now - Minute
<1>4. n \in 1 .. Len(s) + 1 /\ First(n)
  BY <1>2, <1>3
<1>5. FirstKept(s, now - Minute) = CHOOSE m \in 1 .. Len(s) + 1 : First(m)
  BY DEF FirstKept
<1> HIDE DEF First
<1>6. PICK m \in 1 .. Len(s) + 1 : m = FirstKept(s, now - Minute) /\ First(m)
  BY <1>4, <1>5
<1>7. m - 1 \in 0 .. Len(s) /\ (m - 1) + 1 = m
  BY <1>0
<1>8. Recent(s, now) = SubSeq(s, (m - 1) + 1, Len(s))
  BY <1>6, <1>7 DEF Recent
<1>9. (\A i \in 1 .. m - 1 : s[i] + Minute < now) /\ (m - 1 < Len(s) => s[m] + Minute >= now)
  BY <1>0, <1>6 DEF First
<1> QED BY <1>7, <1>8, <1>9

\* What is left of the end of a history is an end of it, and what was dropped
\* from it is more than a minute old.
LEMMA RecentTail ==
  ASSUME NEW s \in Seq(Nat), NEW times \in Seq(Nat), NEW now \in Nat, TailOf(s, times),
         NEW r, r = Recent(s, now)
  PROVE  /\ r \in Seq(Nat) /\ Len(r) <= Len(s)
         /\ TailOf(r, times)
         /\ \A i \in 1 .. Len(times) - Len(r) : i <= Len(times) - Len(s) \/ times[i] + Minute < now
         /\ r # <<>> => times[Len(times) - Len(r) + 1] + Minute >= now
<1>1. PICK d \in 0 .. Len(s) : /\ Recent(s, now) = SubSeq(s, d + 1, Len(s))
                               /\ \A i \in 1 .. d : s[i] + Minute < now
                               /\ d < Len(s) => s[d + 1] + Minute >= now
  BY RecentIs
<1>2. r \in Seq(Nat) /\ Len(r) = Len(s) - d /\ \A i \in 1 .. Len(s) - d : r[i] = s[d + i]
  <2>1. d + 1 \in 1 .. Len(s) + 1 /\ Len(s) \in d .. Len(s) /\ Len(s) \in Nat
    OBVIOUS
  <2> QED BY <1>1, <2>1, SubSeqProperties
<1>3. Len(times) \in Nat /\ Len(s) <= Len(times) /\ Len(s) \in Nat /\ Minute \in Nat
  BY WindowAssumption DEF TailOf
<1>4. \A i \in 1 .. Len(s) : s[i] = times[Len(times) - Len(s) + i]
  BY DEF TailOf
<1>5. TailOf(r, times)
  <2>1. \A i \in 1 .. Len(r) : r[i] = times[Len(times) - Len(r) + i]
    <3> SUFFICES ASSUME NEW i \in 1 .. Len(r) PROVE r[i] = times[Len(times) - Len(r) + i]
      OBVIOUS
    <3>1. d + i \in 1 .. Len(s) /\ Len(times) - Len(s) + (d + i) = Len(times) - Len(r) + i
      BY <1>2, <1>3
    <3> QED BY <1>2, <1>4, <3>1
  <2> QED BY <1>2, <1>3, <2>1 DEF TailOf
<1>6. ASSUME NEW i \in 1 .. Len(times) - Len(r), ~(i <= Len(times) - Len(s))
      PROVE  times[i] + Minute < now
  <2> DEFINE k == i - (Len(times) - Len(s))
  <2>1. k \in 1 .. d /\ i = Len(times) - Len(s) + k
    BY <1>2, <1>3, <1>6
  <2>2. s[k] = times[i]
    BY <1>3, <1>4, <2>1
  <2> QED BY <1>1, <2>1, <2>2
<1>7. ASSUME r # <<>> PROVE times[Len(times) - Len(r) + 1] + Minute >= now
  <2>1. Len(r) > 0
    BY <1>2, <1>7, EmptySeq
  <2>2. d < Len(s) /\ r[1] = s[d + 1]
    <3>1. d < Len(s) /\ 1 \in 1 .. Len(s) - d
      BY <1>2, <1>3, <2>1
    <3> QED BY <1>2, <3>1
  <2>3. r[1] = times[Len(times) - Len(r) + 1]
    BY <1>2, <1>5, <2>1 DEF TailOf
  <2> QED BY <1>1, <2>2, <2>3
<1> QED BY <1>2, <1>5, <1>6, <1>7

\* An event noted at both ends leaves one the end of the other.
LEMMA AppendTail ==
  ASSUME NEW s \in Seq(Nat), NEW times \in Seq(Nat), TailOf(s, times), NEW x \in Nat
  PROVE  TailOf(Append(s, x), Append(times, x))
<1>1. /\ Len(Append(s, x)) = Len(s) + 1 /\ Len(Append(times, x)) = Len(times) + 1
      /\ Append(s, x)[Len(s) + 1] = x /\ Append(times, x)[Len(times) + 1] = x
      /\ \A i \in 1 .. Len(s) : Append(s, x)[i] = s[i]
      /\ \A i \in 1 .. Len(times) : Append(times, x)[i] = times[i]
  BY AppendProperties
<1>2. Len(s) \in Nat /\ Len(times) \in Nat /\ Len(s) <= Len(times)
  BY DEF TailOf
<1>3. ASSUME NEW i \in 1 .. Len(s) + 1
      PROVE  Append(s, x)[i] = Append(times, x)[Len(times) - Len(s) + i]
  <2>1. CASE i = Len(s) + 1
    BY <1>1, <1>2, <2>1
  <2>2. CASE i \in 1 .. Len(s)
    <3>1. Len(times) - Len(s) + i \in 1 .. Len(times)
      BY <1>2, <2>2
    <3>2. s[i] = times[Len(times) - Len(s) + i]
      BY <2>2 DEF TailOf
    <3> QED BY <1>1, <2>2, <3>1, <3>2
  <2>3. i = Len(s) + 1 \/ i \in 1 .. Len(s)
    BY <1>2
  <2> QED BY <2>1, <2>2, <2>3
<1> DEFINE u == Append(s, x)
           t == Append(times, x)
<1>4. Len(u) = Len(s) + 1 /\ Len(t) = Len(times) + 1
  BY <1>1
<1>5. \A i \in 1 .. Len(s) + 1 : u[i] = t[Len(times) - Len(s) + i]
  BY <1>3
<1> HIDE DEF u, t
<1>6. \A i \in 1 .. Len(u) : u[i] = t[Len(t) - Len(u) + i]
  <2> SUFFICES ASSUME NEW i \in 1 .. Len(u) PROVE u[i] = t[Len(t) - Len(u) + i]
    OBVIOUS
  <2>1. Len(t) - Len(u) + i = Len(times) - Len(s) + i
    BY <1>2, <1>4
  <2> QED BY <1>4, <1>5, <2>1
<1>7. TailOf(u, t)
  BY <1>2, <1>4, <1>6 DEF TailOf
<1> QED BY <1>7 DEF u, t

\* A history that is ordered and past stays so with an event of the present.
LEMMA AppendOrdered ==
  ASSUME NEW times \in Seq(Nat), clock \in Nat, Ordered(times), Past(times)
  PROVE  Ordered(Append(times, clock)) /\ Past(Append(times, clock))
<1>1. /\ Len(Append(times, clock)) = Len(times) + 1 /\ Append(times, clock)[Len(times) + 1] = clock
      /\ \A i \in 1 .. Len(times) : Append(times, clock)[i] = times[i]
  BY AppendProperties
<1>2. Len(times) \in Nat /\ \A i \in 1 .. Len(times) : times[i] \in Nat
  OBVIOUS
<1> QED BY <1>1, <1>2 DEF Ordered, Past

\* What is known of an account: sequences of times.
LEMMA TimesOf ==
  ASSUME WindowTypes, NEW a \in Accounts
  PROVE  /\ EventsOf(a) \in Seq(Nat)
         /\ admitted[a] \in Seq([at : Nat, when : Nat]) /\ Len(admitted[a]) \in Nat
         /\ Stamps(a) \in Seq(Nat) /\ Len(Stamps(a)) = Len(admitted[a])
         /\ Whens(a) \in Seq(Nat) /\ Len(Whens(a)) = Len(admitted[a])
         /\ \A i \in 1 .. Len(admitted[a]) :
               /\ admitted[a][i] \in [at : Nat, when : Nat]
               /\ Stamps(a)[i] = admitted[a][i].at /\ Whens(a)[i] = admitted[a][i].when
<1>1. EventsOf(a) \in Seq(Nat)
  <2>1. <<>> \in Seq(Nat)
    OBVIOUS
  <2>2. \A b \in DOMAIN logins : logins[b] \in Seq(Nat)
    BY DEF WindowTypes
  <2> QED BY <2>1, <2>2 DEF EventsOf
<1>2. admitted[a] \in Seq([at : Nat, when : Nat])
  BY DEF WindowTypes
<1>3. Len(admitted[a]) \in Nat
      /\ \A i \in 1 .. Len(admitted[a]) : admitted[a][i] \in [at : Nat, when : Nat]
  BY <1>2, LenProperties, ElementOfSeq
<1>4. \A i \in 1 .. Len(admitted[a]) : admitted[a][i].at \in Nat /\ admitted[a][i].when \in Nat
  BY <1>3
<1>5. Stamps(a) \in Seq(Nat) /\ Len(Stamps(a)) = Len(admitted[a])
  BY <1>3, <1>4 DEF Stamps
<1>6. Whens(a) \in Seq(Nat) /\ Len(Whens(a)) = Len(admitted[a])
  BY <1>3, <1>4 DEF Whens
<1> QED BY <1>1, <1>2, <1>3, <1>5, <1>6 DEF Stamps, Whens

\* What holds of a window goes on to hold while nothing enters it.
LEMMA RequestsStay ==
  ASSUME WindowInv, UNCHANGED <<requests, passed>>, clock' \in Nat, clock <= clock'
  PROVE  (\A c \in Clients : RequestsKept(c)') /\ RequestsLimited'
<1>1. clock \in Nat /\ Minute \in Nat /\ requests \in [Clients -> Seq(Nat)]
      /\ passed \in [Clients -> Seq(Nat)]
  BY WindowAssumption DEF WindowInv, WindowTypes
<1>2. ASSUME NEW c \in Clients PROVE RequestsKept(c)'
  <2> DEFINE s == requests[c]
             t == passed[c]
  <2>1. s \in Seq(Nat) /\ t \in Seq(Nat) /\ RequestsKept(c)
    BY <1>1 DEF WindowInv
  <2>2. Len(t) \in Nat /\ Len(s) \in Nat /\ \A i \in 1 .. Len(t) : t[i] \in Nat
    BY <2>1
  <2>3. \A i \in 1 .. Len(t) - Len(s) : i \in 1 .. Len(t)
    BY <2>2
  <2>4. Past(t)' /\ Forgotten(s, t)'
    BY <1>1, <2>1, <2>2, <2>3 DEF RequestsKept, Past, Forgotten
  <2> QED BY <2>1, <2>4 DEF RequestsKept, Ordered, TailOf
<1>3. RequestsLimited'
  BY DEF WindowInv, WindowHolds, RequestsLimited
<1> QED BY <1>2, <1>3

LEMMA LoginsStay ==
  ASSUME WindowInv, UNCHANGED <<logins, admitted>>, clock' \in Nat, clock <= clock'
  PROVE  (\A a \in Accounts : LoginsKept(a)') /\ LoginsLimited'
<1>1. clock \in Nat /\ Minute \in Nat /\ admitted \in [Accounts -> Seq([at : Nat, when : Nat])]
      /\ logins \in [DOMAIN logins -> Seq(Nat)]
  BY WindowAssumption DEF WindowInv, WindowTypes
<1>2. Known' = Known
  BY DEF Known
<1>3. ASSUME NEW a \in Accounts PROVE LoginsKept(a)'
  <2> DEFINE s == EventsOf(a)
             t == Stamps(a)
             w == Whens(a)
  <2>1. s \in Seq(Nat) /\ t \in Seq(Nat) /\ w \in Seq(Nat) /\ LoginsKept(a)
    BY TimesOf DEF WindowInv
  <2>2. EventsOf(a)' = s /\ Stamps(a)' = t /\ Whens(a)' = w
    BY DEF EventsOf, Stamps, Whens
  <2>3. Len(t) \in Nat /\ Len(s) \in Nat /\ Len(w) \in Nat
        /\ (\A i \in 1 .. Len(t) : t[i] \in Nat) /\ \A i \in 1 .. Len(w) : w[i] \in Nat
    BY <2>1
  <2>4. \A i \in 1 .. Len(t) - Len(s) : i \in 1 .. Len(t)
    BY <2>3
  <2> HIDE DEF s, t, w
  <2>5. (Past(w) => \A i \in 1 .. Len(w) : w[i] <= clock')
        /\ (Forgotten(s, t) => \A i \in 1 .. Len(t) - Len(s) : t[i] + Minute < clock')
    BY <1>1, <2>3, <2>4 DEF Past, Forgotten
  <2>6. Past(w)' = (\A i \in 1 .. Len(w)' : w[i]' <= clock')
        /\ Forgotten(s, t)' = (\A i \in 1 .. (Len(t) - Len(s))' : t[i]' + Minute < clock')
    BY DEF Past, Forgotten
  <2> QED BY <1>2, <2>1, <2>2, <2>5, <2>6 DEF LoginsKept, Ordered, TailOf, Past, Forgotten, s, t, w
<1>4. LoginsLimited'
  BY DEF WindowInv, WindowHolds, LoginsLimited
<1> QED BY <1>3, <1>4

\* What the windows look at when they decide.
LEMMA RecentRequests ==
  ASSUME WindowInv, NEW c \in Clients, NEW r, r = Recent(requests[c], clock)
  PROVE  /\ r \in Seq(Nat) /\ Len(r) \in Nat /\ Len(r) <= RequestLimit
         /\ TailOf(r, passed[c]) /\ Forgotten(r, passed[c])
         /\ r # <<>> => passed[c][Len(passed[c]) - Len(r) + 1] + Minute >= clock
<1> DEFINE t == passed[c]
<1>0. /\ clock \in Nat /\ requests[c] \in Seq(Nat) /\ t \in Seq(Nat) /\ RequestsKept(c)
      /\ Minute \in Nat /\ RequestLimit \in Nat
  BY WindowAssumption DEF WindowInv, WindowTypes
<1>1. /\ r \in Seq(Nat) /\ Len(r) <= Len(requests[c]) /\ TailOf(r, t)
      /\ \A i \in 1 .. Len(t) - Len(r) : i <= Len(t) - Len(requests[c]) \/ t[i] + Minute < clock
      /\ r # <<>> => t[Len(t) - Len(r) + 1] + Minute >= clock
  BY <1>0, RecentTail DEF RequestsKept
<1>2. Len(r) \in Nat /\ Len(t) \in Nat /\ Len(requests[c]) \in Nat /\ Len(r) <= RequestLimit
  BY <1>0, <1>1 DEF RequestsKept
<1>3. \A i \in 1 .. Len(t) - Len(r) : t[i] + Minute < clock
  <2>1. \A i \in 1 .. Len(t) - Len(requests[c]) : t[i] + Minute < clock
    BY <1>0 DEF RequestsKept, Forgotten
  <2>2. \A i \in 1 .. Len(t) - Len(r) :
           i <= Len(t) - Len(requests[c]) => i \in 1 .. Len(t) - Len(requests[c])
    BY <1>2
  <2> HIDE DEF t
  <2> QED BY <1>1, <2>1, <2>2
<1> QED BY <1>1, <1>2, <1>3 DEF Forgotten

LEMMA RecentLogins ==
  ASSUME WindowInv, NEW a \in Accounts, NEW now \in Nat, now <= clock,
         NEW r, r = Recent(EventsOf(a), now)
  PROVE  /\ r \in Seq(Nat) /\ Len(r) \in Nat /\ Len(r) <= LoginLimit
         /\ TailOf(r, Stamps(a)) /\ (Cardinality(Known) <= MaxKeys => Forgotten(r, Stamps(a)))
         /\ r # <<>> => EventsOf(a) # <<>> /\ Stamps(a)[Len(Stamps(a)) - Len(r) + 1] + Minute >= now
<1> DEFINE t == Stamps(a)
           e == EventsOf(a)
<1>0. /\ clock \in Nat /\ e \in Seq(Nat) /\ t \in Seq(Nat) /\ LoginsKept(a)
      /\ Minute \in Nat /\ LoginLimit \in Nat
  BY WindowAssumption, TimesOf DEF WindowInv, WindowTypes
<1>1. /\ r \in Seq(Nat) /\ Len(r) <= Len(e) /\ TailOf(r, t)
      /\ \A i \in 1 .. Len(t) - Len(r) : i <= Len(t) - Len(e) \/ t[i] + Minute < now
      /\ r # <<>> => t[Len(t) - Len(r) + 1] + Minute >= now
  BY <1>0, RecentTail DEF LoginsKept
<1>2. Len(r) \in Nat /\ Len(t) \in Nat /\ Len(e) \in Nat /\ Len(r) <= LoginLimit
  BY <1>0, <1>1 DEF LoginsKept
<1>3. ASSUME Cardinality(Known) <= MaxKeys PROVE \A i \in 1 .. Len(t) - Len(r) : t[i] + Minute < clock
  <2>1. \A i \in 1 .. Len(t) - Len(e) : t[i] + Minute < clock
    BY <1>0, <1>3 DEF LoginsKept, Forgotten
  <2>2. \A i \in 1 .. Len(t) - Len(r) : i <= Len(t) - Len(e) => i \in 1 .. Len(t) - Len(e)
    BY <1>2
  <2>3. \A i \in 1 .. Len(t) - Len(r) : t[i] \in Nat
    BY <1>0, <1>2
  <2> SUFFICES ASSUME NEW i \in 1 .. Len(t) - Len(r) PROVE t[i] + Minute < clock
    OBVIOUS
  <2>4. CASE i <= Len(t) - Len(e)
    BY <2>1, <2>2, <2>4
  <2>5. CASE t[i] + Minute < now
    BY <1>0, <2>3, <2>5
  <2> QED BY <1>1, <2>4, <2>5
<1>4. r # <<>> => e # <<>>
  BY <1>1, <1>2, EmptySeq
<1> QED BY <1>1, <1>2, <1>3, <1>4 DEF Forgotten

\* A request that is let through: RequestLimit before it there was one more than
\* a minute ago, or none.
LEMMA RequestKeeps ==
  ASSUME WindowInv, NEW c \in Clients, Request(c)
  PROVE  WindowInv'
<1>0. /\ WindowTypes /\ RequestsKept(c) /\ RequestsLimited
      /\ clock \in Nat /\ Minute \in Nat /\ RequestLimit \in Nat
      /\ requests[c] \in Seq(Nat) /\ passed[c] \in Seq(Nat)
  BY WindowAssumption DEF WindowInv, WindowTypes, WindowHolds
<1> DEFINE t == passed[c]
           r == Recent(requests[c], clock)
<1>1. r \in Seq(Nat) /\ TailOf(r, t)
  BY RecentRequests
<1>2. Len(r) \in Nat /\ Len(t) \in Nat /\ Len(r) < RequestLimit
  BY <1>0, RecentRequests DEF Request
<1>3. \A i \in 1 .. Len(t) - Len(r) : t[i] + Minute < clock
  BY RecentRequests DEF Forgotten
<1>4. /\ requests' = [requests EXCEPT ![c] = Append(r, clock)]
      /\ passed' = [passed EXCEPT ![c] = Append(t, clock)]
      /\ UNCHANGED <<clock, logins, admitted>> /\ refused' = {}
  BY DEF Request
<1> HIDE DEF r
<1>5. /\ Append(r, clock) \in Seq(Nat) /\ Append(t, clock) \in Seq(Nat)
      /\ Len(Append(r, clock)) = Len(r) + 1 /\ Len(Append(t, clock)) = Len(t) + 1
      /\ Append(t, clock)[Len(t) + 1] = clock
      /\ \A i \in 1 .. Len(t) : Append(t, clock)[i] = t[i]
  BY <1>0, <1>1, AppendProperties
<1>6. RequestsKept(c)'
  <2> DEFINE s1 == Append(r, clock)
             t1 == Append(t, clock)
  <2>1. TailOf(s1, t1) /\ Ordered(t1) /\ Past(t1)
    BY <1>0, <1>1, AppendTail, AppendOrdered DEF RequestsKept
  <2>2. Forgotten(s1, t1)
    BY <1>2, <1>3, <1>5 DEF Forgotten
  <2>3. requests[c]' = s1 /\ passed[c]' = t1 /\ clock' = clock
    BY <1>4, <1>0 DEF WindowTypes
  <2>4. Len(s1) <= RequestLimit
    BY <1>2, <1>5, <1>0
  <2> HIDE DEF s1, t1
  <2> QED BY <2>1, <2>2, <2>3, <2>4 DEF RequestsKept, TailOf, Forgotten, Ordered, Past
<1>7. \A d \in Clients : d # c => RequestsKept(d)'
  <2> SUFFICES ASSUME NEW d \in Clients, d # c PROVE RequestsKept(d)'
    OBVIOUS
  <2>1. requests[d]' = requests[d] /\ passed[d]' = passed[d] /\ clock' = clock
    BY <1>0, <1>4 DEF WindowTypes
  <2>2. RequestsKept(d)
    BY DEF WindowInv
  <2> QED BY <2>1, <2>2 DEF RequestsKept, TailOf, Forgotten, Ordered, Past
<1>8. RequestsLimited'
  <2> SUFFICES ASSUME NEW d \in Clients, NEW i \in DOMAIN passed'[d], i > RequestLimit
               PROVE  passed'[d][i] > passed'[d][i - RequestLimit] + Minute
    BY DEF RequestsLimited
  <2>1. CASE d # c
    <3>1. passed'[d] = passed[d]
      BY <1>0, <1>4, <2>1 DEF WindowTypes
    <3> QED BY <1>0, <3>1 DEF RequestsLimited
  <2>2. CASE d = c /\ i \in 1 .. Len(t)
    <3>1. passed'[d] = Append(t, clock) /\ i \in DOMAIN passed[c]
      BY <1>0, <1>4, <2>2 DEF WindowTypes
    <3>2. i - RequestLimit \in 1 .. Len(t)
      BY <1>0, <1>2, <2>2
    <3> QED BY <1>0, <1>5, <2>2, <3>1, <3>2 DEF RequestsLimited
  <2>3. CASE d = c /\ i = Len(t) + 1
    <3>1. passed'[d] = Append(t, clock)
      BY <1>0, <1>4, <2>3 DEF WindowTypes
    <3>2. i - RequestLimit \in 1 .. Len(t) - Len(r) /\ i - RequestLimit \in 1 .. Len(t)
      BY <1>0, <1>2, <2>3
    <3>3. t[i - RequestLimit] \in Nat
      BY <1>0, <3>2
    <3> QED BY <1>0, <1>3, <1>5, <2>3, <3>1, <3>2, <3>3
  <2>4. d # c \/ (d = c /\ i \in 1 .. Len(t)) \/ (d = c /\ i = Len(t) + 1)
    <3>1. CASE d = c
      <4>1. passed'[d] = Append(t, clock)
        BY <1>0, <1>4, <3>1 DEF WindowTypes
      <4>2. DOMAIN Append(t, clock) = 1 .. Len(t) + 1
        BY <1>5
      <4>3. i \in 1 .. Len(t) + 1
        BY <4>1, <4>2
      <4> QED BY <1>2, <3>1, <4>3
    <3> QED BY <3>1
  <2> QED BY <2>1, <2>2, <2>3, <2>4
<1>9. WindowTypes'
  <2>1. requests' \in [Clients -> Seq(Nat)] /\ passed' \in [Clients -> Seq(Nat)]
    BY <1>0, <1>4, <1>5 DEF WindowTypes
  <2>2. /\ pending' \subseteq [id : Attempts, account : Accounts, at : Nat \union {Unread}]
        /\ \A p \in pending' : p.at <= clock
    <3>1. CASE pending' = pending
      BY <1>0, <3>1 DEF WindowTypes
    <3>2. CASE \E id \in Attempts \ {p.id : p \in pending}, account \in Accounts :
                  pending' = pending \union {[id |-> id, account |-> account, at |-> Unread]}
      BY <1>0, <3>2 DEF WindowTypes, Unread
    <3> QED BY <3>1, <3>2 DEF Request
  <2> QED BY <1>0, <1>4, <2>1, <2>2 DEF WindowTypes, Known
<1>10. (\A a \in Accounts : LoginsKept(a)') /\ LoginsLimited'
  BY <1>0, <1>4, LoginsStay
<1>11. RefusedForCause'
  BY <1>4 DEF RefusedForCause
<1> QED BY <1>6, <1>7, <1>8, <1>9, <1>10, <1>11 DEF WindowInv, WindowHolds

\* A request that is refused finds RequestLimit of them in the minute before.
LEMMA RequestRefusedKeeps ==
  ASSUME WindowInv, NEW c \in Clients, RequestRefused(c)
  PROVE  WindowInv'
<1>0. /\ WindowTypes /\ RequestsKept(c) /\ RequestsLimited
      /\ clock \in Nat /\ Minute \in Nat /\ RequestLimit \in Nat \ {0}
      /\ requests[c] \in Seq(Nat) /\ passed[c] \in Seq(Nat)
  BY WindowAssumption DEF WindowInv, WindowTypes, WindowHolds
<1> DEFINE t == passed[c]
           r == Recent(requests[c], clock)
<1>1. /\ r \in Seq(Nat) /\ Len(r) \in Nat /\ Len(t) \in Nat
      /\ TailOf(r, t) /\ Forgotten(r, t)
      /\ r # <<>> => t[Len(t) - Len(r) + 1] + Minute >= clock
  BY <1>0, RecentRequests
<1>2. Len(r) = RequestLimit /\ r # <<>>
  BY <1>0, RecentRequests DEF RequestRefused
<1>3. /\ requests' = [requests EXCEPT ![c] = r]
      /\ UNCHANGED <<clock, logins, pending, passed, admitted>>
      /\ refused' = {[window |-> "requests", key |-> c, at |-> clock]}
  BY DEF RequestRefused
<1> HIDE DEF r
<1>4. \A d \in Clients : RequestsKept(d)'
  <2> SUFFICES ASSUME NEW d \in Clients PROVE RequestsKept(d)'
    OBVIOUS
  <2>1. RequestsKept(d) /\ passed[d]' = passed[d] /\ clock' = clock
    BY <1>3 DEF WindowInv
  <2>2. CASE d = c
    <3>1. requests[d]' = r
      BY <1>0, <1>3, <2>2 DEF WindowTypes
    <3>2. /\ Len(r) <= RequestLimit /\ TailOf(r, passed[d]) /\ Forgotten(r, passed[d])
          /\ Ordered(passed[d]) /\ Past(passed[d])
      BY <1>0, <1>1, <1>2, <2>2 DEF RequestsKept
    <3> QED BY <2>1, <3>1, <3>2 DEF RequestsKept, TailOf, Forgotten, Ordered, Past
  <2>3. CASE d # c
    <3>1. requests[d]' = requests[d]
      BY <1>0, <1>3, <2>3 DEF WindowTypes
    <3> QED BY <2>1, <3>1 DEF RequestsKept, TailOf, Forgotten, Ordered, Past
  <2> QED BY <2>2, <2>3
<1>5. WindowTypes'
  BY <1>0, <1>1, <1>3 DEF WindowTypes, Known
<1>6. (\A a \in Accounts : LoginsKept(a)') /\ LoginsLimited'
  BY <1>0, <1>3, LoginsStay
<1>7. RequestsLimited'
  BY <1>0, <1>3 DEF RequestsLimited
<1>8. RefusedForCause'
  <2>1. Len(t) >= RequestLimit
    BY <1>0, <1>1, <1>2 DEF TailOf
  <2>2. ASSUME NEW i \in Len(t) - RequestLimit + 1 .. Len(t) PROVE t[i] >= clock - Minute
    <3>1. Len(t) - RequestLimit + 1 \in 1 .. Len(t) /\ i \in 1 .. Len(t)
      BY <1>0, <1>1, <2>1
    <3>2. t[Len(t) - RequestLimit + 1] + Minute >= clock
      BY <1>1, <1>2
    <3> DEFINE first == Len(t) - RequestLimit + 1
    <3>3. t[first] \in Nat /\ t[i] \in Nat /\ first \in 1 .. Len(t) /\ first <= i
      <4>1. first \in 1 .. Len(t) /\ i \in 1 .. Len(t) /\ first <= i
        BY <1>0, <1>1, <3>1
      <4> HIDE DEF first
      <4> QED BY <1>0, <4>1, ElementOfSeq
    <3>4. Ordered(t)
      BY <1>0 DEF RequestsKept
    <3> HIDE DEF first, t
    <3>5. t[first] <= t[i]
      BY <3>1, <3>3, <3>4 DEF Ordered
    <3>6. t[first] + Minute >= clock
      BY <3>2 DEF first
    <3> QED BY <1>0, <3>3, <3>5, <3>6
  <2>3. passed' = passed
    BY <1>3
  <2> QED BY <1>3, <2>1, <2>2, <2>3 DEF RefusedForCause
<1> QED BY <1>4, <1>5, <1>6, <1>7, <1>8 DEF WindowInv, WindowHolds

\* Time passes, and a log-in looks at the clock.
LEMMA TickKeeps ==
  ASSUME WindowInv, Tick
  PROVE  WindowInv'
<1>1. clock \in Nat /\ clock' = clock + 1 /\ refused' = {}
      /\ UNCHANGED <<requests, logins, pending, passed, admitted>>
  BY DEF WindowInv, WindowTypes, Tick
<1>2. WindowTypes'
  <2>1. \A p \in pending : p.at \in Int /\ p.at <= clock
    BY DEF WindowInv, WindowTypes, Unread
  <2>2. \A p \in pending : p.at <= clock + 1
    BY <1>1, <2>1
  <2> QED BY <1>1, <2>2 DEF WindowInv, WindowTypes, Known
<1>3. (\A c \in Clients : RequestsKept(c)') /\ RequestsLimited'
  BY <1>1, RequestsStay
<1>4. (\A a \in Accounts : LoginsKept(a)') /\ LoginsLimited'
  BY <1>1, LoginsStay
<1> QED BY <1>1, <1>2, <1>3, <1>4 DEF WindowInv, WindowHolds, RefusedForCause

LEMMA LookAtClockKeeps ==
  ASSUME WindowInv, NEW p \in pending, LookAtClock(p)
  PROVE  WindowInv'
<1>1. clock \in Nat /\ refused' = {} /\ UNCHANGED <<clock, requests, logins, passed, admitted>>
  BY DEF WindowInv, WindowTypes, LookAtClock
<1>2. WindowTypes'
  <2>1. p \in [id : Attempts, account : Accounts, at : Nat \union {Unread}]
    BY DEF WindowInv, WindowTypes
  <2>2. [p EXCEPT !.at = clock] \in [id : Attempts, account : Accounts, at : Nat \union {Unread}]
        /\ [p EXCEPT !.at = clock].at = clock
    BY <1>1, <2>1
  <2>3. pending' = (pending \ {p}) \union {[p EXCEPT !.at = clock]}
    BY DEF LookAtClock
  <2>4. /\ pending' \subseteq [id : Attempts, account : Accounts, at : Nat \union {Unread}]
        /\ \A q \in pending' : q.at <= clock
    <3> HIDE DEF WindowInv
    <3>1. /\ pending \subseteq [id : Attempts, account : Accounts, at : Nat \union {Unread}]
          /\ \A q \in pending : q.at <= clock
      BY DEF WindowInv, WindowTypes
    <3> QED BY <1>1, <2>2, <2>3, <3>1
  <2> QED BY <1>1, <2>4 DEF WindowInv, WindowTypes, Known
<1>3. (\A c \in Clients : RequestsKept(c)') /\ RequestsLimited'
  BY <1>1, RequestsStay
<1>4. (\A a \in Accounts : LoginsKept(a)') /\ LoginsLimited'
  BY <1>1, LoginsStay
<1> QED BY <1>1, <1>2, <1>3, <1>4 DEF WindowInv, WindowHolds, RefusedForCause

\* What Prune leaves is what there was, and it leaves everything as long as there
\* are no more than MaxKeys accounts.
LEMMA PruneLeaves ==
  ASSUME NEW f, NEW now, IsFiniteSet(DOMAIN f)
  PROVE  /\ DOMAIN Prune(f, now) \subseteq DOMAIN f
         /\ \A k \in DOMAIN Prune(f, now) : Prune(f, now)[k] = f[k]
         /\ Cardinality(DOMAIN f) <= MaxKeys => Prune(f, now) = f
<1>1. Cardinality(DOMAIN f) \in Nat /\ MaxKeys \in Nat
  BY FS_CardinalityType, WindowAssumption
<1>2. CASE Cardinality(DOMAIN f) > MaxKeys
  <2> DEFINE left == DOMAIN f \ Stale(f, now)
  <2>1. Prune(f, now) = [k \in left |-> f[k]]
    BY <1>2 DEF Prune, Restrict
  <2>2. left \subseteq DOMAIN f
    OBVIOUS
  <2> HIDE DEF left
  <2> QED BY <1>1, <1>2, <2>1, <2>2
<1>3. CASE ~(Cardinality(DOMAIN f) > MaxKeys)
  BY <1>3 DEF Prune
<1> QED BY <1>2, <1>3

\* What the log-in window remembers of each account after a log-in of p: of the
\* other accounts what it did, or nothing, and that only with too many accounts.
LEMMA OthersKept ==
  ASSUME WindowTypes, NEW a \in Accounts, NEW now, NEW s \in Seq(Nat)
  PROVE  LET kept == Prune(Put(logins, a, s), now)
         IN  /\ DOMAIN kept \subseteq DOMAIN logins \union {a}
             /\ \A b \in DOMAIN kept : b # a => (b \in DOMAIN logins /\ kept[b] = logins[b])
             /\ a \in DOMAIN kept => kept[a] = s
             /\ kept \in [DOMAIN kept -> Seq(Nat)]
             /\ Cardinality(DOMAIN logins \union {a}) <= MaxKeys => DOMAIN kept = DOMAIN logins \union {a}
<1> DEFINE f == Put(logins, a, s)
           kept == Prune(f, now)
<1>1. DOMAIN f = DOMAIN logins \union {a} /\ f[a] = s
      /\ \A b \in DOMAIN logins : b # a => f[b] = logins[b]
  BY DEF Put
<1>2. \A b \in DOMAIN f : f[b] \in Seq(Nat)
  BY <1>1 DEF WindowTypes
<1>3. kept = [b \in DOMAIN kept |-> kept[b]]
  BY DEF Prune, Put, Restrict
<1>0. IsFiniteSet(DOMAIN f)
  <2>1. DOMAIN f \subseteq Accounts
    BY <1>1 DEF WindowTypes, Known
  <2> QED BY <2>1, WindowAssumption, FS_Subset
<1>4. /\ DOMAIN kept \subseteq DOMAIN f
      /\ \A k \in DOMAIN kept : kept[k] = f[k]
      /\ Cardinality(DOMAIN f) <= MaxKeys => kept = f
  BY <1>0, PruneLeaves
<1>5. /\ DOMAIN kept \subseteq DOMAIN logins \union {a}
      /\ \A b \in DOMAIN kept : b # a => (b \in DOMAIN logins /\ kept[b] = logins[b])
      /\ a \in DOMAIN kept => kept[a] = s
      /\ kept \in [DOMAIN kept -> Seq(Nat)]
      /\ Cardinality(DOMAIN logins \union {a}) <= MaxKeys => DOMAIN kept = DOMAIN logins \union {a}
  <2> HIDE DEF f, kept
  <2> QED BY <1>1, <1>2, <1>3, <1>4
<1> QED BY <1>5

\* An account is known from its first log-in on, and a window with no more than
\* MaxKeys known accounts has not been pruned.
LEMMA KnownSmall ==
  ASSUME WindowTypes, NEW a \in Known, Cardinality(Known) <= MaxKeys
  PROVE  Cardinality(DOMAIN logins \union {a}) <= MaxKeys
<1>1. IsFiniteSet(Known)
  BY WindowAssumption, FS_Subset DEF Known
<1>2. DOMAIN logins \union {a} \subseteq Known
  BY DEF WindowTypes
<1>3. /\ Cardinality(DOMAIN logins \union {a}) <= Cardinality(Known)
      /\ Cardinality(DOMAIN logins \union {a}) \in Nat /\ Cardinality(Known) \in Nat
  BY <1>1, <1>2, FS_Subset, FS_CardinalityType
<1> QED BY <1>3, WindowAssumption

\* The accounts that do not log in: of theirs nothing is added, and what is
\* forgotten is forgotten because there are too many.
LEMMA OthersStay ==
  ASSUME WindowInv, NEW a \in Accounts, NEW b \in Accounts, b # a,
         clock' = clock, admitted'[b] = admitted[b], Known \subseteq Known', a \in Known',
         Cardinality(Known') <= MaxKeys => DOMAIN logins \subseteq DOMAIN logins',
         IsFiniteSet(Known'),
         b \in DOMAIN logins' => b \in DOMAIN logins /\ logins'[b] = logins[b]
  PROVE  LoginsKept(b)'
<1> DEFINE s == EventsOf(b)
           t == Stamps(b)
<1>0. /\ WindowTypes /\ LoginsKept(b) /\ clock \in Nat
      /\ s \in Seq(Nat) /\ t \in Seq(Nat) /\ LoginLimit \in Nat
  BY WindowAssumption, TimesOf DEF WindowInv, WindowTypes
<1>1. Stamps(b)' = t /\ Whens(b)' = Whens(b) /\ Len(admitted[b])' = Len(admitted[b])
  BY DEF Stamps, Whens
<1>2. EventsOf(b)' = s \/ EventsOf(b)' = <<>>
  BY DEF EventsOf
<1>3. Len(EventsOf(b)') <= LoginLimit /\ TailOf(EventsOf(b)', t)
  <2>1. TailOf(<<>>, t) /\ Len(<<>>) = 0
    BY <1>0 DEF TailOf
  <2>2. Len(s) <= LoginLimit /\ TailOf(s, t)
    BY <1>0 DEF LoginsKept
  <2> QED BY <1>0, <1>2, <2>1, <2>2
<1>4. ASSUME Cardinality(Known') <= MaxKeys PROVE EventsOf(b)' = s /\ Forgotten(s, t)
  <2>1. Cardinality(Known) <= Cardinality(Known') /\ Cardinality(Known) \in Nat
        /\ Cardinality(Known') \in Nat
    BY FS_Subset, FS_CardinalityType
  <2>2. Cardinality(Known) <= MaxKeys
    BY <1>4, <2>1, WindowAssumption
  <2>3. EventsOf(b)' = s
    BY <1>4 DEF EventsOf
  <2> QED BY <1>0, <2>2, <2>3 DEF LoginsKept
<1>5. /\ \A i \in 1 .. Len(admitted[b]) : admitted[b][i].at <= admitted[b][i].when
      /\ Ordered(Whens(b)) /\ Past(Whens(b))
  BY <1>0 DEF LoginsKept
<1> HIDE DEF s, t
<1>6. Len(EventsOf(b))' <= LoginLimit /\ TailOf(EventsOf(b), Stamps(b))'
  BY <1>1, <1>3 DEF TailOf
<1>7. Cardinality(Known)' <= MaxKeys => Forgotten(EventsOf(b), Stamps(b))'
  BY <1>1, <1>4 DEF Forgotten
<1>8. Ordered(Whens(b))' /\ Past(Whens(b))'
  BY <1>1, <1>5 DEF Ordered, Past
<1> QED BY <1>1, <1>5, <1>6, <1>7, <1>8 DEF LoginsKept

\* A log-in that is refused: LoginLimit of them were let in since a minute before
\* it looked at the clock, as each was let in after it was noted and in order.
LEMMA LoginRefusedKeeps ==
  ASSUME WindowInv, NEW p \in pending, LoginRefused(p)
  PROVE  WindowInv'
<1> DEFINE a == p.account
           t == Stamps(a)
           w == Whens(a)
           r == Recent(EventsOf(a), p.at)
           kept == Prune(Put(logins, a, r), p.at)
<1>0. /\ WindowTypes /\ clock \in Nat /\ Minute \in Nat /\ LoginLimit \in Nat \ {0}
      /\ a \in Accounts /\ p.at \in Nat /\ p.at <= clock /\ LoginsKept(a)
  BY WindowAssumption DEF WindowInv, WindowTypes, LoginRefused, Unread
<1>1. /\ t \in Seq(Nat) /\ w \in Seq(Nat) /\ Len(t) \in Nat
      /\ Len(t) = Len(admitted[a]) /\ Len(w) = Len(admitted[a])
      /\ \A i \in 1 .. Len(admitted[a]) :
            t[i] = admitted[a][i].at /\ w[i] = admitted[a][i].when
  BY <1>0, TimesOf
<1>2. /\ r \in Seq(Nat) /\ Len(r) \in Nat /\ Len(r) <= LoginLimit
      /\ TailOf(r, t) /\ (Cardinality(Known) <= MaxKeys => Forgotten(r, t))
      /\ r # <<>> => EventsOf(a) # <<>> /\ t[Len(t) - Len(r) + 1] + Minute >= p.at
  BY <1>0, RecentLogins
<1>3. Len(r) = LoginLimit /\ r # <<>>
  BY <1>0, <1>2 DEF LoginRefused
<1>4. /\ logins' = kept /\ pending' = pending \ {p}
      /\ refused' = {[window |-> "logins", key |-> a, at |-> p.at]}
      /\ UNCHANGED <<clock, requests, passed, admitted>>
  BY DEF LoginRefused
<1>5. a \in Known /\ IsFiniteSet(Known) /\ Known' = Known
  <2>1. a \in DOMAIN logins
    BY <1>2, <1>3 DEF EventsOf
  <2> QED BY <1>0, <1>4, <2>1, WindowAssumption, FS_Subset DEF WindowTypes, Known
<1> HIDE DEF r
<1>6. /\ DOMAIN kept \subseteq DOMAIN logins \union {a}
      /\ \A b \in DOMAIN kept : b # a => b \in DOMAIN logins /\ kept[b] = logins[b]
      /\ a \in DOMAIN kept => kept[a] = r
      /\ kept \in [DOMAIN kept -> Seq(Nat)]
      /\ Cardinality(DOMAIN logins \union {a}) <= MaxKeys => DOMAIN kept = DOMAIN logins \union {a}
  <2>1. a \in Accounts /\ r \in Seq(Nat) /\ WindowTypes
    BY <1>0, <1>2
  <2> HIDE DEF a
  <2> QED BY <2>1, OthersKept
<1>7. Cardinality(Known) <= MaxKeys => DOMAIN kept = DOMAIN logins \union {a}
  BY <1>0, <1>5, <1>6, KnownSmall
<1> HIDE DEF kept
<1>8. WindowTypes'
  BY <1>0, <1>4, <1>5, <1>6 DEF WindowTypes
<1>9. LoginsKept(a)'
  <2>1. Stamps(a)' = t /\ Whens(a)' = w /\ clock' = clock /\ admitted'[a] = admitted[a]
    BY <1>4 DEF Stamps, Whens
  <2>2. EventsOf(a)' = r \/ EventsOf(a)' = <<>>
    BY <1>4, <1>6 DEF EventsOf
  <2>3. Cardinality(Known') <= MaxKeys => EventsOf(a)' = r /\ Forgotten(r, t)
    BY <1>2, <1>4, <1>5, <1>6, <1>7 DEF EventsOf
  <2>4. Len(EventsOf(a)') <= LoginLimit /\ TailOf(EventsOf(a)', t)
    <3>1. TailOf(<<>>, t) /\ Len(<<>>) = 0
      BY <1>1 DEF TailOf
    <3> QED BY <1>0, <1>2, <2>2, <3>1
  <2>5. /\ \A i \in 1 .. Len(admitted[a]) : admitted[a][i].at <= admitted[a][i].when
        /\ Ordered(w) /\ Past(w)
    BY <1>0 DEF LoginsKept
  <2> HIDE DEF t, w
  <2>6. Len(EventsOf(a))' <= LoginLimit /\ TailOf(EventsOf(a), Stamps(a))'
    BY <2>1, <2>4 DEF TailOf
  <2>7. Cardinality(Known)' <= MaxKeys => Forgotten(EventsOf(a), Stamps(a))'
    BY <2>1, <2>3 DEF Forgotten
  <2>8. Ordered(Whens(a))' /\ Past(Whens(a))'
    BY <2>1, <2>5 DEF Ordered, Past
  <2> QED BY <2>1, <2>5, <2>6, <2>7, <2>8 DEF LoginsKept
<1>10. ASSUME NEW b \in Accounts, b # a PROVE LoginsKept(b)'
  <2>1. b \in DOMAIN logins' => b \in DOMAIN logins /\ logins'[b] = logins[b]
    BY <1>4, <1>6, <1>10
  <2>2. Cardinality(Known') <= MaxKeys => DOMAIN logins \subseteq DOMAIN logins'
    BY <1>4, <1>5, <1>7
  <2> HIDE DEF a
  <2> QED BY <1>0, <1>4, <1>5, <1>10, <2>1, <2>2, OthersStay
<1>11. (\A c \in Clients : RequestsKept(c)') /\ RequestsLimited'
  BY <1>0, <1>4, RequestsStay
<1>12. LoginsLimited'
  BY <1>4 DEF WindowInv, WindowHolds, LoginsLimited
<1>13. RefusedForCause'
  <2>1. Len(w) >= LoginLimit /\ Len(w) = Len(t)
    BY <1>0, <1>1, <1>2, <1>3 DEF TailOf
  <2>2. ASSUME NEW i \in Len(w) - LoginLimit + 1 .. Len(w) PROVE w[i] >= p.at - Minute
    <3> DEFINE first == Len(t) - LoginLimit + 1
    <3>1. first \in 1 .. Len(t) /\ i \in 1 .. Len(t) /\ first <= i
      BY <1>0, <1>1, <2>1
    <3>2. t[first] + Minute >= p.at
      BY <1>2, <1>3
    <3> HIDE DEF first
    <3>3. t[first] \in Nat /\ w[first] \in Nat /\ w[i] \in Nat
      BY <1>1, <2>1, <3>1, ElementOfSeq
    <3>4. t[first] <= w[first]
      BY <1>0, <1>1, <3>1 DEF LoginsKept
    <3>5. first < i => w[first] <= w[i]
      BY <1>0, <1>1, <3>1 DEF LoginsKept, Ordered
    <3>6. first = i \/ first < i
      BY <1>1, <3>1
    <3>7. p.at \in Int /\ Minute \in Nat
      BY <1>0
    <3> HIDE DEF t, w, a
    <3>8. w[first] <= w[i]
      BY ONLY <3>3, <3>5, <3>6
    <3> QED BY ONLY <3>2, <3>3, <3>4, <3>7, <3>8
  <2> SUFFICES ASSUME NEW x \in refused'
               PROVE  LET times == [i \in DOMAIN admitted[a] |-> admitted[a][i].when]
                      IN  /\ x.window = "logins" /\ x.key = a /\ x.at = p.at
                          /\ Len(times) >= LoginLimit
                          /\ \A i \in Len(times) - LoginLimit + 1 .. Len(times) : times[i] >= x.at - Minute
    BY <1>4 DEF RefusedForCause
  <2>3. w = [i \in DOMAIN admitted[a] |-> admitted[a][i].when]
    <3>1. DOMAIN admitted[a] = 1 .. Len(admitted[a])
      BY <1>0, TimesOf, LenProperties
    <3> QED BY <3>1 DEF Whens
  <2> HIDE DEF w
  <2> QED BY <1>4, <2>1, <2>2, <2>3
<1> QED BY <1>8, <1>9, <1>10, <1>11, <1>12, <1>13 DEF WindowInv, WindowHolds

\* A log-in that is let in: LoginLimit before it there was one that looked at the
\* clock more than a minute ago, or none, unless the window has been pruned.
LEMMA LoginKeeps ==
  ASSUME WindowInv, NEW p \in pending, Login(p)
  PROVE  WindowInv'
<1> DEFINE a == p.account
           t == Stamps(a)
           w == Whens(a)
           r == Recent(EventsOf(a), p.at)
           kept == Prune(Put(logins, a, r), p.at)
           entry == [at |-> p.at, when |-> clock]
           n == Len(admitted[a])
<1>0. /\ WindowTypes /\ clock \in Nat /\ Minute \in Nat /\ LoginLimit \in Nat \ {0}
      /\ a \in Accounts /\ p.at \in Nat /\ p.at <= clock /\ LoginsKept(a)
      /\ entry \in [at : Nat, when : Nat] /\ admitted[a] \in Seq([at : Nat, when : Nat])
  BY WindowAssumption DEF WindowInv, WindowTypes, Login, Unread
<1>1. /\ t \in Seq(Nat) /\ w \in Seq(Nat) /\ n \in Nat /\ Len(t) = n /\ Len(w) = n
      /\ \A i \in 1 .. n : t[i] = admitted[a][i].at /\ w[i] = admitted[a][i].when
  BY <1>0, TimesOf
<1>2. /\ r \in Seq(Nat) /\ Len(r) \in Nat
      /\ TailOf(r, t) /\ (Cardinality(Known) <= MaxKeys => Forgotten(r, t))
  BY <1>0, RecentLogins
<1>3. Len(r) < LoginLimit
  BY DEF Login
<1>4. /\ logins' = IF a \in DOMAIN kept THEN [kept EXCEPT ![a] = Append(r, p.at)] ELSE kept
      /\ pending' = pending \ {p}
      /\ admitted' = [admitted EXCEPT ![a] = Append(admitted[a], entry)]
      /\ refused' = {} /\ UNCHANGED <<clock, requests, passed>>
  BY DEF Login
<1>5. /\ admitted'[a] = Append(admitted[a], entry)
      /\ \A b \in Accounts : b # a => admitted'[b] = admitted[b]
      /\ admitted' \in [Accounts -> Seq([at : Nat, when : Nat])]
  BY <1>0, <1>4, AppendProperties DEF WindowTypes
<1>6. /\ Len(admitted'[a]) = n + 1 /\ admitted'[a][n + 1] = entry
      /\ \A i \in 1 .. n : admitted'[a][i] = admitted[a][i]
  BY <1>0, <1>5, AppendProperties
<1>7. Known' = Known \union {a} /\ IsFiniteSet(Known')
  <2>1. admitted'[a] # <<>>
    BY <1>1, <1>6
  <2>2. Known' = {b \in Accounts : admitted'[b] # <<>>}
    BY DEF Known
  <2>3. Known' = Known \union {a}
    BY <1>0, <1>5, <2>1, <2>2 DEF Known
  <2> QED BY <2>2, <2>3, WindowAssumption, FS_Subset
<1>8. /\ DOMAIN kept \subseteq DOMAIN logins \union {a}
      /\ \A b \in DOMAIN kept : b # a => b \in DOMAIN logins /\ kept[b] = logins[b]
      /\ kept \in [DOMAIN kept -> Seq(Nat)]
      /\ Cardinality(DOMAIN logins \union {a}) <= MaxKeys => DOMAIN kept = DOMAIN logins \union {a}
  <2>1. a \in Accounts /\ r \in Seq(Nat) /\ WindowTypes
    BY <1>0, <1>2
  <2> HIDE DEF a, r
  <2> QED BY <2>1, OthersKept
<1>9. Cardinality(Known') <= MaxKeys => /\ DOMAIN kept = DOMAIN logins \union {a}
                                        /\ Cardinality(Known) <= MaxKeys
  <2>1. /\ DOMAIN logins \union {a} \subseteq Known'
        /\ Known \subseteq Known'
    BY <1>0, <1>7 DEF WindowTypes
  <2>2. /\ Cardinality(DOMAIN logins \union {a}) \in Nat /\ Cardinality(Known') \in Nat
        /\ Cardinality(Known) \in Nat
        /\ Cardinality(DOMAIN logins \union {a}) <= Cardinality(Known')
        /\ Cardinality(Known) <= Cardinality(Known')
    BY <1>7, <2>1, FS_Subset, FS_CardinalityType
  <2> QED BY <1>8, <2>2, WindowAssumption
<1> HIDE DEF r, kept
<1>10. logins' \in [DOMAIN kept -> Seq(Nat)] /\ DOMAIN logins' = DOMAIN kept
       /\ (a \in DOMAIN kept => logins'[a] = Append(r, p.at))
       /\ \A b \in DOMAIN kept : b # a => logins'[b] = kept[b]
  <2>1. Append(r, p.at) \in Seq(Nat)
    BY <1>0, <1>2, AppendProperties
  <2> QED BY <1>4, <1>8, <2>1
<1>11. WindowTypes'
  BY <1>0, <1>4, <1>5, <1>7, <1>8, <1>10 DEF WindowTypes
<1>12. Stamps(a)' = Append(t, p.at) /\ Whens(a)' = Append(w, clock)
  <2>1. /\ Append(t, p.at) \in Seq(Nat) /\ Len(Append(t, p.at)) = n + 1
        /\ Append(w, clock) \in Seq(Nat) /\ Len(Append(w, clock)) = n + 1
        /\ Append(t, p.at)[n + 1] = p.at /\ Append(w, clock)[n + 1] = clock
        /\ \A i \in 1 .. n : Append(t, p.at)[i] = t[i] /\ Append(w, clock)[i] = w[i]
    <3> HIDE DEF t, w, n
    <3>1. /\ Append(t, p.at) \in Seq(Nat) /\ Len(Append(t, p.at)) = Len(t) + 1
          /\ Append(t, p.at)[Len(t) + 1] = p.at
          /\ \A i \in 1 .. Len(t) : Append(t, p.at)[i] = t[i]
      BY <1>0, <1>1, AppendProperties
    <3>2. /\ Append(w, clock) \in Seq(Nat) /\ Len(Append(w, clock)) = Len(w) + 1
          /\ Append(w, clock)[Len(w) + 1] = clock
          /\ \A i \in 1 .. Len(w) : Append(w, clock)[i] = w[i]
      BY <1>0, <1>1, AppendProperties
    <3> QED BY <1>1, <3>1, <3>2
  <2>2. /\ Stamps(a)' = [i \in 1 .. n + 1 |-> admitted'[a][i].at]
        /\ Whens(a)' = [i \in 1 .. n + 1 |-> admitted'[a][i].when]
    BY <1>6 DEF Stamps, Whens
  <2>3. \A i \in 1 .. n + 1 : i = n + 1 \/ i \in 1 .. n
    BY <1>1
  <2>4. \A i \in 1 .. n + 1 : /\ Append(t, p.at)[i] = admitted'[a][i].at
                              /\ Append(w, clock)[i] = admitted'[a][i].when
    <3> SUFFICES ASSUME NEW i \in 1 .. n + 1
                 PROVE  /\ Append(t, p.at)[i] = admitted'[a][i].at
                        /\ Append(w, clock)[i] = admitted'[a][i].when
      OBVIOUS
    <3> HIDE DEF t, w, n
    <3>1. CASE i = n + 1
      BY <1>6, <2>1, <3>1
    <3>2. CASE i \in 1 .. n
      BY <1>1, <1>6, <2>1, <3>2
    <3> QED BY <2>3, <3>1, <3>2
  <2>5. /\ Append(t, p.at) = [i \in 1 .. n + 1 |-> Append(t, p.at)[i]]
        /\ Append(w, clock) = [i \in 1 .. n + 1 |-> Append(w, clock)[i]]
    BY <2>1
  <2> HIDE DEF t, w, n
  <2> QED BY <2>2, <2>4, <2>5
<1>13. LoginsKept(a)'
  <2> DEFINE e1 == Append(r, p.at)
             t1 == Append(t, p.at)
             w1 == Append(w, clock)
  <2>1. TailOf(e1, t1) /\ Ordered(w1) /\ Past(w1) /\ Len(e1) <= LoginLimit
    <3>1. Ordered(w) /\ Past(w)
      BY <1>0 DEF LoginsKept
    <3>2. Len(e1) = Len(r) + 1
      BY <1>0, <1>2, AppendProperties
    <3> QED BY <1>0, <1>1, <1>2, <1>3, <3>1, <3>2, AppendTail, AppendOrdered
  <2>2. Forgotten(r, t) => Forgotten(e1, t1)
    <3>1. /\ Len(e1) = Len(r) + 1 /\ Len(t1) = n + 1
          /\ \A i \in 1 .. n : t1[i] = t[i]
      <4> HIDE DEF t, n
      <4>1. Len(e1) = Len(r) + 1
        BY <1>0, <1>2, AppendProperties
      <4>2. Len(t1) = Len(t) + 1 /\ \A i \in 1 .. Len(t) : t1[i] = t[i]
        BY <1>0, <1>1, AppendProperties
      <4> QED BY <1>1, <4>1, <4>2
    <3>2. \A i \in 1 .. (n + 1) - (Len(r) + 1) : i \in 1 .. n - Len(r) /\ i \in 1 .. n
      BY <1>1, <1>2
    <3> HIDE DEF e1, t1, t, n
    <3> QED BY <1>1, <3>1, <3>2 DEF Forgotten
  <2>3. EventsOf(a)' = e1 \/ EventsOf(a)' = <<>>
    BY <1>10 DEF EventsOf
  <2>4. Cardinality(Known') <= MaxKeys => EventsOf(a)' = e1 /\ Forgotten(e1, t1)
    BY <1>2, <1>9, <1>10, <2>2 DEF EventsOf
  <2>5. Len(EventsOf(a)') <= LoginLimit /\ TailOf(EventsOf(a)', t1)
    <3>1. t1 \in Seq(Nat)
      BY <1>0, <1>1, AppendProperties
    <3>2. Len(t1) \in Nat
      BY <3>1
    <3> HIDE DEF e1, t1
    <3>3. TailOf(<<>>, t1) /\ Len(<<>>) = 0
      BY <3>2 DEF TailOf
    <3>4. CASE EventsOf(a)' = e1
      BY <2>1, <3>4
    <3>5. CASE EventsOf(a)' = <<>>
      BY <1>0, <3>3, <3>5
    <3> QED BY <2>3, <3>4, <3>5
  <2>6. \A i \in 1 .. n + 1 : admitted'[a][i].at <= admitted'[a][i].when
    <3>1. \A i \in 1 .. n : admitted[a][i].at <= admitted[a][i].when
      BY <1>0 DEF LoginsKept
    <3>2. \A i \in 1 .. n + 1 : i = n + 1 \/ i \in 1 .. n
      BY <1>1
    <3> HIDE DEF n
    <3> QED BY <1>0, <1>6, <3>1, <3>2
  <2>7. clock' = clock /\ Len(admitted[a])' = n + 1 /\ Stamps(a)' = t1 /\ Whens(a)' = w1
    BY <1>4, <1>6, <1>12
  <2> HIDE DEF e1, t1, w1, n, t, w
  <2>8. Len(EventsOf(a))' <= LoginLimit /\ TailOf(EventsOf(a), Stamps(a))'
    BY <2>5, <2>7 DEF TailOf
  <2>9. Cardinality(Known)' <= MaxKeys => Forgotten(EventsOf(a), Stamps(a))'
    BY <2>4, <2>7 DEF Forgotten
  <2>10. Ordered(Whens(a))' /\ Past(Whens(a))'
    BY <2>1, <2>7 DEF Ordered, Past
  <2>11. (\A i \in 1 .. Len(admitted[a]) : admitted[a][i].at <= admitted[a][i].when)'
    BY <2>6, <2>7
  <2> QED BY <2>8, <2>9, <2>10, <2>11 DEF LoginsKept
<1>14. ASSUME NEW b \in Accounts, b # a PROVE LoginsKept(b)'
  <2>1. b \in DOMAIN logins' => b \in DOMAIN logins /\ logins'[b] = logins[b]
    BY <1>8, <1>10, <1>14
  <2>2. Cardinality(Known') <= MaxKeys => DOMAIN logins \subseteq DOMAIN logins'
    BY <1>9, <1>10
  <2> HIDE DEF a
  <2> QED BY <1>0, <1>4, <1>5, <1>7, <1>14, <2>1, <2>2, OthersStay
<1>15. (\A c \in Clients : RequestsKept(c)') /\ RequestsLimited'
  BY <1>0, <1>4, RequestsStay
<1>16. LoginsLimited'
  <2> SUFFICES ASSUME Cardinality(Known') <= MaxKeys, NEW b \in Accounts,
                      NEW i \in 1 .. Len(admitted'[b]), i > LoginLimit
               PROVE  admitted'[b][i].when > admitted'[b][i - LoginLimit].at + Minute
    <3>1. \A b \in Accounts : DOMAIN admitted'[b] = 1 .. Len(admitted'[b])
      BY <1>5, LenProperties
    <3> QED BY <3>1 DEF LoginsLimited, Known
  <2>0. Cardinality(Known) <= MaxKeys /\ LoginsLimited /\ Forgotten(r, t)
    BY <1>2, <1>9 DEF WindowInv, WindowHolds
  <2>1. \A c \in Accounts : \A j \in 1 .. Len(admitted[c]) :
           j > LoginLimit => admitted[c][j].when > admitted[c][j - LoginLimit].at + Minute
    <3>1. \A c \in Accounts : DOMAIN admitted[c] = 1 .. Len(admitted[c])
      BY <1>0, TimesOf, LenProperties
    <3> QED BY <2>0, <3>1 DEF LoginsLimited, Known
  <2>2. CASE b # a
    BY <1>5, <2>1, <2>2
  <2>3. CASE b = a /\ i \in 1 .. n
    <3> HIDE DEF n
    <3>1. i - LoginLimit \in 1 .. n
      BY <1>0, <1>1, <2>3
    <3> QED BY <1>6, <2>1, <2>3, <3>1 DEF n
  <2>4. CASE b = a /\ i = n + 1
    <3>1. i - LoginLimit \in 1 .. n - Len(r) /\ i - LoginLimit \in 1 .. n
      <4> HIDE DEF n
      <4>1. Len(r) \in Nat /\ n \in Nat /\ LoginLimit \in Nat \ {0} /\ Len(r) < LoginLimit
        BY <1>0, <1>1, <1>2, <1>3
      <4>2. i = n + 1 /\ i > LoginLimit
        BY <2>4
      <4> QED BY <4>1, <4>2
    <3>2. t[i - LoginLimit] + Minute < clock /\ t[i - LoginLimit] = admitted[a][i - LoginLimit].at
      BY <1>1, <2>0, <3>1 DEF Forgotten
    <3>3. t[i - LoginLimit] \in Nat
      BY <1>1, <3>1, ElementOfSeq
    <3>4. admitted'[b][i].when = clock /\ admitted'[b][i - LoginLimit].at = t[i - LoginLimit]
      BY <1>6, <2>4, <3>1, <3>2
    <3> QED BY <1>0, <3>2, <3>3, <3>4
  <2>5. b # a \/ (b = a /\ i \in 1 .. n) \/ (b = a /\ i = n + 1)
    BY <1>1, <1>6
  <2> QED BY <2>2, <2>3, <2>4, <2>5
<1>17. RefusedForCause'
  BY <1>4 DEF RefusedForCause
<1> QED BY <1>11, <1>13, <1>14, <1>15, <1>16, <1>17 DEF WindowInv, WindowHolds

\* The machine of the windows, by itself.
LEMMA WindowsAreKept == WindowSpec => []WindowHolds
<1>1. WindowInit => WindowInv
  <2> SUFFICES ASSUME WindowInit PROVE WindowInv
    OBVIOUS
  <2>1. WindowTypes
    BY DEF WindowInit, WindowTypes, Known
  <2>2. \A c \in Clients : requests[c] = <<>> /\ passed[c] = <<>>
    BY DEF WindowInit
  <2>3. \A a \in Accounts : EventsOf(a) = <<>> /\ admitted[a] = <<>>
    BY DEF WindowInit, EventsOf
  <2>4. \A a \in Accounts : Len(Stamps(a)) = 0 /\ Len(Whens(a)) = 0
    BY <2>1, <2>3, TimesOf
  <2>5. RequestLimit \in Nat /\ LoginLimit \in Nat /\ Len(<<>>) = 0 /\ DOMAIN <<>> = {}
    BY WindowAssumption
  <2>6. \A c \in Clients : RequestsKept(c)
    <3> SUFFICES ASSUME NEW c \in Clients PROVE RequestsKept(c)
      OBVIOUS
    <3>1. Len(requests[c]) = 0 /\ Len(passed[c]) = 0 /\ requests[c] = <<>>
      BY <2>2, <2>5
    <3> QED BY <2>5, <3>1 DEF RequestsKept, TailOf, Forgotten, Ordered, Past
  <2>7. \A a \in Accounts : LoginsKept(a)
    BY <2>3, <2>4, <2>5 DEF LoginsKept, TailOf, Forgotten, Ordered, Past
  <2>8. WindowHolds
    BY <2>2, <2>3, <2>5 DEF WindowInit, WindowHolds, RequestsLimited, LoginsLimited, RefusedForCause
  <2> QED BY <2>1, <2>6, <2>7, <2>8 DEF WindowInv
<1>2. WindowInv /\ [WindowNext]_windowVars => WindowInv'
  <2> SUFFICES ASSUME WindowInv, [WindowNext]_windowVars PROVE WindowInv'
    OBVIOUS
  <2>1. CASE Tick
    BY <2>1, TickKeeps
  <2>2. ASSUME NEW c \in Clients, Request(c) PROVE WindowInv'
    BY <2>2, RequestKeeps
  <2>3. ASSUME NEW c \in Clients, RequestRefused(c) PROVE WindowInv'
    BY <2>3, RequestRefusedKeeps
  <2>4. ASSUME NEW p \in pending, LookAtClock(p) PROVE WindowInv'
    BY <2>4, LookAtClockKeeps
  <2>5. ASSUME NEW p \in pending, Login(p) PROVE WindowInv'
    BY <2>5, LoginKeeps
  <2>6. ASSUME NEW p \in pending, LoginRefused(p) PROVE WindowInv'
    BY <2>6, LoginRefusedKeeps
  <2>7. CASE UNCHANGED windowVars
    <3>1. UNCHANGED <<clock, requests, logins, pending, passed, admitted, refused>>
      BY <2>7 DEF windowVars
    <3>2. clock \in Nat
      BY DEF WindowInv, WindowTypes
    <3>3. WindowTypes' /\ RefusedForCause'
      BY <3>1 DEF WindowInv, WindowTypes, WindowHolds, RefusedForCause, Known
    <3>4. (\A c \in Clients : RequestsKept(c)') /\ RequestsLimited'
      BY <3>1, <3>2, RequestsStay
    <3>5. (\A a \in Accounts : LoginsKept(a)') /\ LoginsLimited'
      BY <3>1, <3>2, LoginsStay
    <3> QED BY <3>3, <3>4, <3>5 DEF WindowInv, WindowHolds
  <2> QED BY <2>1, <2>2, <2>3, <2>4, <2>5, <2>6, <2>7 DEF WindowNext
<1>3. WindowInv => WindowHolds
  BY DEF WindowInv
<1> QED BY <1>1, <1>2, <1>3, PTL DEF WindowSpec

\* What is written of the other kinds does not touch the windows.
LEMMA WindowSteps ==
  ASSUME [Next]_vars
  PROVE  [WindowNext]_windowVars
<1>1. CASE UNCHANGED vars
  BY <1>1 DEF vars, windowVars
<1>2. CASE PassWindows
  BY <1>2 DEF PassWindows
<1>3. ASSUME Next, ~PassWindows PROVE UNCHANGED windowVars
  <2>1. CASE WriteBlock
    BY <2>1 DEF WriteBlock, Write
  <2>2. CASE WriteParagraph
    BY <2>2 DEF WriteParagraph, Write
  <2>3. CASE WriteFooter
    BY <2>3 DEF WriteFooter, Write
  <2>4. CASE WriteSheet
    BY <2>4 DEF WriteSheet, Write
  <2>5. CASE WriteDigit
    BY <2>5 DEF WriteDigit, Write
  <2>6. CASE WriteHeading
    BY <2>6 DEF WriteHeading, Write
  <2>7. CASE WriteMention
    BY <2>7 DEF WriteMention, Write
  <2>8. CASE WriteRow
    BY <2>8 DEF WriteRow, Write
  <2>9. CASE WriteTerm
    BY <2>9 DEF WriteTerm, Write
  <2>10. CASE WriteAtom
    BY <2>10 DEF WriteAtom, Write
  <2>11. CASE WriteGridRow
    BY <2>11 DEF WriteGridRow, Write
  <2>12. CASE WriteSlip
    BY <2>12 DEF WriteSlip, Write
  <2>13. CASE WriteValue
    BY <2>13 DEF WriteValue, Write
  <2>14. CASE WritePage
    BY <2>14 DEF WritePage, Write
  <2>15. CASE WritePdfPage
    BY <2>15 DEF WritePdfPage, Write
  <2>16. CASE WriteFragment
    BY <2>16 DEF WriteFragment, Write
  <2>17. CASE WriteRequirement
    BY <2>17 DEF WriteRequirement, Write
  <2>18. CASE WriteKey
    BY <2>18 DEF WriteKey, Write
  <2>19. CASE WriteIssue
    BY <2>19 DEF WriteIssue, Write
  <2>20. CASE WriteRival
    BY <2>20 DEF WriteRival, Write
  <2> QED BY <1>3, <2>1, <2>2, <2>3, <2>4, <2>5, <2>6, <2>7, <2>8, <2>9, <2>10,
             <2>11, <2>12, <2>13, <2>14, <2>15, <2>16, <2>17, <2>18, <2>19, <2>20 DEF Next
<1> QED BY <1>1, <1>2, <1>3

\* The two windows keep their limits and refuse nobody without cause, for any
\* number of clients, accounts and log-ins under way and any limits
\* (_rate_allowed, _login_allowed).
THEOREM WindowsHold == Spec => []WindowHolds
<1>1. Init => WindowInit
  BY DEF Init
<1>2. [Next]_vars => [WindowNext]_windowVars
  BY WindowSteps
<1> QED BY <1>1, <1>2, WindowsAreKept, PTL DEF Spec, WindowSpec

-----------------------------------------------------------------------------
(* The validation of rule sets.                                            *)
\* What may be wrong with one value of a draft: the numbers and the patterns.
Soft == {"minimum", "regex"}

\* A value without parts that has the type asked for, and one of the names asked
\* for, is at worst too small a number or a broken pattern.
LEMMA PlainJudged ==
  ASSUME NEW v, NEW s, Catalogue!HasType(v, s.type),
         (v.is = "string" /\ s.enum # {}) => v.s \in s.enum,
         v.is = "object" => DOMAIN s.properties = {}, v.is = "array" => s.items = {}
  PROVE  /\ Catalogue!JudgeAliases(v, s) \subseteq Soft
         /\ Catalogue!JudgeField(v, s) \subseteq Soft
         /\ Catalogue!JudgeFields(v, s) \subseteq Soft
<1>1. Catalogue!ValueErrors(v, s) \subseteq Soft
  BY DEF Soft, Catalogue!ValueErrors
<1> DEFINE keys == IF v.is = "object" THEN DOMAIN v.at \cap DOMAIN s.properties ELSE {}
           items == IF v.is = "array" THEN Catalogue!Range(v.items) ELSE {}
<1>2. Catalogue!JudgeAliases(v, s) = Catalogue!ValueErrors(v, s)
         \cup (UNION {Catalogue!JudgeAlias(v.at[k], s.properties[k]) : k \in keys})
         \cup (UNION {Catalogue!JudgeAlias(x, t) : x \in items, t \in s.items})
  BY DEF Catalogue!JudgeAliases, Catalogue!Judge
<1>3. Catalogue!JudgeField(v, s) = Catalogue!ValueErrors(v, s)
         \cup (UNION {Catalogue!JudgeAliases(v.at[k], s.properties[k]) : k \in keys})
         \cup (UNION {Catalogue!JudgeAliases(x, t) : x \in items, t \in s.items})
  BY DEF Catalogue!JudgeField, Catalogue!Judge
<1>4. Catalogue!JudgeFields(v, s) = Catalogue!ValueErrors(v, s)
         \cup (UNION {Catalogue!JudgeField(v.at[k], s.properties[k]) : k \in keys})
         \cup (UNION {Catalogue!JudgeField(x, t) : x \in items, t \in s.items})
  BY DEF Catalogue!JudgeFields, Catalogue!Judge
<1>5. keys = {} /\ (items = {} \/ s.items = {})
  OBVIOUS
<1> HIDE DEF keys, items
<1> QED BY <1>1, <1>2, <1>3, <1>4, <1>5

\* A list is as good as what it holds (_validate_value on "items").
LEMMA ListJudged ==
  ASSUME NEW v, NEW s, NEW t, v.is = "array", s.type = "array", s.items = {t},
         \A x \in Catalogue!Range(v.items) : Catalogue!JudgeField(x, t) \subseteq Soft
  PROVE  Catalogue!JudgeFields(v, s) \subseteq Soft
<1>1. Catalogue!ValueErrors(v, s) \subseteq Soft
  BY DEF Soft, Catalogue!ValueErrors
<1> DEFINE keys == IF v.is = "object" THEN DOMAIN v.at \cap DOMAIN s.properties ELSE {}
           items == IF v.is = "array" THEN Catalogue!Range(v.items) ELSE {}
<1>4. Catalogue!JudgeFields(v, s) = Catalogue!ValueErrors(v, s)
         \cup (UNION {Catalogue!JudgeField(v.at[k], s.properties[k]) : k \in keys})
         \cup (UNION {Catalogue!JudgeField(x, u) : x \in items, u \in s.items})
  BY DEF Catalogue!JudgeFields, Catalogue!Judge, Catalogue!HasType
<1>5. keys = {} /\ items = Catalogue!Range(v.items)
  OBVIOUS
<1> HIDE DEF keys, items
<1> QED BY <1>1, <1>4, <1>5

\* An object is as good as what it holds under the names its schema knows: here
\* one field of a rule.
LEMMA FieldJudged ==
  ASSUME NEW v, NEW s, v.is = "object", s.type = "object",
         \A k \in DOMAIN v.at \cap DOMAIN s.properties :
            Catalogue!JudgeAliases(v.at[k], s.properties[k]) \subseteq Soft,
         s.items = {}
  PROVE  Catalogue!JudgeField(v, s) \subseteq Soft
<1>1. Catalogue!ValueErrors(v, s) \subseteq Soft
  BY DEF Soft, Catalogue!ValueErrors
<1> DEFINE keys == IF v.is = "object" THEN DOMAIN v.at \cap DOMAIN s.properties ELSE {}
           items == IF v.is = "array" THEN Catalogue!Range(v.items) ELSE {}
<1>4. Catalogue!JudgeField(v, s) = Catalogue!ValueErrors(v, s)
         \cup (UNION {Catalogue!JudgeAliases(v.at[k], s.properties[k]) : k \in keys})
         \cup (UNION {Catalogue!JudgeAliases(x, u) : x \in items, u \in s.items})
  BY DEF Catalogue!JudgeField, Catalogue!Judge, Catalogue!HasType
<1>5. keys = DOMAIN v.at \cap DOMAIN s.properties /\ s.items = {}
  OBVIOUS
<1> HIDE DEF keys, items
<1> QED BY <1>1, <1>4, <1>5

\* The same of the parameters of a rule.
LEMMA RuleJudged ==
  ASSUME NEW v, NEW s, v.is = "object", s.type = "object",
         \A k \in DOMAIN v.at \cap DOMAIN s.properties :
            Catalogue!JudgeFields(v.at[k], s.properties[k]) \subseteq Soft,
         s.items = {}
  PROVE  Catalogue!ValidateValue(v, s) \subseteq Soft
<1>1. Catalogue!ValueErrors(v, s) \subseteq Soft
  BY DEF Soft, Catalogue!ValueErrors
<1> DEFINE keys == IF v.is = "object" THEN DOMAIN v.at \cap DOMAIN s.properties ELSE {}
           items == IF v.is = "array" THEN Catalogue!Range(v.items) ELSE {}
<1>4. Catalogue!ValidateValue(v, s) = Catalogue!ValueErrors(v, s)
         \cup (UNION {Catalogue!JudgeFields(v.at[k], s.properties[k]) : k \in keys})
         \cup (UNION {Catalogue!JudgeFields(x, u) : x \in items, u \in s.items})
  BY DEF Catalogue!ValidateValue, Catalogue!Judge, Catalogue!HasType
<1>5. keys = DOMAIN v.at \cap DOMAIN s.properties /\ s.items = {}
  OBVIOUS
<1> HIDE DEF keys, items
<1> QED BY <1>1, <1>4, <1>5

\* What the schema of a field assures of one that passes: an object whose aliases
\* are a list, whose format is one of those known and whose pattern compiles.
LEMMA FieldValid ==
  ASSUME NEW f, Catalogue!JudgeField(f, Catalogue!FieldItem) = {}
  PROVE  /\ f.is = "object"
         /\ "aliases" \in DOMAIN f.at => f.at.aliases.is = "array"
         /\ "format" \in DOMAIN f.at =>
               f.at.format.is = "string" /\ f.at.format.s \in Catalogue!FieldFormats
         /\ "pattern" \in DOMAIN f.at => f.at.pattern # Catalogue!Text(Catalogue!Broken)
<1> DEFINE I == Catalogue!FieldItem
<1>1. /\ I.type = "object"
      /\ DOMAIN I.properties = {"name", "aliases", "required", "normalize", "format", "pattern"}
      /\ I.properties.aliases.type = "array"
      /\ I.properties.format.type = "string"
      /\ I.properties.format.enum = Catalogue!FieldFormats
      /\ I.properties.pattern.type = "string"
      /\ I.properties.pattern.regex = TRUE
  BY DEF Catalogue!FieldItem, Catalogue!Of, Catalogue!ListOf, Catalogue!OneOf, Catalogue!Regex
<1>2. Catalogue!FieldFormats # {}
  BY DEF Catalogue!FieldFormats
<1> HIDE DEF I
<1>3. /\ Catalogue!HasType(f, I.type)
      /\ f.is = "object" => \A k \in DOMAIN f.at \cap DOMAIN I.properties :
            Catalogue!JudgeAliases(f.at[k], I.properties[k]) = {}
  BY DEF Catalogue!JudgeField, Catalogue!Judge, I
<1>4. f.is = "object"
  BY <1>1, <1>3 DEF Catalogue!HasType
<1>5. ASSUME NEW v, NEW s, Catalogue!JudgeAliases(v, s) = {}
      PROVE  /\ Catalogue!HasType(v, s.type)
             /\ v.is = "string" /\ s.enum # {} => v.s \in s.enum
             /\ v.is = "string" /\ s.regex => v.s # Catalogue!Broken
  BY <1>5 DEF Catalogue!JudgeAliases, Catalogue!Judge, Catalogue!ValueErrors
<1>6. "aliases" \in DOMAIN f.at => f.at.aliases.is = "array"
  <2> HAVE "aliases" \in DOMAIN f.at
  <2>1. Catalogue!JudgeAliases(f.at.aliases, I.properties.aliases) = {}
    BY <1>1, <1>3, <1>4
  <2> QED BY <2>1, <1>5, <1>1 DEF Catalogue!HasType
<1>7. "format" \in DOMAIN f.at =>
         f.at.format.is = "string" /\ f.at.format.s \in Catalogue!FieldFormats
  <2> HAVE "format" \in DOMAIN f.at
  <2>1. Catalogue!JudgeAliases(f.at.format, I.properties.format) = {}
    BY <1>1, <1>3, <1>4
  <2>2. Catalogue!HasType(f.at.format, "string")
    BY <2>1, <1>5, <1>1
  <2> QED BY <2>1, <2>2, <1>5, <1>1, <1>2 DEF Catalogue!HasType
<1>8. "pattern" \in DOMAIN f.at => f.at.pattern # Catalogue!Text(Catalogue!Broken)
  <2> HAVE "pattern" \in DOMAIN f.at
  <2>1. Catalogue!JudgeAliases(f.at.pattern, I.properties.pattern) = {}
    BY <1>1, <1>3, <1>4
  <2>2. Catalogue!HasType(f.at.pattern, "string")
    BY <2>1, <1>5, <1>1
  <2>3. f.at.pattern.s # Catalogue!Broken
    BY <2>1, <2>2, <1>5, <1>1 DEF Catalogue!HasType
  <2> QED BY <2>3 DEF Catalogue!Text
<1> QED BY <1>4, <1>6, <1>7, <1>8

\* A list of fields that passes is a list, and each of its fields passes.
LEMMA ListValid ==
  ASSUME NEW v, Catalogue!JudgeFields(v, Catalogue!ListOf(Catalogue!FieldItem)) = {}
  PROVE  /\ v.is = "array"
         /\ \A f \in Catalogue!Range(v.items) : Catalogue!JudgeField(f, Catalogue!FieldItem) = {}
<1> DEFINE L == Catalogue!ListOf(Catalogue!FieldItem)
<1>1. L.type = "array" /\ L.items = {Catalogue!FieldItem}
  BY DEF Catalogue!ListOf, Catalogue!Of
<1> HIDE DEF L
<1> DEFINE items == IF v.is = "array" THEN Catalogue!Range(v.items) ELSE {}
           within == {Catalogue!JudgeField(f, s) : f \in items, s \in L.items}
<1>2. Catalogue!HasType(v, L.type) /\ UNION within = {}
  <2> DEFINE others == Catalogue!ValueErrors(v, L) \cup
                     (UNION {Catalogue!JudgeField(v.at[k], L.properties[k]) :
                             k \in IF v.is = "object" THEN DOMAIN v.at \cap DOMAIN L.properties ELSE {}})
  <2>1. Catalogue!JudgeFields(v, L) =
           IF ~Catalogue!HasType(v, L.type) THEN {"type"} ELSE others \cup UNION within
    BY DEF Catalogue!JudgeFields, Catalogue!Judge
  <2> HIDE DEF others, within
  <2>2. Catalogue!JudgeFields(v, L) = {}
    BY DEF L
  <2> QED BY <2>1, <2>2
<1>3. v.is = "array"
  BY <1>1, <1>2 DEF Catalogue!HasType
<1>4. ASSUME NEW f \in Catalogue!Range(v.items)
      PROVE  Catalogue!JudgeField(f, Catalogue!FieldItem) = {}
  <2>1. Catalogue!JudgeField(f, Catalogue!FieldItem) \in within
    BY <1>1, <1>3
  <2> QED BY <2>1, <1>2
<1> QED BY <1>3, <1>4

\* The checkers of fields.
FieldTypes == {"required_fields", "field_format"}

\* What the catalog says of the two checkers of fields.
LEMMA FieldsEntry ==
  ASSUME NEW type \in FieldTypes
  PROVE  /\ type \in DOMAIN Catalogue!Catalog
         /\ Catalogue!Catalog[type].type = "object"
         /\ Catalogue!Catalog[type].required = {"fields"}
         /\ DOMAIN Catalogue!Catalog[type].properties = {"fields"}
         /\ Catalogue!Catalog[type].properties.fields = Catalogue!ListOf(Catalogue!FieldItem)
<1>1. CASE type = "required_fields"
  BY <1>1 DEF Catalogue!Catalog, Catalogue!Entry, Catalogue!Of
<1>2. CASE type = "field_format"
  BY <1>2 DEF Catalogue!Catalog, Catalogue!Entry, Catalogue!Of
<1> QED BY <1>1, <1>2 DEF FieldTypes

\* Validation and the checkers of fields agree on every rule: when a rule for
\* required_fields or field_format passes validate_ruleset and each of its fields
\* has a name, none of its fields makes the checker raise, however many fields
\* there are and whatever else they hold.
THEOREM ValidFieldsRun ==
  ASSUME NEW type \in FieldTypes, NEW rule, rule.type = type,
         Catalogue!RuleErrors(rule) = {},
         \A f \in Catalogue!Range(Catalogue!Get(Catalogue!Object(rule.params), "fields",
                                      Catalogue!List(<<>>)).items) : Catalogue!Given(f, "name")
  PROVE  Catalogue!FieldRuleRuns(rule)
<1> DEFINE P == rule.params
           v == P.fields
           C == Catalogue!Catalog[type]
<1>0. /\ type \in DOMAIN Catalogue!Catalog
      /\ C.required = {"fields"} /\ DOMAIN C.properties = {"fields"} /\ C.type = "object"
      /\ C.properties.fields = Catalogue!ListOf(Catalogue!FieldItem)
  BY FieldsEntry
<1> HIDE DEF C
<1>1. /\ C.required \ DOMAIN P = {}
      /\ Catalogue!ValidateValue(Catalogue!Object(P), C) = {}
      /\ type = "field_format" =>
            Catalogue!FieldErrors(Catalogue!Get(Catalogue!Object(P), "fields", Catalogue!List(<<>>))) = {}
  BY <1>0 DEF Catalogue!RuleErrors, C
<1>2. "fields" \in DOMAIN P
  BY <1>0, <1>1
<1>3. Catalogue!Get(Catalogue!Object(P), "fields", Catalogue!List(<<>>)) = v
  BY <1>2 DEF Catalogue!Get, Catalogue!Object
<1>4. Catalogue!JudgeFields(v, C.properties.fields) = {}
  <2> DEFINE o == Catalogue!Object(P)
  <2>1. o.is = "object" /\ o.at = P
    BY DEF Catalogue!Object
  <2> HIDE DEF o
  <2>2. \A k \in DOMAIN o.at \cap DOMAIN C.properties :
           Catalogue!JudgeFields(o.at[k], C.properties[k]) = {}
    BY <1>1, <2>1, <1>0 DEF Catalogue!ValidateValue, Catalogue!Judge, Catalogue!HasType, o
  <2> QED BY <2>1, <2>2, <1>0, <1>2
<1>5. v.is = "array"
  BY <1>0, <1>4, ListValid
<1>6. ASSUME NEW f \in Catalogue!Range(v.items)
      PROVE  Catalogue!FieldRuns(type, f)
  <2>1. /\ f.is = "object"
        /\ "aliases" \in DOMAIN f.at => f.at.aliases.is = "array"
        /\ "format" \in DOMAIN f.at =>
              f.at.format.is = "string" /\ f.at.format.s \in Catalogue!FieldFormats
        /\ "pattern" \in DOMAIN f.at => f.at.pattern # Catalogue!Text(Catalogue!Broken)
    BY <1>0, <1>4, ListValid, FieldValid
  <2>2. Catalogue!Given(f, "name")
    BY <1>3
  <2>3. type = "field_format" => (Catalogue!Given(f, "format") \/ Catalogue!Given(f, "pattern"))
    BY <1>1, <1>3, <1>5 DEF Catalogue!FieldErrors
  <2> QED BY <2>1, <2>2, <2>3 DEF Catalogue!FieldRuns, Catalogue!Given
<1> QED BY <1>3, <1>5, <1>6 DEF Catalogue!FieldRuleRuns

\* What may be wrong with a rule of a draft.
RuleSoft == Soft \cup {"size_type", "sizes"}

\* A rule has a shape that validation accepts.
RuleFits(type, params) ==
  LET C == Catalogue!Catalog[type]
  IN  /\ type \in DOMAIN Catalogue!Catalog
      /\ C.required \subseteq DOMAIN params
      /\ Catalogue!ValidateValue(Catalogue!Object(params), C) \subseteq Soft
      /\ type = "field_format" =>
            Catalogue!FieldErrors(Catalogue!Get(Catalogue!Object(params), "fields",
                                                Catalogue!List(<<>>))) = {}
      /\ type = "layout_check" =>
            Catalogue!SizeErrors(Catalogue!Get(Catalogue!Object(params), "body",
                                 Catalogue!Object(Catalogue!Empty))) \subseteq {"size_type", "sizes"}

\* Validation finds nothing but numbers, patterns and sizes wrong with a rule
\* that fits.
LEMMA FittingRule ==
  ASSUME NEW rule, RuleFits(rule.type, rule.params)
  PROVE  Catalogue!RuleErrors(rule) \subseteq RuleSoft
<1> DEFINE C == Catalogue!Catalog[rule.type]
           missing == {"missing" : name \in C.required \ DOMAIN rule.params}
           fields == Catalogue!FieldErrors(Catalogue!Get(Catalogue!Object(rule.params), "fields",
                                           Catalogue!List(<<>>)))
           sizes == Catalogue!SizeErrors(Catalogue!Get(Catalogue!Object(rule.params), "body",
                                         Catalogue!Object(Catalogue!Empty)))
<1>1. Catalogue!RuleErrors(rule) = missing
         \cup Catalogue!ValidateValue(Catalogue!Object(rule.params), C)
         \cup (IF rule.type = "field_format" THEN fields ELSE {})
         \cup (IF rule.type = "layout_check" THEN sizes ELSE {})
  BY DEF Catalogue!RuleErrors, RuleFits
<1>2. missing = {} /\ Catalogue!ValidateValue(Catalogue!Object(rule.params), C) \subseteq Soft
  BY DEF RuleFits
<1>3. /\ rule.type = "field_format" => fields = {}
      /\ rule.type = "layout_check" => sizes \subseteq {"size_type", "sizes"}
  BY DEF RuleFits
<1> HIDE DEF missing, fields, sizes, C
<1> QED BY <1>1, <1>2, <1>3 DEF RuleSoft

\* A rule none of whose parameters is looked into further fits when each of them
\* passes its schema.
LEMMA PlainFits ==
  ASSUME NEW type \in DOMAIN Catalogue!Catalog, NEW params,
         LET C == Catalogue!Catalog[type]
         IN  /\ type \notin {"field_format", "layout_check"}
             /\ C.type = "object" /\ C.items = {}
             /\ C.required \subseteq DOMAIN params
             /\ \A k \in DOMAIN params \cap DOMAIN C.properties :
                   Catalogue!JudgeFields(params[k], C.properties[k]) \subseteq Soft
  PROVE  RuleFits(type, params)
<1> DEFINE C == Catalogue!Catalog[type]
           o == Catalogue!Object(params)
<1>1. o.is = "object" /\ o.at = params
  BY DEF Catalogue!Object
<1> HIDE DEF C, o
<1>2. Catalogue!ValidateValue(o, C) \subseteq Soft
  BY <1>1, RuleJudged DEF C
<1> QED BY <1>2 DEF RuleFits, C, o

\* A number passes where a number is asked for, or is too small.
LEMMA NumberFits ==
  ASSUME NEW n, NEW s, s.type \in {"integer", "number"}
  PROVE  Catalogue!JudgeFields(Catalogue!Number(n), s) \subseteq Soft
<1> DEFINE v == Catalogue!Number(n)
<1>1. v.is = "integer"
  BY DEF Catalogue!Number
<1> HIDE DEF v
<1> QED BY <1>1, PlainJudged DEF Catalogue!HasType, v

\* A text passes where a text is asked for, or is a broken pattern.
LEMMA TextFits ==
  ASSUME NEW t, NEW s, s.type = "string", s.enum = {} \/ t \in s.enum
  PROVE  /\ Catalogue!JudgeFields(Catalogue!Text(t), s) \subseteq Soft
         /\ Catalogue!JudgeField(Catalogue!Text(t), s) \subseteq Soft
         /\ Catalogue!JudgeAliases(Catalogue!Text(t), s) \subseteq Soft
<1> DEFINE v == Catalogue!Text(t)
<1>1. v.is = "string" /\ v.s = t
  BY DEF Catalogue!Text
<1> HIDE DEF v
<1> QED BY <1>1, PlainJudged DEF Catalogue!HasType, v

\* An object passes where any object will do.
LEMMA ObjectFits ==
  ASSUME NEW v, NEW s, v.is = "object", s.type = "object", DOMAIN s.properties = {}
  PROVE  /\ Catalogue!JudgeFields(v, s) \subseteq Soft
         /\ Catalogue!JudgeField(v, s) \subseteq Soft
BY PlainJudged DEF Catalogue!HasType

-----------------------------------------------------------------------------
(* Drafts: each kind of requirement.                                       *)
\* A draft of a rule fits, or there is none.
Accepted(m) == m.type = "none" \/ RuleFits(m.type, m.params)

\* The parts of a drafted rule.
LEMMA DraftedIs ==
  ASSUME NEW type, NEW params
  PROVE  Catalogue!Drafted(type, params).type = type /\ Catalogue!Drafted(type, params).params = params
BY DEF Catalogue!Drafted

\* A requirement that becomes no rule leaves nothing to validate.
LEMMA NoRuleAccepted == Accepted(Catalogue!NoRule)
BY DEF Accepted, Catalogue!NoRule

\* A draft with one parameter fits when that one passes.
LEMMA OnlyFits ==
  ASSUME NEW type \in DOMAIN Catalogue!Catalog, NEW key, NEW value, NEW s,
         LET C == Catalogue!Catalog[type]
         IN  /\ type \notin {"field_format", "layout_check"}
             /\ C.type = "object" /\ C.items = {}
             /\ C.required \subseteq {key} /\ key \in DOMAIN C.properties
             /\ C.properties[key] = s,
         Catalogue!JudgeFields(value, s) \subseteq Soft
  PROVE  Accepted(Catalogue!Drafted(type, Catalogue!Only(key, value)))
<1> DEFINE params == Catalogue!Only(key, value)
<1>1. DOMAIN params = {key} /\ params[key] = value
  BY DEF Catalogue!Only
<1> HIDE DEF params
<1>2. RuleFits(type, params)
  BY <1>1, PlainFits
<1> QED BY <1>2, DraftedIs DEF Accepted, params

\* Limits on pages and words and the length of a term become rules that fit.
LEMMA NumbersAccepted ==
  ASSUME NEW d
  PROVE  /\ Accepted(Catalogue!MapNumber(d, "page_limit", "max_pages"))
         /\ Accepted(Catalogue!MapNumber(d, "word_limit", "max_words"))
         /\ Accepted(Catalogue!MapNumber(d, "date_check", "expected_months"))
<1> DEFINE C == Catalogue!Catalog
           s == Catalogue!AtLeast(1)
           n == Catalogue!Number(d.number)
<1>1. s.type = "integer"
  BY DEF Catalogue!AtLeast, Catalogue!Of
<1>2. Catalogue!JudgeFields(n, s) \subseteq Soft
  BY <1>1, NumberFits
<1>3. /\ "page_limit" \in DOMAIN C /\ C.page_limit.type = "object" /\ C.page_limit.items = {}
      /\ C.page_limit.required = {"max_pages"}
      /\ "max_pages" \in DOMAIN C.page_limit.properties /\ C.page_limit.properties.max_pages = s
  BY DEF Catalogue!Catalog, Catalogue!Entry, Catalogue!Of
<1>4. /\ "word_limit" \in DOMAIN C /\ C.word_limit.type = "object" /\ C.word_limit.items = {}
      /\ C.word_limit.required = {}
      /\ "max_words" \in DOMAIN C.word_limit.properties /\ C.word_limit.properties.max_words = s
  BY DEF Catalogue!Catalog, Catalogue!Entry, Catalogue!Of
<1>5. /\ "date_check" \in DOMAIN C /\ C.date_check.type = "object" /\ C.date_check.items = {}
      /\ C.date_check.required = {}
      /\ "expected_months" \in DOMAIN C.date_check.properties
      /\ C.date_check.properties.expected_months = s
  BY DEF Catalogue!Catalog, Catalogue!Entry, Catalogue!Of
<1> HIDE DEF C, s, n
<1>6. Accepted(Catalogue!Drafted("page_limit", Catalogue!Only("max_pages", n)))
  BY <1>2, <1>3, OnlyFits DEF C
<1>7. Accepted(Catalogue!Drafted("word_limit", Catalogue!Only("max_words", n)))
  BY <1>2, <1>4, OnlyFits DEF C
<1>8. Accepted(Catalogue!Drafted("date_check", Catalogue!Only("expected_months", n)))
  BY <1>2, <1>5, OnlyFits DEF C
<1> QED BY <1>6, <1>7, <1>8, NoRuleAccepted DEF Catalogue!MapNumber, n

\* A field with nothing but a name, a format that is known or a pattern passes.
LEMMA NamedFieldFits ==
  ASSUME NEW f, f.is = "object", DOMAIN f.at \subseteq {"name", "format", "pattern"},
         \A k \in DOMAIN f.at : \E t : f.at[k] = Catalogue!Text(t),
         "format" \in DOMAIN f.at => \E t \in Catalogue!FieldFormats : f.at.format = Catalogue!Text(t)
  PROVE  Catalogue!JudgeField(f, Catalogue!FieldItem) \subseteq Soft
<1> DEFINE I == Catalogue!FieldItem
<1>1. /\ I.type = "object" /\ I.items = {}
      /\ {"name", "format", "pattern"} \subseteq DOMAIN I.properties
      /\ I.properties.name.type = "string" /\ I.properties.name.enum = {}
      /\ I.properties.format.type = "string"
      /\ I.properties.format.enum = Catalogue!FieldFormats
      /\ I.properties.pattern.type = "string" /\ I.properties.pattern.enum = {}
  BY DEF Catalogue!FieldItem, Catalogue!Of, Catalogue!ListOf, Catalogue!OneOf, Catalogue!Regex
<1> HIDE DEF I
<1>2. ASSUME NEW k \in DOMAIN f.at \cap DOMAIN I.properties
      PROVE  Catalogue!JudgeAliases(f.at[k], I.properties[k]) \subseteq Soft
  <2>1. CASE k = "format"
    BY <2>1, <1>1, TextFits
  <2>2. CASE k = "name"
    BY <2>2, <1>1, TextFits
  <2>3. CASE k = "pattern"
    BY <2>3, <1>1, TextFits
  <2> QED BY <2>1, <2>2, <2>3
<1> QED BY <1>1, <1>2, FieldJudged DEF I

\* Lists of sections, of attachments and of fields become rules that fit.
LEMMA NamesAccepted ==
  ASSUME NEW d
  PROVE  /\ Accepted(Catalogue!MapNames(d, "required_sections", "sections", Catalogue!List(
               [i \in DOMAIN d.names |-> Catalogue!Object([title |-> Catalogue!Text(d.names[i])])])))
         /\ Accepted(Catalogue!MapNames(d, "attachment_checklist", "expected", Catalogue!List(
               [i \in DOMAIN d.names |-> Catalogue!Text(d.names[i])])))
         /\ Accepted(Catalogue!MapNames(d, "required_fields", "fields",
               Catalogue!NamedFields(d.names)))
<1> DEFINE C == Catalogue!Catalog
           sections == Catalogue!List([i \in DOMAIN d.names |->
                          Catalogue!Object([title |-> Catalogue!Text(d.names[i])])])
           expected == Catalogue!List([i \in DOMAIN d.names |-> Catalogue!Text(d.names[i])])
           fields == Catalogue!NamedFields(d.names)
           objects == Catalogue!ListOf(Catalogue!Of("object"))
           strings == Catalogue!ListOf(Catalogue!Of("string"))
           items == Catalogue!ListOf(Catalogue!FieldItem)
<1>1. /\ objects.type = "array" /\ objects.items = {Catalogue!Of("object")}
      /\ strings.type = "array" /\ strings.items = {Catalogue!Of("string")}
      /\ items.type = "array" /\ items.items = {Catalogue!FieldItem}
  BY DEF Catalogue!ListOf, Catalogue!Of
<1>2. Catalogue!JudgeFields(sections, objects) \subseteq Soft
  <2>1. /\ sections.is = "array"
        /\ \A x \in Catalogue!Range(sections.items) : \E at : x = Catalogue!Object(at)
    BY DEF Catalogue!List, Catalogue!Range
  <2>2. Catalogue!Of("object").type = "object" /\ DOMAIN Catalogue!Of("object").properties = {}
    BY DEF Catalogue!Of, Catalogue!Empty
  <2> HIDE DEF sections, objects
  <2>3. \A at : Catalogue!Object(at).is = "object"
    BY DEF Catalogue!Object
  <2>4. \A x \in Catalogue!Range(sections.items) :
           Catalogue!JudgeField(x, Catalogue!Of("object")) \subseteq Soft
    BY <2>1, <2>2, <2>3, ObjectFits
  <2> QED BY <1>1, <2>1, <2>4, ListJudged
<1>3. Catalogue!JudgeFields(expected, strings) \subseteq Soft
  <2>1. /\ expected.is = "array"
        /\ \A x \in Catalogue!Range(expected.items) : \E t : x = Catalogue!Text(t)
    BY DEF Catalogue!List, Catalogue!Range
  <2>2. Catalogue!Of("string").type = "string" /\ Catalogue!Of("string").enum = {}
    BY DEF Catalogue!Of
  <2> HIDE DEF expected, strings
  <2>3. \A x \in Catalogue!Range(expected.items) :
           Catalogue!JudgeField(x, Catalogue!Of("string")) \subseteq Soft
    BY <2>1, <2>2, TextFits
  <2> QED BY <1>1, <2>1, <2>3, ListJudged
<1>4. Catalogue!JudgeFields(fields, items) \subseteq Soft
  <2>1. /\ fields.is = "array"
        /\ \A x \in Catalogue!Range(fields.items) :
              \E t : x = Catalogue!Object([name |-> Catalogue!Text(t)])
    BY DEF Catalogue!List, Catalogue!Range, Catalogue!NamedFields
  <2> HIDE DEF fields, items
  <2>2. ASSUME NEW x \in Catalogue!Range(fields.items)
        PROVE  Catalogue!JudgeField(x, Catalogue!FieldItem) \subseteq Soft
    <3>1. PICK t : x = Catalogue!Object([name |-> Catalogue!Text(t)])
      BY <2>1
    <3>2. x.is = "object" /\ DOMAIN x.at = {"name"} /\ x.at.name = Catalogue!Text(t)
      BY <3>1 DEF Catalogue!Object
    <3> QED BY <3>2, NamedFieldFits
  <2> QED BY <1>1, <2>1, <2>2, ListJudged
<1>5. /\ "required_sections" \in DOMAIN C /\ C.required_sections.type = "object"
      /\ C.required_sections.items = {} /\ C.required_sections.required = {"sections"}
      /\ "sections" \in DOMAIN C.required_sections.properties
      /\ C.required_sections.properties.sections = objects
  BY DEF Catalogue!Catalog, Catalogue!Entry, Catalogue!Of
<1>6. /\ "attachment_checklist" \in DOMAIN C /\ C.attachment_checklist.type = "object"
      /\ C.attachment_checklist.items = {} /\ C.attachment_checklist.required = {"expected"}
      /\ "expected" \in DOMAIN C.attachment_checklist.properties
      /\ C.attachment_checklist.properties.expected = strings
  BY DEF Catalogue!Catalog, Catalogue!Entry, Catalogue!Of
<1>7. /\ "required_fields" \in DOMAIN C /\ C.required_fields.type = "object"
      /\ C.required_fields.items = {} /\ C.required_fields.required = {"fields"}
      /\ "fields" \in DOMAIN C.required_fields.properties
      /\ C.required_fields.properties.fields = items
  BY DEF Catalogue!Catalog, Catalogue!Entry, Catalogue!Of
<1> HIDE DEF C, sections, expected, fields, objects, strings, items
<1>8. Accepted(Catalogue!Drafted("required_sections", Catalogue!Only("sections", sections)))
  BY <1>2, <1>5, OnlyFits DEF C
<1>9. Accepted(Catalogue!Drafted("attachment_checklist", Catalogue!Only("expected", expected)))
  BY <1>3, <1>6, OnlyFits DEF C
<1>10. Accepted(Catalogue!Drafted("required_fields", Catalogue!Only("fields", fields)))
  BY <1>4, <1>7, OnlyFits DEF C
<1> QED
  BY <1>8, <1>9, <1>10, NoRuleAccepted DEF Catalogue!MapNames, sections, expected, fields

\* A font and its size become a rule that fits, whichever of them is given.
LEMMA FontAccepted ==
  ASSUME NEW d
  PROVE  Accepted(Catalogue!MapFont(d))
<1> DEFINE given == {k \in {"body_font", "body_size"} :
               IF k = "body_font" THEN d.names # <<>> ELSE d.number # Catalogue!NoNumber}
           params == [k \in given |-> IF k = "body_font" THEN Catalogue!Text(d.names[1])
                                                         ELSE Catalogue!Number(d.number)]
           C == Catalogue!Catalog["font_check"]
<1>1. Catalogue!MapFont(d) = IF given = {} THEN Catalogue!NoRule
                             ELSE Catalogue!Drafted("font_check", params)
  BY DEF Catalogue!MapFont
<1>2. /\ "font_check" \in DOMAIN Catalogue!Catalog /\ C.type = "object" /\ C.items = {}
      /\ C.required = {} /\ DOMAIN C.properties = {"body_font", "body_size"}
      /\ C.properties.body_font = Catalogue!Of("string")
      /\ C.properties.body_size.type = "number"
  BY DEF Catalogue!Catalog, Catalogue!Entry, Catalogue!Of, Catalogue!AtLeast
<1>3. Catalogue!Of("string").type = "string" /\ Catalogue!Of("string").enum = {}
  BY DEF Catalogue!Of
<1>4. /\ DOMAIN params \subseteq {"body_font", "body_size"}
      /\ "body_font" \in DOMAIN params => params.body_font = Catalogue!Text(d.names[1])
      /\ "body_size" \in DOMAIN params => params.body_size = Catalogue!Number(d.number)
  OBVIOUS
<1> HIDE DEF params, C
<1>5. \A k \in DOMAIN params \cap DOMAIN C.properties :
         Catalogue!JudgeFields(params[k], C.properties[k]) \subseteq Soft
  BY <1>2, <1>3, <1>4, TextFits, NumberFits
<1>6. RuleFits("font_check", params)
  BY <1>2, <1>5, PlainFits DEF C
<1>7. Accepted(Catalogue!Drafted("font_check", params))
  BY <1>6, DraftedIs DEF Accepted
<1> HIDE DEF given
<1> QED BY <1>1, <1>7, NoRuleAccepted

\* A ratio of the budget becomes a rule that fits.
LEMMA RatioAccepted ==
  ASSUME NEW d
  PROVE  Accepted(Catalogue!MapRatio(d))
<1> DEFINE C == Catalogue!Catalog["budget_check"]
           v == Catalogue!Object(Catalogue!Only(d.names[1], Catalogue!Number(d.number)))
           params == [max_ratio |-> v]
<1>1. /\ "budget_check" \in DOMAIN Catalogue!Catalog /\ C.type = "object" /\ C.items = {}
      /\ C.required = {} /\ "max_ratio" \in DOMAIN C.properties
      /\ C.properties.max_ratio.type = "object" /\ DOMAIN C.properties.max_ratio.properties = {}
  BY DEF Catalogue!Catalog, Catalogue!Entry, Catalogue!Of, Catalogue!Empty
<1>2. v.is = "object"
  BY DEF Catalogue!Object
<1> HIDE DEF v, C
<1>3. Catalogue!JudgeFields(v, C.properties.max_ratio) \subseteq Soft
  BY <1>1, <1>2, ObjectFits
<1>4. DOMAIN params = {"max_ratio"} /\ params.max_ratio = v
  OBVIOUS
<1>5. RuleFits("budget_check", params)
  <2> HIDE DEF params
  <2> QED BY <1>1, <1>3, <1>4, PlainFits DEF C
<1> QED BY <1>5, DraftedIs, NoRuleAccepted DEF Accepted, Catalogue!MapRatio, v

\* The format or the pattern of a field becomes a rule that fits: a format is
\* only taken when it is known, and one of the two is there.
LEMMA FormatAccepted ==
  ASSUME NEW d
  PROVE  Accepted(Catalogue!MapFieldFormat(d))
<1> DEFINE at == Catalogue!FormatOf(d)
           f == Catalogue!Object(at)
           fields == Catalogue!List(<<f>>)
           params == [fields |-> fields]
           C == Catalogue!Catalog["field_format"]
<1>1. Catalogue!MapFieldFormat(d) = Catalogue!NoRule
      \/ /\ Catalogue!MapFieldFormat(d) = Catalogue!Drafted("field_format", params)
         /\ d.format # "" \/ d.pattern # ""
         /\ d.format = "" \/ d.format \in Catalogue!FieldFormats
  BY DEF Catalogue!MapFieldFormat
<1>2. CASE /\ d.format # "" \/ d.pattern # ""
           /\ d.format = "" \/ d.format \in Catalogue!FieldFormats
  <2>1. /\ DOMAIN at \subseteq {"name", "format", "pattern"}
        /\ \A k \in DOMAIN at : \E t : at[k] = Catalogue!Text(t)
        /\ "format" \in DOMAIN at => at.format = Catalogue!Text(d.format) /\ d.format # ""
        /\ "format" \notin DOMAIN at =>
              "pattern" \in DOMAIN at /\ at.pattern = Catalogue!Text(d.pattern) /\ d.pattern # ""
    <3>1. CASE d.format # ""
      <4>1. at = [name |-> Catalogue!Text(d.names[1]), format |-> Catalogue!Text(d.format)]
        BY <3>1 DEF Catalogue!FormatOf
      <4> HIDE DEF at
      <4>2. DOMAIN at = {"name", "format"} /\ at.name = Catalogue!Text(d.names[1])
        BY <4>1
      <4>3. at.format = Catalogue!Text(d.format)
        BY <4>1
      <4> QED BY <3>1, <4>2, <4>3
    <3>2. CASE d.format = ""
      <4>1. at = [name |-> Catalogue!Text(d.names[1]), pattern |-> Catalogue!Text(d.pattern)]
        BY <3>2 DEF Catalogue!FormatOf
      <4> HIDE DEF at
      <4>2. DOMAIN at = {"name", "pattern"} /\ at.name = Catalogue!Text(d.names[1])
        BY <4>1
      <4>3. at.pattern = Catalogue!Text(d.pattern)
        BY <4>1
      <4> QED BY <1>2, <3>2, <4>2, <4>3
    <3> QED BY <3>1, <3>2
  <2>2. f.is = "object" /\ f.at = at
    BY DEF Catalogue!Object
  <2>3. fields.is = "array" /\ Catalogue!Range(fields.items) = {f}
    BY DEF Catalogue!List, Catalogue!Range
  <2> HIDE DEF at, f, fields
  <2>4. Catalogue!JudgeField(f, Catalogue!FieldItem) \subseteq Soft
    BY <1>2, <2>1, <2>2, NamedFieldFits
  <2>5. /\ "field_format" \in DOMAIN Catalogue!Catalog /\ C.type = "object" /\ C.items = {}
        /\ C.required = {"fields"} /\ DOMAIN C.properties = {"fields"}
        /\ C.properties.fields.type = "array" /\ C.properties.fields.items = {Catalogue!FieldItem}
    BY FieldsEntry DEF FieldTypes, Catalogue!ListOf, Catalogue!Of, Catalogue!Catalog, Catalogue!Entry
  <2> HIDE DEF C
  <2>6. Catalogue!JudgeFields(fields, C.properties.fields) \subseteq Soft
    BY <2>3, <2>4, <2>5, ListJudged
  <2>7. DOMAIN params = {"fields"} /\ params.fields = fields
    OBVIOUS
  <2> HIDE DEF params
  <2>8. /\ Catalogue!Object(params).is = "object" /\ Catalogue!Object(params).at = params
        /\ Catalogue!Get(Catalogue!Object(params), "fields", Catalogue!List(<<>>)) = fields
    BY <2>7 DEF Catalogue!Object, Catalogue!Get
  <2>9. Catalogue!ValidateValue(Catalogue!Object(params), C) \subseteq Soft
    BY <2>5, <2>6, <2>7, <2>8, RuleJudged
  <2>10. Catalogue!FieldErrors(fields) = {}
    <3>1. Catalogue!Given(f, "format") \/ Catalogue!Given(f, "pattern")
      <4>1. \A a, b : Catalogue!Text(a) = Catalogue!Text(b) => a = b
        BY DEF Catalogue!Text
      <4> QED BY <4>1, <2>1, <2>2 DEF Catalogue!Given
    <3> QED BY <3>1, <2>2, <2>3 DEF Catalogue!FieldErrors
  <2>11. RuleFits("field_format", params)
    BY <2>5, <2>7, <2>8, <2>9, <2>10 DEF RuleFits, C
  <2>12. Accepted(Catalogue!Drafted("field_format", params))
    BY <2>11, DraftedIs DEF Accepted
  <2> QED BY <1>1, <2>12, NoRuleAccepted DEF params, fields, f, at
<1> QED BY <1>1, <1>2, NoRuleAccepted

\* A layout becomes a rule that fits: what is no object is left out, so that the
\* sizes it may hold can be looked into.
LEMMA LayoutAccepted ==
  ASSUME NEW d
  PROVE  Accepted(Catalogue!MapLayout(d))
<1> DEFINE page == Catalogue!Object([size |-> Catalogue!Text(d.format)])
           params == IF d.body.is = "object" THEN [body |-> d.body, page |-> page] ELSE [page |-> page]
           C == Catalogue!Catalog["layout_check"]
           body == Catalogue!Get(Catalogue!Object(params), "body", Catalogue!Object(Catalogue!Empty))
<1>1. Catalogue!MapLayout(d) = Catalogue!NoRule
      \/ Catalogue!MapLayout(d) = Catalogue!Drafted("layout_check", params)
  BY DEF Catalogue!MapLayout
<1>2. /\ DOMAIN params \subseteq {"body", "page"} /\ "page" \in DOMAIN params /\ params.page = page
      /\ "body" \in DOMAIN params => params.body.is = "object"
  OBVIOUS
<1>3. page.is = "object"
  BY DEF Catalogue!Object
<1>4. /\ "layout_check" \in DOMAIN Catalogue!Catalog /\ C.type = "object" /\ C.items = {}
      /\ C.required = {} /\ {"body", "page"} \subseteq DOMAIN C.properties
      /\ C.properties.body = Catalogue!Of("object") /\ C.properties.page = Catalogue!Of("object")
  BY DEF Catalogue!Catalog, Catalogue!Entry, Catalogue!Of
<1>5. Catalogue!Of("object").type = "object" /\ DOMAIN Catalogue!Of("object").properties = {}
  BY DEF Catalogue!Of, Catalogue!Empty
<1> HIDE DEF page, params, C
<1>6. \A k \in DOMAIN params \cap DOMAIN C.properties :
         Catalogue!JudgeFields(params[k], C.properties[k]) \subseteq Soft
  BY <1>2, <1>3, <1>4, <1>5, ObjectFits
<1>7. Catalogue!Object(params).is = "object" /\ Catalogue!Object(params).at = params
  BY DEF Catalogue!Object
<1>8. Catalogue!ValidateValue(Catalogue!Object(params), C) \subseteq Soft
  BY <1>4, <1>6, <1>7, RuleJudged
<1>9. body.is = "object"
  BY <1>2, <1>7 DEF Catalogue!Get, Catalogue!Object
<1> HIDE DEF body
<1>10. Catalogue!SizeErrors(body) \subseteq {"size_type", "sizes"}
  BY <1>9 DEF Catalogue!SizeErrors
<1>11. RuleFits("layout_check", params)
  BY <1>4, <1>8, <1>10 DEF RuleFits, C, body
<1> QED BY <1>1, <1>11, DraftedIs, NoRuleAccepted DEF Accepted

\* The rule on the numbers of headings fits.
LEMMA NumberingAccepted ==
  Accepted(Catalogue!Drafted("heading_numbering",
              [require_numbering |-> Catalogue!Flag(TRUE), allow_mixed_styles |-> Catalogue!Flag(FALSE)]))
<1> DEFINE params == [require_numbering |-> Catalogue!Flag(TRUE),
                      allow_mixed_styles |-> Catalogue!Flag(FALSE)]
           C == Catalogue!Catalog["heading_numbering"]
<1>1. /\ "heading_numbering" \in DOMAIN Catalogue!Catalog /\ C.type = "object" /\ C.items = {}
      /\ C.required = {}
      /\ C.properties.require_numbering = Catalogue!Of("boolean")
      /\ C.properties.allow_mixed_styles = Catalogue!Of("boolean")
  BY DEF Catalogue!Catalog, Catalogue!Entry, Catalogue!Of
<1>2. /\ DOMAIN params = {"require_numbering", "allow_mixed_styles"}
      /\ params.require_numbering.is = "boolean" /\ params.allow_mixed_styles.is = "boolean"
  BY DEF Catalogue!Flag
<1>3. Catalogue!Of("boolean").type = "boolean"
  BY DEF Catalogue!Of
<1> HIDE DEF params, C
<1>4. \A k \in DOMAIN params \cap DOMAIN C.properties :
         Catalogue!JudgeFields(params[k], C.properties[k]) \subseteq Soft
  BY <1>1, <1>2, <1>3, PlainJudged DEF Catalogue!HasType
<1>5. RuleFits("heading_numbering", params)
  BY <1>1, <1>4, PlainFits DEF C
<1> QED BY <1>5, DraftedIs DEF Accepted, params

\* _map_requirement: whatever kind and detail a model answers, the requirement
\* becomes a rule that fits or none.
LEMMA RequirementAccepted ==
  ASSUME NEW r
  PROVE  Accepted(Catalogue!MapRequirement(r))
<1> DEFINE d == r.detail
           numbered == Catalogue!Drafted("heading_numbering",
              [require_numbering |-> Catalogue!Flag(TRUE), allow_mixed_styles |-> Catalogue!Flag(FALSE)])
           titles == Catalogue!List([i \in DOMAIN d.names |->
                        Catalogue!Object([title |-> Catalogue!Text(d.names[i])])])
           texts == Catalogue!List([i \in DOMAIN d.names |-> Catalogue!Text(d.names[i])])
<1> DEFINE made == {Catalogue!MapNumber(d, "page_limit", "max_pages"),
                    Catalogue!MapNumber(d, "word_limit", "max_words"),
                    Catalogue!MapNumber(d, "date_check", "expected_months"),
                    Catalogue!MapNames(d, "required_sections", "sections", titles),
                    Catalogue!MapNames(d, "attachment_checklist", "expected", texts),
                    Catalogue!MapNames(d, "required_fields", "fields", Catalogue!NamedFields(d.names)),
                    Catalogue!MapFont(d), Catalogue!MapRatio(d), Catalogue!MapFieldFormat(d),
                    numbered, Catalogue!MapLayout(d), Catalogue!NoRule}
<1>1. Catalogue!MapRequirement(r) \in made
  BY DEF Catalogue!MapRequirement
<1>2. \A m \in made : Accepted(m)
  <2> HIDE DEF d
  <2> QED BY NumbersAccepted, NamesAccepted, FontAccepted, RatioAccepted, FormatAccepted,
             NumberingAccepted, LayoutAccepted, NoRuleAccepted
<1> QED BY <1>1, <1>2

-----------------------------------------------------------------------------
(* Drafts: the loop over the requirements.                                 *)
\* A set of natural numbers with zero in it and with each number the next holds
\* them all.
LEMMA Counting ==
  ASSUME NEW S \in SUBSET Nat, 0 \in S, \A n \in S : n + 1 \in S
  PROVE  \A n \in Nat : n \in S
<1> SUFFICES ASSUME NEW m \in Nat, m \notin S
             PROVE  FALSE
  OBVIOUS
<1>1. PICK x \in Nat \ S : \A y \in Nat \ S : x <= y
  BY LeastNumber
<1>2. x # 0 /\ x - 1 \in Nat /\ (x - 1) + 1 = x
  BY <1>1
<1>3. x - 1 \in S
  BY <1>1, <1>2
<1> QED BY <1>1, <1>2, <1>3

\* The draft before the first requirement.
NothingDrafted == [seen |-> {}, rules |-> <<>>, dropped |-> <<>>]

\* The loop of build_draft_yaml has a state before and after each requirement:
\* the recursive function of the model is one.
LEMMA DraftSteps ==
  ASSUME NEW R, NEW requirements \in Seq(R)
  PROVE  \E f : /\ Catalogue!BuildDraft(requirements) = f[Len(requirements)]
                /\ f[0] = NothingDrafted
                /\ \A i \in 1 .. Len(requirements) : f[i] = Catalogue!Take(f[i - 1], requirements[i])
<1> DEFINE N == Len(requirements)
           Step(f, i) == IF i = 0 THEN NothingDrafted ELSE Catalogue!Take(f[i - 1], requirements[i])
           Is(f, n) == f = [i \in 0 .. n |-> Step(f, i)]
           S == {n \in Nat : \E f : Is(f, n)}
<1>1. N \in Nat
  BY LenProperties
<1> HIDE DEF N
<1>2. 0 \in S
  <2> DEFINE f == [i \in 0 .. 0 |-> NothingDrafted]
  <2>1. Is(f, 0)
    OBVIOUS
  <2> QED BY <2>1
<1>3. ASSUME NEW n \in S
      PROVE  n + 1 \in S
  <2>1. PICK f : Is(f, n)
    OBVIOUS
  <2> DEFINE g == [i \in 0 .. n + 1 |-> IF i = n + 1 THEN Catalogue!Take(f[n], requirements[n + 1]) ELSE f[i]]
  <2>2. ASSUME NEW i \in 0 .. n + 1
        PROVE  g[i] = Step(g, i)
    <3>1. CASE i = 0
      BY <2>1, <3>1
    <3>2. CASE i # 0 /\ i # n + 1
      <4>1. i \in 0 .. n /\ i - 1 \in 0 .. n /\ i - 1 # n + 1 /\ i - 1 \in 0 .. n + 1
        BY <3>2
      <4>2. f[i] = Catalogue!Take(f[i - 1], requirements[i])
        BY <2>1, <3>2, <4>1
      <4>3. g[i] = f[i] /\ g[i - 1] = f[i - 1]
        BY <3>2, <4>1
      <4> HIDE DEF g
      <4> QED BY <3>2, <4>2, <4>3
    <3>3. CASE i # 0 /\ i = n + 1
      <4>1. n \in 0 .. n + 1 /\ n # n + 1 /\ i - 1 = n
        BY <3>3
      <4>2. g[n] = f[n] /\ g[i] = Catalogue!Take(f[n], requirements[n + 1])
        BY <3>3, <4>1
      <4> HIDE DEF g
      <4> QED BY <3>3, <4>1, <4>2
    <3> QED BY <3>1, <3>2, <3>3
  <2>3. Is(g, n + 1)
    <3>1. g = [i \in 0 .. n + 1 |-> g[i]]
      OBVIOUS
    <3> HIDE DEF g, Step
    <3> QED BY <2>2, <3>1
  <2> HIDE DEF Is
  <2> QED BY <2>3
<1>4. PICK f : Is(f, N)
  <2> HIDE DEF Is
  <2>1. N \in S
    <3> HIDE DEF S
    <3>1. S \in SUBSET Nat
      BY DEF S
    <3> QED BY <1>1, <1>2, <1>3, <3>1, Counting
  <2> QED BY <2>1
<1> DEFINE g == CHOOSE h : Is(h, N)
<1>5. Is(g, N)
  <2> HIDE DEF Is
  <2> QED BY <1>4
<1>6. Catalogue!BuildDraft(requirements) = g[N]
  BY DEF Catalogue!BuildDraft, NothingDrafted, N
<1> HIDE DEF g
<1>7. g[0] = NothingDrafted
  BY <1>1, <1>5
<1>8. ASSUME NEW i \in 1 .. N
      PROVE  g[i] = Catalogue!Take(g[i - 1], requirements[i])
  <2>1. i \in 0 .. N /\ i # 0
    BY <1>1
  <2>2. g[i] = Step(g, i)
    <3> HIDE DEF Step
    <3> QED BY <1>5, <2>1
  <2> QED BY <2>1, <2>2
<1> QED BY <1>6, <1>7, <1>8 DEF N

\* The state of a draft of requirements from R.
RulesOf(R) == {[id |-> n, type |-> Catalogue!MapRequirement(r).type,
                params |-> Catalogue!MapRequirement(r).params] : n \in Nat, r \in R}

DraftState(R) == [seen : SUBSET R, rules : Seq(RulesOf(R)), dropped : Seq(R)]

\* A draft in order: the requirements taken so far were each made a rule, with the
\* next number, or dropped.
DraftInv(s, R, taken) ==
  /\ s \in DraftState(R)
  /\ s.seen = taken
  /\ IsFiniteSet(taken)
  /\ \A k \in 1 .. Len(s.rules) : s.rules[k].id = k /\ RuleFits(s.rules[k].type, s.rules[k].params)
  /\ Len(s.rules) + Len(s.dropped) = Cardinality(taken)

\* Sums.
LEMMA OneMore ==
  \A a, b, c \in Nat : (a + b = c) => (((a + 1) + b = c + 1) /\ (a + (b + 1) = c + 1))
OBVIOUS

\* One turn of the loop keeps the draft in order: a requirement that was taken
\* before changes nothing, another one is dropped or becomes the next rule.
LEMMA TakeKeeps ==
  ASSUME NEW R, NEW r \in R, NEW s, NEW taken, DraftInv(s, R, taken)
  PROVE  DraftInv(Catalogue!Take(s, r), R, taken \cup {r})
<1> DEFINE rule == Catalogue!MapRequirement(r)
           made == [id |-> Len(s.rules) + 1, type |-> rule.type, params |-> rule.params]
<1>1. /\ s \in DraftState(R) /\ s.seen = taken /\ IsFiniteSet(taken)
      /\ s.seen \in SUBSET R /\ s.rules \in Seq(RulesOf(R)) /\ s.dropped \in Seq(R)
      /\ \A k \in 1 .. Len(s.rules) : s.rules[k].id = k /\ RuleFits(s.rules[k].type, s.rules[k].params)
      /\ Len(s.rules) + Len(s.dropped) = Cardinality(taken)
  BY DEF DraftInv, DraftState
<1>2. rule.type = "none" \/ RuleFits(rule.type, rule.params)
  BY RequirementAccepted DEF Accepted
<1>3. Len(s.rules) \in Nat /\ Len(s.dropped) \in Nat /\ Cardinality(taken) \in Nat
  BY <1>1, LenProperties, FS_CardinalityType
<1>4. made \in RulesOf(R)
  BY <1>3 DEF RulesOf
<1>5. CASE r \in s.seen
  <2>1. Catalogue!Take(s, r) = s /\ taken \cup {r} = taken
    BY <1>1, <1>5 DEF Catalogue!Take
  <2> QED BY <2>1
<1>6. CASE r \notin s.seen
  <2>1. IsFiniteSet(taken \cup {r}) /\ Cardinality(taken \cup {r}) = Cardinality(taken) + 1
    BY <1>1, <1>6, FS_AddElement
  <2>2. CASE rule.type = "none"
    <3> DEFINE more == Append(s.dropped, r)
               t == [s EXCEPT !.seen = @ \cup {r}, !.dropped = Append(@, r)]
    <3>1. Catalogue!Take(s, r) = t
      BY <1>6, <2>2 DEF Catalogue!Take
    <3>2. more \in Seq(R) /\ Len(more) = Len(s.dropped) + 1
      BY <1>1, AppendProperties
    <3>3. t.seen = taken \cup {r} /\ t.rules = s.rules /\ t.dropped = more /\ t \in DraftState(R)
      <4> HIDE DEF more
      <4>1. t = [s EXCEPT !.seen = @ \cup {r}, !.dropped = more]
        BY DEF more
      <4> HIDE DEF t
      <4> QED BY <1>1, <3>2, <4>1 DEF DraftState
    <3> HIDE DEF t, more
    <3>4. Len(t.rules) + Len(t.dropped) = Cardinality(taken \cup {r})
      <4>1. Len(t.rules) = Len(s.rules) /\ Len(t.dropped) = Len(s.dropped) + 1
        BY <3>2, <3>3
      <4>2. Len(s.rules) + Len(s.dropped) = Cardinality(taken)
        BY <1>1
      <4>3. Len(s.rules) + (Len(s.dropped) + 1) = Cardinality(taken) + 1
        BY <1>3, <4>2, OneMore
      <4> QED BY <2>1, <4>1, <4>3
    <3> QED BY <1>1, <2>1, <3>1, <3>3, <3>4 DEF DraftInv
  <2>3. CASE rule.type # "none"
    <3> DEFINE more == Append(s.rules, made)
               t == [s EXCEPT !.seen = @ \cup {r}, !.rules = more]
    <3>1. Catalogue!Take(s, r) = t
      BY <1>6, <2>3 DEF Catalogue!Take
    <3> HIDE DEF rule
    <3>2. made.id = Len(s.rules) + 1 /\ made.type = rule.type /\ made.params = rule.params
      OBVIOUS
    <3> HIDE DEF made
    <3>3. /\ more \in Seq(RulesOf(R)) /\ Len(more) = Len(s.rules) + 1
          /\ \A k \in 1 .. Len(s.rules) : more[k] = s.rules[k]
          /\ more[Len(s.rules) + 1] = made
      BY <1>1, <1>4, AppendProperties
    <3> HIDE DEF more
    <3>4. t.seen = taken \cup {r} /\ t.rules = more /\ t.dropped = s.dropped /\ t \in DraftState(R)
      BY <1>1, <3>3 DEF DraftState
    <3> HIDE DEF t
    <3>5. ASSUME NEW k \in 1 .. Len(t.rules)
          PROVE  t.rules[k].id = k /\ RuleFits(t.rules[k].type, t.rules[k].params)
      <4>1. k \in 1 .. Len(s.rules) \/ k = Len(s.rules) + 1
        BY <1>3, <3>3, <3>4
      <4>2. CASE k \in 1 .. Len(s.rules)
        BY <1>1, <3>3, <3>4, <4>2
      <4>3. CASE k = Len(s.rules) + 1
        BY <1>2, <2>3, <3>2, <3>3, <3>4, <4>3
      <4> QED BY <4>1, <4>2, <4>3
    <3>6. Len(t.rules) + Len(t.dropped) = Cardinality(taken \cup {r})
      <4>1. Len(t.rules) = Len(s.rules) + 1 /\ Len(t.dropped) = Len(s.dropped)
        BY <3>3, <3>4
      <4>2. Len(s.rules) + Len(s.dropped) = Cardinality(taken)
        BY <1>1
      <4>3. (Len(s.rules) + 1) + Len(s.dropped) = Cardinality(taken) + 1
        BY <1>3, <4>2, OneMore
      <4> QED BY <2>1, <4>1, <4>3
    <3> QED BY <2>1, <3>1, <3>4, <3>5, <3>6 DEF DraftInv
  <2> QED BY <2>2, <2>3
<1> QED BY <1>5, <1>6

\* The draft is in order at the end of the loop.
LEMMA DraftIsKept ==
  ASSUME NEW R, NEW requirements \in Seq(R)
  PROVE  DraftInv(Catalogue!BuildDraft(requirements), R, Range(requirements))
<1> DEFINE N == Len(requirements)
           taken(i) == {requirements[j] : j \in 1 .. i}
<1>1. N \in Nat /\ DOMAIN requirements = 1 .. N /\ \A i \in 1 .. N : requirements[i] \in R
  BY LenProperties, ElementOfSeq
<1>2. PICK f : /\ Catalogue!BuildDraft(requirements) = f[N]
               /\ f[0] = NothingDrafted
               /\ \A i \in 1 .. N : f[i] = Catalogue!Take(f[i - 1], requirements[i])
  BY DraftSteps
<1> HIDE DEF N
<1> DEFINE S == {i \in Nat : i <= N => DraftInv(f[i], R, taken(i))}
<1>3. 0 \in S
  <2>1. taken(0) = {} /\ IsFiniteSet(taken(0)) /\ Cardinality(taken(0)) = 0
    <3>1. taken(0) = {}
      OBVIOUS
    <3> HIDE DEF taken
    <3> QED BY <3>1, FS_EmptySet
  <2> HIDE DEF taken
  <2>2. NothingDrafted \in DraftState(R)
    BY DEF NothingDrafted, DraftState
  <2>3. /\ NothingDrafted.seen = {} /\ Len(NothingDrafted.rules) = 0
        /\ Len(NothingDrafted.dropped) = 0
    BY DEF NothingDrafted
  <2>4. DraftInv(NothingDrafted, R, taken(0))
    BY <2>1, <2>2, <2>3 DEF DraftInv
  <2> QED BY <1>2, <2>4
<1>4. ASSUME NEW i \in S
      PROVE  i + 1 \in S
  <2>1. CASE i + 1 <= N
    <3>1. i + 1 \in 1 .. N /\ (i + 1) - 1 = i /\ i <= N /\ i \in Nat
      BY <1>1, <2>1
    <3>2. DraftInv(f[i], R, taken(i))
      BY <3>1
    <3>3. f[i + 1] = Catalogue!Take(f[i], requirements[i + 1])
      BY <1>2, <3>1
    <3>4. taken(i + 1) = taken(i) \cup {requirements[i + 1]}
      BY <3>1
    <3>5. requirements[i + 1] \in R
      BY <1>1, <3>1
    <3> HIDE DEF taken
    <3> QED BY <3>1, <3>2, <3>3, <3>4, <3>5, TakeKeeps
  <2>2. CASE ~(i + 1 <= N)
    BY <2>2
  <2> QED BY <2>1, <2>2
<1>5. N \in S
  <2> HIDE DEF S
  <2>1. S \in SUBSET Nat
    BY DEF S
  <2> QED BY <1>1, <1>3, <1>4, <2>1, Counting
<1>6. taken(N) = Range(requirements)
  BY <1>1 DEF Range
<1> HIDE DEF taken
<1> QED BY <1>1, <1>2, <1>5, <1>6

\* Whatever list of requirements a model answers, of any length and with any
\* details, the draft made of it has a shape that validation accepts and that it
\* answers; its rules have numbers of their own; and each requirement, taken once,
\* is a rule or is handed back as dropped.
THEOREM EveryDraftFits ==
  ASSUME NEW R, NEW requirements \in Seq(R)
  PROVE  LET draft == Catalogue!BuildDraft(requirements)
         IN  /\ Catalogue!ValidateRuleset(draft.rules) \subseteq RuleSoft
             /\ Len(draft.rules) + Len(draft.dropped) = Cardinality(Range(requirements))
             /\ Range(draft.dropped) \subseteq Range(requirements)
<1> DEFINE draft == Catalogue!BuildDraft(requirements)
           T == Range(requirements)
<1>0. requirements \in Seq(T)
  <2>1. Len(requirements) \in Nat /\ DOMAIN requirements = 1 .. Len(requirements)
    BY LenProperties
  <2>2. requirements = [i \in 1 .. Len(requirements) |-> requirements[i]]
    BY <2>1
  <2>3. \A i \in 1 .. Len(requirements) : requirements[i] \in T
    BY <2>1 DEF Range
  <2> QED BY <2>1, <2>2, <2>3, IsASeq
<1>1. DraftInv(draft, T, T)
  BY <1>0, DraftIsKept
<1> HIDE DEF draft
<1>2. /\ draft.rules \in Seq(RulesOf(T)) /\ draft.dropped \in Seq(T)
      /\ \A k \in 1 .. Len(draft.rules) :
            draft.rules[k].id = k /\ RuleFits(draft.rules[k].type, draft.rules[k].params)
      /\ Len(draft.rules) + Len(draft.dropped) = Cardinality(T)
  BY <1>1 DEF DraftInv, DraftState
<1>3. DOMAIN draft.rules = 1 .. Len(draft.rules) /\ Len(draft.rules) \in Nat
  BY <1>2, LenProperties
<1>4. \A k \in DOMAIN draft.rules : Catalogue!RuleErrors(draft.rules[k]) \subseteq RuleSoft
  BY <1>2, <1>3, FittingRule
<1>5. {j \in DOMAIN draft.rules : \E k \in 1 .. j - 1 : draft.rules[k].id = draft.rules[j].id} = {}
  <2> SUFFICES ASSUME NEW j \in DOMAIN draft.rules, NEW k \in 1 .. j - 1,
                      draft.rules[k].id = draft.rules[j].id
               PROVE  FALSE
    OBVIOUS
  <2>1. j \in 1 .. Len(draft.rules) /\ k \in 1 .. Len(draft.rules) /\ k # j
    BY <1>3
  <2> QED BY <1>2, <2>1
<1>6. Catalogue!ValidateRuleset(draft.rules) \subseteq RuleSoft
  BY <1>4, <1>5 DEF Catalogue!ValidateRuleset
<1>7. Range(draft.dropped) \subseteq T
  <2>1. DOMAIN draft.dropped = 1 .. Len(draft.dropped)
    BY <1>2, LenProperties
  <2>2. \A k \in 1 .. Len(draft.dropped) : draft.dropped[k] \in T
    BY <1>2, ElementOfSeq
  <2> QED BY <2>1, <2>2 DEF Range
<1> QED BY <1>2, <1>6, <1>7 DEF draft

-----------------------------------------------------------------------------
(* What the run writes.                                                    *)
\* Blocks of an outline, and footers.
OutlineBlock == [type : {"heading", "paragraph"}, level : 0 .. 2, text : SUBSET Titles,
                 words : {1, 2}, turn : {0, 1}]
Footer == [page : 1 .. 3, number : {Unset} \cup 1 .. 4, low : {TRUE, FALSE}]

\* What is written of the kinds that theorems are about: elements of that kind, and
\* keys that differ.
Written ==
  /\ kind = "outline" => doc \in Seq(OutlineBlock)
  /\ kind = "footers" => doc \in Seq(Footer)
  /\ kind = "drafts" => doc \in Seq(Requirement)
  /\ kind = "rules" => /\ doc \in Seq([key : Keys, good : BOOLEAN])
                       /\ \A i, j \in DOMAIN doc : i # j => doc[i].key # doc[j].key
  /\ kind = "presence" => doc \in Seq(SeenPage)
  /\ kind = "pages" => doc \in Seq(PdfPage)
  /\ kind = "lines" => doc \in Seq(FragmentBox)

\* Nothing is written at first.
LEMMA WrittenStart == Init => Written
<1> HAVE Init
<1>1. doc = <<>>
  BY DEF Init
<1>2. DOMAIN doc = {}
  BY <1>1
<1> QED BY <1>1, <1>2 DEF Written

\* Inputs of the other kinds leave drafts and rules alone.
LEMMA ElsewhereKept ==
  ASSUME Written, NEW k, NEW elements, NEW bound, Write(k, elements, bound), 
         k \notin {"outline", "footers", "drafts", "rules", "presence", "pages", "lines"}
  PROVE  Written'
BY DEF Write, Written

\* What is written is in the set it is taken from.
LEMMA ElementWritten ==
  ASSUME NEW k, NEW S, NEW bound, doc \in Seq(S), Write(k, S, bound)
  PROVE  doc' \in Seq(S)
<1>1. PICK e \in S : doc' = Append(doc, e)
  BY DEF Write
<1> QED BY <1>1, AppendProperties

\* A requirement is written after the others.
LEMMA RequirementKept == ASSUME Written, WriteRequirement PROVE Written'
<1>1. Write("drafts", Requirement, 2) /\ kind = "drafts" /\ kind' = kind
  BY Zenon DEF WriteRequirement, Write
<1>2. doc \in Seq(Requirement)
  BY <1>1 DEF Written
<1>3. doc' \in Seq(Requirement)
  BY <1>1, <1>2, ElementWritten
<1> QED BY <1>1, <1>3 DEF Written

\* A page with what was found on it is written after the others.
LEMMA PageKept == ASSUME Written, WritePage PROVE Written'
<1>1. Write("presence", SeenPage, MaxBlocks) /\ kind = "presence" /\ kind' = kind
  BY Zenon DEF WritePage, Write
<1>2. doc \in Seq(SeenPage)
  BY <1>1 DEF Written
<1>3. doc' \in Seq(SeenPage)
  BY <1>1, <1>2, ElementWritten
<1> QED BY <1>1, <1>3 DEF Written

\* A page of a PDF is written after the others.
LEMMA PdfPageKept == ASSUME Written, WritePdfPage PROVE Written'
<1>1. Write("pages", PdfPage, 3) /\ kind = "pages" /\ kind' = kind
  BY Zenon DEF WritePdfPage, Write
<1>2. doc \in Seq(PdfPage)
  BY <1>1 DEF Written
<1>3. doc' \in Seq(PdfPage)
  BY <1>1, <1>2, ElementWritten
<1> QED BY <1>1, <1>3 DEF Written

\* A fragment of a line is written after the others.
LEMMA FragmentKept == ASSUME Written, WriteFragment PROVE Written'
<1>1. Write("lines", FragmentBox, MaxBlocks) /\ kind = "lines" /\ kind' = kind
  BY Zenon DEF WriteFragment, Write
<1>2. doc \in Seq(FragmentBox)
  BY <1>1 DEF Written
<1>3. doc' \in Seq(FragmentBox)
  BY <1>1, <1>2, ElementWritten
<1> QED BY <1>1, <1>3 DEF Written

\* A key that the field does not have yet is written.
LEMMA KeyKept == ASSUME Written, WriteKey PROVE Written'
<1> DEFINE K == [key : Keys, good : BOOLEAN]
           n == Len(doc)
<1>1. kind = "rules" /\ kind' = kind
  BY DEF WriteKey, Write
<1>2. PICK e \in [key : Keys \ {doc[i].key : i \in DOMAIN doc}, good : BOOLEAN] :
         doc' = Append(doc, e)
  BY DEF WriteKey, Write
<1>3. e \in K /\ \A i \in DOMAIN doc : doc[i].key # e.key
  BY <1>2
<1>4. doc \in Seq(K) /\ \A i, j \in DOMAIN doc : i # j => doc[i].key # doc[j].key
  BY <1>1 DEF Written
<1>5. n \in Nat /\ DOMAIN doc = 1 .. n
  BY <1>4, LenProperties
<1>6. /\ doc' \in Seq(K) /\ Len(doc') = n + 1
      /\ \A i \in 1 .. n : doc'[i] = doc[i]
      /\ doc'[n + 1] = e
  BY <1>2, <1>3, <1>4, AppendProperties
<1>7. DOMAIN doc' = 1 .. n + 1
  BY <1>6, LenProperties
<1> HIDE DEF n, K
<1>8. ASSUME NEW i \in DOMAIN doc', NEW j \in DOMAIN doc', i # j
      PROVE  doc'[i].key # doc'[j].key
  <2>1. (i \in 1 .. n \/ i = n + 1) /\ (j \in 1 .. n \/ j = n + 1)
    BY <1>5, <1>7
  <2> QED BY <1>3, <1>4, <1>5, <1>6, <1>8, <2>1
<1> QED BY <1>1, <1>6, <1>8 DEF Written, K

\* A block of an outline is written after the others.
LEMMA BlockKept == ASSUME Written, WriteBlock PROVE Written'
<1>1. kind = "outline" /\ kind' = kind /\ \E e \in OutlineBlock : doc' = Append(doc, e)
  <2> DEFINE H == [type : {"heading"}, level : {1, 2}, text : {{t} : t \in Titles}, words : {1}, turn : {0, 1}]
             D == [type : {"heading"}, level : {1}, text : {{"goal", "plan"}}, words : {1}, turn : {0}]
             P == [type : {"paragraph"}, level : {0}, text : {{}}, words : {2}, turn : {0, 1}]
  <2>1. Write("outline", H \cup D \cup P, MaxBlocks)
    BY Zenon DEF WriteBlock
  <2>2. /\ {{t} : t \in Titles} \in SUBSET SUBSET Titles
        /\ {"goal", "plan"} \in SUBSET Titles /\ {} \in SUBSET Titles
    BY DEF Titles
  <2>3. \A e \in H : e \in OutlineBlock
    BY <2>2 DEF OutlineBlock
  <2>4. \A e \in D : e \in OutlineBlock
    BY <2>2 DEF OutlineBlock
  <2>5. \A e \in P : e \in OutlineBlock
    BY <2>2 DEF OutlineBlock
  <2> HIDE DEF H, D, P
  <2> QED BY <2>1, <2>3, <2>4, <2>5, Zenon DEF Write
<1>2. doc \in Seq(OutlineBlock)
  BY <1>1 DEF Written
<1>3. doc' \in Seq(OutlineBlock)
  BY <1>1, <1>2, AppendProperties
<1> QED BY <1>1, <1>3 DEF Written

\* A footer is written after the others.
LEMMA FooterKept == ASSUME Written, WriteFooter PROVE Written'
<1>1. kind = "footers" /\ kind' = kind /\ \E e \in Footer : doc' = Append(doc, e)
  <2> DEFINE L == [page : 1 .. 3, number : {Unset} \cup 1 .. 4, low : {TRUE}]
             R == [page : 1 .. 3, number : {1}, low : {FALSE}]
  <2>1. Write("footers", L \cup R, MaxBlocks)
    BY Zenon DEF WriteFooter
  <2>2. \A e \in L : e \in Footer
    BY DEF Footer
  <2>3. \A e \in R : e \in Footer
    <3> SUFFICES ASSUME NEW e \in R PROVE e \in Footer
      OBVIOUS
    <3>1. e.page \in 1 .. 3 /\ e.number \in {Unset} \cup 1 .. 4
      OBVIOUS
    <3>2. e.low \in {TRUE, FALSE}
      BY Zenon
    <3>3. e = [page |-> e.page, number |-> e.number, low |-> e.low]
      OBVIOUS
    <3> HIDE DEF R
    <3> QED BY <3>1, <3>2, <3>3, Zenon DEF Footer
  <2> HIDE DEF L, R
  <2> QED BY <2>1, <2>2, <2>3, Zenon DEF Write
<1>2. doc \in Seq(Footer)
  BY <1>1 DEF Written
<1>3. doc' \in Seq(Footer)
  BY <1>1, <1>2, AppendProperties
<1> QED BY <1>1, <1>3 DEF Written

\* No step writes a requirement or a key twice or out of place.
LEMMA WrittenKept == ASSUME Written, [Next]_vars PROVE Written'
<1>1. CASE UNCHANGED vars
  BY <1>1 DEF vars, Written
<1>2. CASE WriteRequirement
  BY <1>2, RequirementKept
<1>3. CASE WriteKey
  BY <1>3, KeyKept
<1>4. CASE PassWindows
  BY <1>4 DEF PassWindows, Written
<1>5. CASE WriteParagraph \/ WriteSheet \/ WriteDigit \/ WriteHeading
  BY <1>5, ElsewhereKept DEF WriteParagraph, WriteSheet, WriteDigit, WriteHeading
<1>6. CASE WriteMention
  BY <1>6, ElsewhereKept DEF WriteMention
<1>10. CASE WriteTerm
  BY <1>10, ElsewhereKept DEF WriteTerm
<1>11. CASE WriteSlip
  BY <1>11, ElsewhereKept DEF WriteSlip
<1>12. CASE WriteAtom
  <2> DEFINE atoms == Words \cup {":", " ", "_"}
  <2>1. Write("line", atoms, MaxBlocks + 1)
    BY <1>12, Zenon DEF WriteAtom
  <2> HIDE DEF atoms
  <2> QED BY <2>1, ElsewhereKept
<1>8. CASE WriteRow
  BY <1>8, ElsewhereKept DEF WriteRow
<1>9. CASE WriteGridRow
  BY <1>9, ElsewhereKept DEF WriteGridRow
<1>7. CASE WriteValue \/ WriteIssue \/ WriteRival
  BY <1>7, ElsewhereKept DEF WriteValue, WriteIssue, WriteRival
<1>13. CASE WritePage
  BY <1>13, PageKept
<1>14. CASE WritePdfPage
  BY <1>14, PdfPageKept
<1>15. CASE WriteFragment
  BY <1>15, FragmentKept
<1>16. CASE WriteBlock
  BY <1>16, BlockKept
<1>17. CASE WriteFooter
  BY <1>17, FooterKept
<1> QED BY <1>1, <1>2, <1>3, <1>4, <1>5, <1>6, <1>7, <1>8, <1>9, <1>10, <1>11, <1>12,
         <1>13, <1>14, <1>15, <1>16, <1>17 DEF Next

\* The drafts that the run makes fit.
LEMMA WrittenDraftsFit == Written => DraftsFit
<1> SUFFICES ASSUME Written, kind = "drafts" PROVE DraftsFit
  BY DEF DraftsFit
<1>1. doc \in Seq(Requirement)
  BY DEF Written
<1> HIDE DEF Requirement
<1> DEFINE draft == Catalogue!BuildDraft(doc)
<1>2. /\ Catalogue!ValidateRuleset(draft.rules) \subseteq RuleSoft
      /\ Len(draft.rules) + Len(draft.dropped) = Cardinality(Range(doc))
      /\ Range(draft.dropped) \subseteq Range(doc)
  BY <1>1, EveryDraftFits
<1>3. RuleSoft = {"minimum", "regex", "size_type", "sizes"}
  BY DEF RuleSoft, Soft
<1> HIDE DEF draft
<1> QED BY <1>2, <1>3 DEF DraftsFit, draft

\* The fields that the run accepts do not make their checkers raise.
LEMMA WrittenFieldsRun == Written => ValidatedFieldsRun
<1> SUFFICES ASSUME Written, kind = "rules", NEW type \in FieldTypes,
                    Catalogue!RuleErrors([type |-> type,
                        params |-> [fields |-> Catalogue!List(<<FieldOf(doc)>>)]]) = {},
                    ~Nameless
             PROVE  Catalogue!FieldRuleRuns([type |-> type,
                        params |-> [fields |-> Catalogue!List(<<FieldOf(doc)>>)]])
  BY DEF ValidatedFieldsRun, FieldTypes
<1> DEFINE f == FieldOf(doc)
           rule == [type |-> type, params |-> [fields |-> Catalogue!List(<<f>>)]]
           V(k) == CHOOSE v \in Range(doc) : v.key = k
<1>1. \A i, j \in DOMAIN doc : i # j => doc[i].key # doc[j].key
  BY DEF Written
<1>2. PICK i \in DOMAIN doc : doc[i].key = "name" /\ doc[i].good
  BY DEF Nameless
<1>3. doc[i] \in Range(doc) /\ \A v \in Range(doc) : v.key = "name" => v = doc[i]
  BY <1>1, <1>2 DEF Range
<1>4. V("name") = doc[i]
  BY <1>2, <1>3
<1>5. FieldValue(V("name")) = Catalogue!Text("school")
  BY <1>2, <1>4 DEF FieldValue
<1>6. Catalogue!Text("school") # Catalogue!Text("")
  <2>1. Catalogue!Text("school").s = "school" /\ Catalogue!Text("").s = ""
    BY DEF Catalogue!Text
  <2> QED BY <2>1
<1>7. "name" \in DOMAIN f.at /\ f.at.name = FieldValue(V("name"))
  <2>1. f.at = [k \in {doc[j].key : j \in DOMAIN doc} |-> FieldValue(V(k))]
    BY DEF FieldOf, Catalogue!Object
  <2>2. "name" \in {doc[j].key : j \in DOMAIN doc}
    BY <1>2
  <2> HIDE DEF f, V
  <2> QED BY <2>1, <2>2
<1>8. Catalogue!Given(f, "name")
  BY <1>5, <1>6, <1>7 DEF Catalogue!Given
<1> HIDE DEF f
<1>9. Catalogue!Get(Catalogue!Object(rule.params), "fields", Catalogue!List(<<>>)) = Catalogue!List(<<f>>)
  BY DEF Catalogue!Get, Catalogue!Object
<1>10. Catalogue!Range(Catalogue!List(<<f>>).items) = {f}
  BY DEF Catalogue!Range, Catalogue!List
<1>11. rule.type = type
  OBVIOUS
<1>12. Catalogue!RuleErrors(rule) = {}
  BY DEF f
<1> HIDE DEF rule
<1>13. Catalogue!FieldRuleRuns(rule)
  BY <1>8, <1>9, <1>10, <1>11, <1>12, ValidFieldsRun
<1> QED BY <1>13 DEF rule, f

\* What becomes a rule set can be run, in every state of the computations.
THEOREM AcceptedRulesAlwaysRun == Spec => []AcceptedRulesRun
<1>1. Init => Written
  BY WrittenStart
<1>2. Written /\ [Next]_vars => Written'
  BY WrittenKept
<1>3. Written => AcceptedRulesRun
  BY WrittenDraftsFit, WrittenFieldsRun DEF AcceptedRulesRun
<1> QED BY <1>1, <1>2, <1>3, PTL DEF Spec

-----------------------------------------------------------------------------
(* Loops.                                                                  *)
\* What holds of the first state of a loop, and of each state when it holds of
\* the one before, holds of them all.
LEMMA Induction ==
  ASSUME NEW N \in Nat, NEW X, NEW g, g[0] \in X[0],
         \A n \in 1 .. N : (g[n - 1] \in X[n - 1]) => (g[n] \in X[n])
  PROVE  \A n \in 0 .. N : g[n] \in X[n]
<1> DEFINE S == {n \in Nat : (n <= N) => (g[n] \in X[n])}
<1>1. 0 \in S
  OBVIOUS
<1>2. ASSUME NEW n \in S
      PROVE  n + 1 \in S
  <2>1. CASE n + 1 <= N
    <3>1. n + 1 \in 1 .. N /\ (n + 1) - 1 = n /\ n <= N /\ n \in Nat
      BY <2>1
    <3>2. g[n] \in X[n]
      BY <3>1
    <3>3. g[n + 1] \in X[n + 1]
      BY <3>1, <3>2
    <3> QED BY <3>1, <3>3
  <2>2. CASE ~(n + 1 <= N)
    BY <2>2
  <2> QED BY <2>1, <2>2
<1>3. \A n \in Nat : n \in S
  <2>1. S \in SUBSET Nat
    OBVIOUS
  <2> HIDE DEF S
  <2> QED BY <1>1, <1>2, <2>1, Counting
<1> QED BY <1>3

\* A loop of N turns from b, with a state of X[n] after the turn n.
Steps(f, N, b, step, X) ==
  /\ f = [n \in 0 .. N |-> f[n]]
  /\ f[0] = b
  /\ \A n \in 1 .. N : f[n] = step[n][f[n - 1]]
  /\ \A n \in 0 .. N : f[n] \in X[n]

\* A loop has a state before and after each turn: the recursive function of the
\* model is one.
LEMMA Iteration ==
  ASSUME NEW N \in Nat, NEW X, NEW b \in X[0], NEW step,
         \A n \in 1 .. N : \A x \in X[n - 1] : step[n][x] \in X[n]
  PROVE  \E f : Steps(f, N, b, step, X)
<1> DEFINE Next_(f, n) == IF n = 0 THEN b ELSE step[n][f[n - 1]]
           Is(f, m) == f = [n \in 0 .. m |-> Next_(f, n)]
           S == {m \in Nat : \E f : Is(f, m)}
<1>2. 0 \in S
  <2> DEFINE f == [n \in 0 .. 0 |-> b]
  <2>1. Is(f, 0)
    OBVIOUS
  <2> QED BY <2>1
<1>3. ASSUME NEW m \in S
      PROVE  m + 1 \in S
  <2>1. PICK f : Is(f, m)
    OBVIOUS
  <2> DEFINE g == [n \in 0 .. m + 1 |-> IF n = m + 1 THEN step[m + 1][f[m]] ELSE f[n]]
  <2>2. ASSUME NEW n \in 0 .. m + 1
        PROVE  g[n] = Next_(g, n)
    <3>1. CASE n = 0
      BY <2>1, <3>1
    <3>2. CASE n # 0 /\ n # m + 1
      <4>1. n \in 0 .. m /\ n - 1 \in 0 .. m /\ n - 1 # m + 1 /\ n - 1 \in 0 .. m + 1
        BY <3>2
      <4>2. f[n] = step[n][f[n - 1]]
        BY <2>1, <3>2, <4>1
      <4>3. g[n] = f[n] /\ g[n - 1] = f[n - 1]
        BY <3>2, <4>1
      <4> HIDE DEF g
      <4> QED BY <3>2, <4>2, <4>3
    <3>3. CASE n # 0 /\ n = m + 1
      <4>1. m \in 0 .. m + 1 /\ m # m + 1 /\ n - 1 = m
        BY <3>3
      <4>2. g[m] = f[m] /\ g[n] = step[m + 1][f[m]]
        BY <3>3, <4>1
      <4> HIDE DEF g
      <4> QED BY <3>3, <4>1, <4>2
    <3> QED BY <3>1, <3>2, <3>3
  <2>3. Is(g, m + 1)
    <3>1. g = [n \in 0 .. m + 1 |-> g[n]]
      OBVIOUS
    <3> HIDE DEF g, Next_
    <3> QED BY <2>2, <3>1
  <2> HIDE DEF Is
  <2> QED BY <2>3
<1>4. PICK f : Is(f, N)
  <2>1. N \in S
    <3> HIDE DEF Is
    <3>1. S \in SUBSET Nat
      OBVIOUS
    <3> HIDE DEF S
    <3> QED BY <1>2, <1>3, <3>1, Counting
  <2> QED BY <2>1
<1>5. f[0] = b
  BY <1>4
<1>6. \A n \in 1 .. N : f[n] = step[n][f[n - 1]]
  <2> TAKE n \in 1 .. N
  <2>1. n \in 0 .. N /\ n # 0
    OBVIOUS
  <2> QED BY <1>4, <2>1
<1>7. \A n \in 0 .. N : f[n] \in X[n]
  <2> HIDE DEF Is
  <2>1. \A n \in 1 .. N : (f[n - 1] \in X[n - 1]) => (f[n] \in X[n])
    BY <1>6
  <2> QED BY <1>5, <2>1, Induction
<1>8. f = [n \in 0 .. N |-> f[n]]
  BY <1>4
<1> HIDE DEF Is
<1>9. Steps(f, N, b, step, X)
  BY <1>5, <1>6, <1>7, <1>8, Zenon DEF Steps
<1> QED BY <1>9

\* The smaller of two.
LEMMA LeastOfTwo ==
  \A a, b \in Int : Pdf!Min({a, b}) = IF a <= b THEN a ELSE b
<1> TAKE a, b \in Int
<1> DEFINE m == IF a <= b THEN a ELSE b
<1>1. m \in {a, b} /\ \A y \in {a, b} : m <= y
  OBVIOUS
<1>2. \A x \in {a, b} : (\A y \in {a, b} : x <= y) => x = m
  OBVIOUS
<1> HIDE DEF m
<1>3. Pdf!Min({a, b}) = m
  BY <1>1, <1>2 DEF Pdf!Min
<1> QED BY <1>3 DEF m

\* The greater of two.
LEMMA GreatestOfTwo ==
  \A a, b \in Int : Pdf!Max({a, b}) = IF a >= b THEN a ELSE b
<1> TAKE a, b \in Int
<1> DEFINE m == IF a >= b THEN a ELSE b
<1>1. m \in {a, b} /\ \A y \in {a, b} : m >= y
  OBVIOUS
<1>2. \A x \in {a, b} : (\A y \in {a, b} : x >= y) => x = m
  OBVIOUS
<1> HIDE DEF m
<1>3. Pdf!Max({a, b}) = m
  BY <1>1, <1>2 DEF Pdf!Max
<1> QED BY <1>3 DEF m

-----------------------------------------------------------------------------
(* The pages of a PDF.                                                     *)
\* PdfParsing counts as this module does.
LEMMA SameCount ==
  \A S : Pdf!Cardinality(S) = Cardinality(S)
BY DEF Pdf!Cardinality, Cardinality

\* An image on a page.
Pictured == [area : Nat, covered : BOOLEAN]

\* Any page of a PDF.
PageRead == [chars : Nat, images : Seq(Pictured), ocr : Int, table_fails : BOOLEAN]

\* The share of a page that pictures cover is at least that of any one of them.
LEMMA AreasAddUp ==
  ASSUME NEW page, page.images \in Seq(Pictured), NEW i \in DOMAIN page.images,
         NEW t \in 0 .. 100, page.images[i].area >= t
  PROVE  Pdf!ImageAreaRatio(page) >= t
<1> DEFINE images == page.images
           N == Len(images)
           X == [n \in 0 .. N |-> {a \in Nat : \A j \in 1 .. n : images[j].area <= a}]
           step == [n \in 1 .. N |-> [a \in Nat |-> a + images[n].area]]
           Is(g) == g = [n \in 0 .. N |-> IF n = 0 THEN 0 ELSE g[n - 1] + images[n].area]
           area == CHOOSE g : Is(g)
<1>1. /\ N \in Nat /\ DOMAIN images = 1 .. N
      /\ \A j \in 1 .. N : images[j].area \in Nat
  <2>1. N \in Nat /\ DOMAIN images = 1 .. N /\ \A j \in 1 .. N : images[j] \in Pictured
    BY LenProperties, ElementOfSeq
  <2> QED BY <2>1 DEF Pictured
<1> HIDE DEF images, N
<1>2. 0 \in X[0]
  BY <1>1
<1>3. ASSUME NEW n \in 1 .. N, NEW a \in X[n - 1]
      PROVE  /\ a \in Nat /\ step[n][a] = a + images[n].area
             /\ a + images[n].area \in X[n]
  <2>1. n - 1 \in 0 .. N /\ n \in 0 .. N
    BY <1>1
  <2>2. a \in Nat /\ \A j \in 1 .. n - 1 : images[j].area <= a
    BY <2>1
  <2>3. \A j \in 1 .. n : j \in 1 .. n - 1 \/ j = n
    BY <2>1
  <2>4. images[n].area \in Nat
    BY <1>1
  <2>5. a + images[n].area \in Nat
    BY <2>2, <2>4
  <2>6. \A j \in 1 .. n : images[j].area <= a + images[n].area
    <3> TAKE j \in 1 .. n
    <3>1. CASE j = n
      BY <3>1, <2>2, <2>4
    <3>2. CASE j \in 1 .. n - 1
      <4>1. images[j].area \in Nat /\ images[j].area <= a
        BY <1>1, <2>1, <2>2, <3>2
      <4> QED BY <2>2, <2>4, <4>1
    <3> QED BY <2>3, <3>1, <3>2
  <2> QED BY <2>1, <2>2, <2>4, <2>5, <2>6
<1> HIDE DEF step, X
<1>4. PICK f : Steps(f, N, 0, step, X)
  <2>1. \A n \in 1 .. N : \A x \in X[n - 1] : step[n][x] \in X[n]
    BY <1>3
  <2> QED BY <1>1, <1>2, <2>1, Iteration
<1>4a. /\ f = [n \in 0 .. N |-> f[n]]
       /\ f[0] = 0
       /\ \A n \in 1 .. N : f[n] = step[n][f[n - 1]]
       /\ \A n \in 0 .. N : f[n] \in X[n]
  BY <1>4 DEF Steps
<1>5. Is(f)
  <2>1. ASSUME NEW n \in 0 .. N
        PROVE  f[n] = IF n = 0 THEN 0 ELSE f[n - 1] + images[n].area
    <3>1. CASE n = 0
      BY <1>4a, <3>1
    <3>2. CASE n # 0
      <4>1. n \in 1 .. N /\ n - 1 \in 0 .. N
        BY <1>1, <3>2
      <4> QED BY <1>3, <1>4a, <3>2, <4>1
    <3> QED BY <3>1, <3>2
  <2> QED BY <1>4a, <2>1
<1>6. Is(area)
  <2> HIDE DEF Is
  <2> QED BY <1>5
<1>7. Pdf!ImageAreaRatio(page) = Pdf!Min({100, area[N]})
  BY DEF Pdf!ImageAreaRatio, N, images
<1> HIDE DEF area
<1>8. \A n \in 0 .. N : area[n] \in X[n]
  <2>1. area[0] = 0 /\ \A n \in 1 .. N : area[n] = area[n - 1] + images[n].area
    <3>1. \A n \in 1 .. N : n \in 0 .. N /\ n # 0
      BY <1>1
    <3>2. 0 \in 0 .. N
      BY <1>1
    <3> QED BY <1>6, <3>1, <3>2
  <2>2. \A n \in 1 .. N : (area[n - 1] \in X[n - 1]) => (area[n] \in X[n])
    BY <2>1, <1>3
  <2> HIDE DEF Is
  <2> QED BY <1>1, <1>2, <2>1, <2>2, Induction
<1>9. area[N] \in Nat /\ images[i].area <= area[N]
  <2>1. area[N] \in X[N] /\ i \in 1 .. N
    BY <1>1, <1>8 DEF images
  <2> QED BY <1>1, <2>1 DEF X
<1>10. Pdf!Min({100, area[N]}) = IF 100 <= area[N] THEN 100 ELSE area[N]
  BY <1>9, LeastOfTwo
<1>11. images[i].area \in Nat /\ images[i].area >= t
  BY <1>1 DEF images
<1> HIDE DEF Is
<1> QED BY <1>7, <1>9, <1>10, <1>11

\* OCR was asked.
Tried == {"success", "insufficient", "failed"}

\* OCR was not asked.
Untried == {"not_attempted", "disabled", "skipped_limit"}

\* OCR that says "success" has found enough text.
LEMMA OcrPageIs ==
  ASSUME NEW page, page.ocr \in Int
  PROVE  /\ Pdf!OcrPage(page) \in Tried
         /\ Pdf!OcrPage(page) = "failed" <=> page.ocr = Pdf!Raises
         /\ Pdf!OcrPage(page) = "success" => page.ocr >= Pdf!OcrMinPageChars
<1>1. Pdf!Max({1, Pdf!OcrMinPageChars}) = Pdf!OcrMinPageChars
  BY GreatestOfTwo DEF Pdf!OcrMinPageChars
<1> QED BY <1>1 DEF Pdf!OcrPage, Tried, Pdf!Raises, Pdf!OcrMinPageChars

\* OCR is only asked where it is needed, available and within its limit.
LEMMA OcrStateIs ==
  ASSUME NEW s, NEW page, page.ocr \in Int, NEW limit
  PROVE  LET ocr == Pdf!OcrState(s, page, limit)
         IN  /\ ocr \in Tried \cup Untried
             /\ ocr \in Tried => /\ Pdf!NeedsOcr(page) /\ ocr = Pdf!OcrPage(page)
                                 /\ s.ocr_available
                                 /\ ~(Cardinality(s.ocr_pages) >= limit)
<1> DEFINE ocr == Pdf!OcrState(s, page, limit)
<1>1. \/ ocr = Pdf!OcrPage(page) /\ Pdf!NeedsOcr(page) /\ s.ocr_available
         /\ ~(Cardinality(s.ocr_pages) >= limit)
      \/ ocr \in Untried
  <2> DEFINE full == Pdf!Cardinality(s.ocr_pages) >= limit
  <2>1. \/ ocr = Pdf!OcrPage(page) /\ Pdf!NeedsOcr(page) /\ s.ocr_available /\ ~full
        \/ ocr \in {"not_attempted", "disabled", "skipped_limit"}
    BY DEF Pdf!OcrState
  <2>2. full <=> Cardinality(s.ocr_pages) >= limit
    BY SameCount
  <2> HIDE DEF ocr, full
  <2> QED BY <2>1, <2>2 DEF Untried
<1>2. Pdf!OcrPage(page) \in Tried
  BY OcrPageIs
<1>3. Untried \cap Tried = {}
  BY DEF Tried, Untried
<1> HIDE DEF ocr
<1> QED BY <1>1, <1>2, <1>3 DEF ocr

\* The states of a page.
Statuses == {"ocr", "ok", "empty"} \cup Pdf!UnreadStatus \cup Pdf!UncertainStatus

\* A page gets one of the known states.
LEMMA StatusIs ==
  ASSUME NEW page, NEW ocr \in Tried \cup Untried
  PROVE  Pdf!ClassifyPage(page, ocr) \in Statuses
<1>1. CASE ocr \in Tried
  BY <1>1 DEF Tried, Pdf!ClassifyPage, Statuses, Pdf!UnreadStatus
<1>2. CASE ocr \in Untried
  BY <1>2 DEF Untried, Pdf!ClassifyPage, Statuses, Pdf!UnreadStatus, Pdf!UncertainStatus
<1> QED BY <1>1, <1>2

\* What is noted of a page.
PageMeta == [page : Nat, ocr : Tried \cup Untried, status : Statuses, text : Int]

\* The state of the loop over the pages.
ReadState == [ocr_available : BOOLEAN, ocr_pages : SUBSET Nat, page_meta : Seq(PageMeta),
              parse_warnings : SUBSET Nat]

\* What is noted of page p says how it was read.
MetaFits(s, pages, p) ==
  LET m == s.page_meta[p]
  IN  /\ m.page = p
      /\ m.status = Pdf!ClassifyPage(pages[p], m.ocr)
      /\ m.ocr \in Tried => Pdf!NeedsOcr(pages[p]) /\ m.ocr = Pdf!OcrPage(pages[p])
      /\ m.ocr = "success" => p \in s.ocr_pages
      /\ pages[p].table_fails => p \in s.parse_warnings

\* The loop over the pages after n of them.  The order of the failure and of the
\* other attempts is told by the pages: once it has failed OCR is not available,
\* which is what keeps later pages from being tried.
ReadInv(s, pages, limit, n) ==
  /\ Len(s.page_meta) = n
  /\ \A p \in 1 .. n : MetaFits(s, pages, p)
  /\ s.ocr_pages \subseteq 1 .. n
  /\ Cardinality(s.ocr_pages) <= limit
  /\ s.ocr_available => \A p \in 1 .. n : s.page_meta[p].ocr # "failed"
  /\ \A p, q \in 1 .. n : (s.page_meta[p].ocr = "failed" /\ s.page_meta[q].ocr \in Tried) => q <= p

\* One turn of the loop over the pages keeps what is known of those read before,
\* and adds a page.
LEMMA PageIsRead ==
  ASSUME NEW pages \in Seq(PageRead), NEW limit \in Nat, NEW n \in 1 .. Len(pages),
         NEW s \in ReadState, ReadInv(s, pages, limit, n - 1)
  PROVE  LET t == Pdf!ReadPage(s, pages[n], limit)
         IN  t \in ReadState /\ ReadInv(t, pages, limit, n)
<1> DEFINE page == pages[n]
           ocr == Pdf!OcrState(s, page, limit)
           meta == [page |-> n, ocr |-> ocr, status |-> Pdf!ClassifyPage(page, ocr),
                    text |-> IF ocr = "success" THEN page.ocr ELSE page.chars]
           more == Append(s.page_meta, meta)
           t == Pdf!ReadPage(s, page, limit)
<1>1. n \in Nat \ {0} /\ n - 1 \in Nat /\ (n - 1) + 1 = n /\ page \in PageRead
  BY LenProperties, ElementOfSeq
<1>2. page.ocr \in Int /\ page.chars \in Int /\ page.table_fails \in BOOLEAN
  BY <1>1 DEF PageRead
<1> HIDE DEF page
<1>3. /\ ocr \in Tried \cup Untried
      /\ ocr \in Tried => /\ Pdf!NeedsOcr(page) /\ ocr = Pdf!OcrPage(page)
                          /\ s.ocr_available
                          /\ ~(Cardinality(s.ocr_pages) >= limit)
  BY <1>2, OcrStateIs
<1> HIDE DEF ocr
<1>4. meta \in PageMeta
  BY <1>1, <1>2, <1>3, StatusIs DEF PageMeta
<1>5. /\ s.ocr_available \in BOOLEAN /\ s.ocr_pages \in SUBSET Nat
      /\ s.page_meta \in Seq(PageMeta) /\ s.parse_warnings \in SUBSET Nat
      /\ Len(s.page_meta) = n - 1
  BY DEF ReadState, ReadInv
<1>6. t = [ocr_available |-> s.ocr_available /\ ocr # "failed",
           ocr_pages |-> s.ocr_pages \cup {m \in {n} : ocr = "success"},
           page_meta |-> more,
           parse_warnings |-> s.parse_warnings \cup {m \in {n} : page.table_fails}]
  BY <1>1, <1>5 DEF Pdf!ReadPage, ocr
<1> HIDE DEF t
<1>m. /\ meta.page = n /\ meta.ocr = ocr /\ meta.status = Pdf!ClassifyPage(page, ocr)
  OBVIOUS
<1> HIDE DEF meta
<1>7. /\ more \in Seq(PageMeta) /\ Len(more) = n /\ more[n] = meta
      /\ \A p \in 1 .. n - 1 : more[p] = s.page_meta[p]
  BY <1>1, <1>4, <1>5, AppendProperties
<1> HIDE DEF more
<1>8. /\ t.page_meta = more
      /\ t.ocr_available = (s.ocr_available /\ ocr # "failed")
      /\ t.ocr_pages = s.ocr_pages \cup {m \in {n} : ocr = "success"}
      /\ t.parse_warnings = s.parse_warnings \cup {m \in {n} : page.table_fails}
  BY <1>6
<1>9. t \in ReadState
  <2>1. t.ocr_pages \in SUBSET Nat /\ t.parse_warnings \in SUBSET Nat
    BY <1>1, <1>5, <1>8
  <2>2. (s.ocr_available /\ ocr # "failed") \in BOOLEAN
    OBVIOUS
  <2> QED BY <1>6, <1>7, <1>8, <2>1, <2>2 DEF ReadState
<1>10. \A p \in 1 .. n : p \in 1 .. n - 1 \/ p = n
  BY <1>1
<1>11. ASSUME NEW p \in 1 .. n
       PROVE  MetaFits(t, pages, p)
  <2>1. CASE p = n
    <3>1. t.page_meta[p] = meta
      BY <1>7, <1>8, <2>1
    <3>2. ocr = "success" => n \in t.ocr_pages
      BY <1>8
    <3>3. page.table_fails => n \in t.parse_warnings
      BY <1>8
    <3> QED BY <1>3, <1>m, <2>1, <3>1, <3>2, <3>3 DEF MetaFits, page
  <2>2. CASE p \in 1 .. n - 1
    <3>1. MetaFits(s, pages, p)
      BY <2>2 DEF ReadInv
    <3>2. t.page_meta[p] = s.page_meta[p]
      BY <1>7, <1>8, <2>2
    <3>3. s.ocr_pages \subseteq t.ocr_pages /\ s.parse_warnings \subseteq t.parse_warnings
      BY <1>8
    <3> QED BY <3>1, <3>2, <3>3 DEF MetaFits
  <2> QED BY <1>10, <2>1, <2>2
<1>12. t.ocr_pages \subseteq 1 .. n
  <2>1. s.ocr_pages \subseteq 1 .. n - 1
    BY DEF ReadInv
  <2> QED BY <1>1, <1>8, <2>1
<1>13. Cardinality(t.ocr_pages) <= limit
  <2>1. s.ocr_pages \subseteq 1 .. n - 1 /\ Cardinality(s.ocr_pages) <= limit
    BY DEF ReadInv
  <2>2. IsFiniteSet(1 .. n - 1)
    BY <1>1, FS_Interval
  <2>3. IsFiniteSet(s.ocr_pages) /\ Cardinality(s.ocr_pages) \in Nat
    BY <2>1, <2>2, FS_Subset, FS_CardinalityType
  <2>4. CASE ocr = "success"
    <3>1. n \notin s.ocr_pages
      BY <1>1, <2>1
    <3>2. t.ocr_pages = s.ocr_pages \cup {n}
      BY <1>8, <2>4
    <3>3. Cardinality(t.ocr_pages) = Cardinality(s.ocr_pages) + 1
      BY <2>3, <3>1, <3>2, FS_AddElement
    <3>4. ~(Cardinality(s.ocr_pages) >= limit)
      BY <1>3, <2>4 DEF Tried
    <3> QED BY <2>3, <3>3, <3>4
  <2>5. CASE ocr # "success"
    <3>1. t.ocr_pages = s.ocr_pages
      BY <1>8, <2>5
    <3> QED BY <2>1, <3>1
  <2> QED BY <2>4, <2>5
<1>14. ASSUME t.ocr_available, NEW p \in 1 .. n
       PROVE  t.page_meta[p].ocr # "failed"
  <2>1. s.ocr_available /\ ocr # "failed"
    BY <1>5, <1>8, <1>14
  <2>2. CASE p = n
    BY <1>7, <1>8, <1>m, <2>1, <2>2
  <2>3. CASE p \in 1 .. n - 1
    <3>1. s.page_meta[p].ocr # "failed"
      BY <2>1, <2>3 DEF ReadInv
    <3> QED BY <1>7, <1>8, <2>3, <3>1
  <2> QED BY <1>10, <2>2, <2>3
<1>15. ASSUME NEW p \in 1 .. n, NEW q \in 1 .. n,
              t.page_meta[p].ocr = "failed", t.page_meta[q].ocr \in Tried
       PROVE  q <= p
  <2>1. CASE p = n
    BY <1>1, <2>1
  <2>2. CASE p \in 1 .. n - 1
    <3>1. s.page_meta[p].ocr = "failed"
      BY <1>7, <1>8, <1>15, <2>2
    <3>2. ~s.ocr_available
      BY <2>2, <3>1 DEF ReadInv
    <3>3. CASE q = n
      <4>1. ocr \in Tried
        BY <1>7, <1>8, <1>m, <1>15, <3>3
      <4> QED BY <1>3, <3>2, <4>1
    <3>4. CASE q \in 1 .. n - 1
      <4>1. s.page_meta[q].ocr \in Tried
        BY <1>7, <1>8, <1>15, <3>4
      <4> QED BY <2>2, <3>1, <3>4, <4>1 DEF ReadInv
    <3> QED BY <1>10, <3>3, <3>4
  <2> QED BY <1>10, <2>1, <2>2
<1> QED BY <1>7, <1>8, <1>9, <1>11, <1>12, <1>13, <1>14, <1>15 DEF ReadInv, page, t

\* The document is in order at the end of the loop.
LEMMA ParseReads ==
  ASSUME NEW pages \in Seq(PageRead), NEW enabled \in BOOLEAN, NEW limit \in Nat
  PROVE  LET ir == Pdf!Parse(pages, enabled, limit)
         IN  ir \in ReadState /\ ReadInv(ir, pages, limit, Len(pages))
<1> DEFINE N == Len(pages)
           b == [ocr_available |-> enabled, ocr_pages |-> {}, page_meta |-> <<>>,
                 parse_warnings |-> {}]
           X == [n \in 0 .. N |-> {s \in ReadState : ReadInv(s, pages, limit, n)}]
           step == [n \in 1 .. N |-> [s \in ReadState |-> Pdf!ReadPage(s, pages[n], limit)]]
           Is(g) == g = [n \in 0 .. N |-> IF n = 0 THEN b ELSE Pdf!ReadPage(g[n - 1], pages[n], limit)]
           read == CHOOSE g : Is(g)
<1>1. N \in Nat
  BY LenProperties
<1>2. b \in X[0]
  <2>1. b \in ReadState
    <3>1. <<>> \in Seq(PageMeta)
      OBVIOUS
    <3> HIDE DEF N
    <3> QED BY <3>1 DEF ReadState
  <2>2. ReadInv(b, pages, limit, 0)
    <3>1. Len(b.page_meta) = 0 /\ 1 .. 0 = {} /\ b.ocr_pages = {}
      OBVIOUS
    <3>2. Cardinality({}) = 0
      BY FS_EmptySet
    <3> HIDE DEF b
    <3> QED BY <3>1, <3>2 DEF ReadInv
  <2> HIDE DEF b, N
  <2> QED BY <1>1, <2>1, <2>2
<1> HIDE DEF b
<1>3. ASSUME NEW n \in 1 .. N, NEW s \in X[n - 1]
      PROVE  /\ s \in ReadState /\ step[n][s] = Pdf!ReadPage(s, pages[n], limit)
             /\ Pdf!ReadPage(s, pages[n], limit) \in X[n]
  <2>1. n - 1 \in 0 .. N /\ n \in 0 .. N
    BY <1>1
  <2>2. s \in ReadState /\ ReadInv(s, pages, limit, n - 1)
    BY <2>1
  <2>3. /\ Pdf!ReadPage(s, pages[n], limit) \in ReadState
        /\ ReadInv(Pdf!ReadPage(s, pages[n], limit), pages, limit, n)
    BY <2>2, PageIsRead
  <2> HIDE DEF N
  <2> QED BY <2>1, <2>2, <2>3
<1> HIDE DEF step, X
<1>4. PICK f : Steps(f, N, b, step, X)
  <2>1. \A n \in 1 .. N : \A x \in X[n - 1] : step[n][x] \in X[n]
    BY <1>3
  <2> QED BY <1>1, <1>2, <2>1, Iteration
<1>5. /\ f = [n \in 0 .. N |-> f[n]]
      /\ f[0] = b
      /\ \A n \in 1 .. N : f[n] = step[n][f[n - 1]]
      /\ \A n \in 0 .. N : f[n] \in X[n]
  BY <1>4 DEF Steps
<1> HIDE DEF N
<1>6. Is(f)
  <2>1. ASSUME NEW n \in 0 .. N
        PROVE  f[n] = IF n = 0 THEN b ELSE Pdf!ReadPage(f[n - 1], pages[n], limit)
    <3>1. CASE n = 0
      BY <1>5, <3>1
    <3>2. CASE n # 0
      <4>1. n \in 1 .. N /\ n - 1 \in 0 .. N
        BY <1>1, <3>2
      <4> QED BY <1>3, <1>5, <3>2, <4>1
    <3> QED BY <3>1, <3>2
  <2> QED BY <1>5, <2>1
<1>7. Is(read)
  <2> HIDE DEF Is
  <2> QED BY <1>6
<1>8. Pdf!Parse(pages, enabled, limit) = read[N]
  BY DEF Pdf!Parse, N, b
<1> HIDE DEF read
<1>9. \A n \in 0 .. N : read[n] \in X[n]
  <2>1. read[0] = b /\ \A n \in 1 .. N : read[n] = Pdf!ReadPage(read[n - 1], pages[n], limit)
    <3>1. \A n \in 1 .. N : n \in 0 .. N /\ n # 0
      BY <1>1
    <3>2. 0 \in 0 .. N
      BY <1>1
    <3> QED BY <1>7, <3>1, <3>2
  <2>2. \A n \in 1 .. N : (read[n - 1] \in X[n - 1]) => (read[n] \in X[n])
    BY <2>1, <1>3
  <2> HIDE DEF Is
  <2> QED BY <1>1, <1>2, <2>1, <2>2, Induction
<1>10. read[N] \in X[N] /\ N \in 0 .. N
  BY <1>1, <1>9
<1>11. read[N] \in ReadState /\ ReadInv(read[N], pages, limit, N)
  BY <1>10 DEF X
<1> HIDE DEF Is
<1> QED BY <1>8, <1>11 DEF N

\* A page with a state that neither stops a review nor asks a person was read, or
\* had nothing but text to read.
LEMMA ClearPage ==
  ASSUME NEW page \in PageRead, NEW ocr \in Tried \cup Untried,
         ocr = "success" => page.ocr >= Pdf!OcrMinPageChars,
         Pdf!ClassifyPage(page, ocr) \notin Pdf!UnreadStatus,
         Pdf!ClassifyPage(page, ocr) \notin Pdf!UncertainStatus
  PROVE  \/ ~Pictures(page) /\ ~Blank(page) /\ (~Doubtful(page) \/ SparseText(page))
         \/ ocr = "success" /\ page.ocr >= Pdf!OcrMinPageChars
<1>1. CASE ocr \in Tried
  BY <1>1 DEF Tried, Pdf!ClassifyPage, Pdf!UnreadStatus
<1>2. CASE ocr \in Untried
  <2> DEFINE area == Pdf!ImageAreaRatio(page)
             some == Pdf!HasUnreadImageRegion(page)
             status == Pdf!ClassifyPage(page, ocr)
  <2>0. page.chars \in Nat /\ page.images \in Seq(Pictured)
    BY DEF PageRead
  <2>1. DOMAIN page.images = 1 .. Len(page.images) /\ Range(page.images) = {page.images[i] : i \in DOMAIN page.images}
    BY <2>0, LenProperties DEF Range
  <2>2. \A t \in 0 .. 100 : (\E i \in Range(page.images) : i.area >= t) => area >= t
    BY <2>0, <2>1, AreasAddUp
  <2>3. Pictures(page) => area >= 60 /\ page.chars < 200
    <3>1. 60 \in 0 .. 100
      OBVIOUS
    <3> HIDE DEF area
    <3> QED BY <2>2, <3>1 DEF Pictures, Pdf!ScannedImageRatio
  <2>4. Doubtful(page) => area >= 50 /\ some
    <3>1. 50 \in 0 .. 100
      OBVIOUS
    <3>2. Pdf!Range(page.images) = Range(page.images)
      BY DEF Pdf!Range, Range
    <3>3. Doubtful(page) => some
      BY <3>2 DEF Doubtful, Pdf!HasUnreadImageRegion
    <3> HIDE DEF area, some
    <3> QED BY <2>2, <3>1, <3>3 DEF Doubtful, Pdf!UnreadRegionRatio
  <2>5. ocr # "skipped_limit"
    BY DEF Pdf!ClassifyPage, Pdf!UnreadStatus
  <2>6. status = IF page.chars = 0 THEN IF page.images = <<>> THEN "empty" ELSE "scanned_no_text"
                 ELSE IF area >= 60 /\ page.chars < 200 THEN "scanned_minimal_text"
                 ELSE IF some /\ area >= 50 /\ page.chars >= 200 THEN "mixed_image_unread" ELSE "ok"
    BY <1>2, <2>5 DEF Untried, Pdf!ClassifyPage, Pdf!ScannedImageRatio,
       Pdf!ScannedMaxDigitalChars, Pdf!UnreadRegionRatio, Pdf!UncertainMinDigitalChars
  <2>7. status \notin {"scanned_no_text", "scanned_minimal_text", "mixed_image_unread"}
    <3> HIDE DEF status
    <3>1. status \notin Pdf!UnreadStatus /\ status \notin Pdf!UncertainStatus
      BY DEF status
    <3> QED BY <3>1 DEF Pdf!UnreadStatus, Pdf!UncertainStatus
  <2> HIDE DEF status, area, some
  <2>8. CASE page.chars = 0
    <3>1. page.images = <<>>
      BY <2>6, <2>7, <2>8
    <3>2. Range(page.images) = {}
      BY <2>1, <3>1
    <3> QED BY <3>1, <3>2 DEF Pictures, Blank, Doubtful
  <2>9. CASE page.chars # 0
    <3>1. ~Pictures(page)
      BY <2>3, <2>6, <2>7, <2>9
    <3>2. ~(some /\ area >= 50 /\ page.chars >= 200)
      BY <2>6, <2>7, <2>9, <2>0
    <3>3. Doubtful(page) => page.chars \in 1 .. 199
      <4>1. Doubtful(page) => ~(page.chars >= 200)
        BY <2>4, <3>2, Zenon
      <4>2. page.chars \in Nat /\ page.chars # 0
        BY <2>0, <2>9
      <4> QED BY <4>1, <4>2
    <3>4. Doubtful(page) => SparseText(page)
      BY <3>3 DEF SparseText, Pdf!UncertainMinDigitalChars
    <3>5. ~Blank(page)
      BY <2>9 DEF Blank
    <3> QED BY <3>1, <3>4, <3>5
  <2> QED BY <2>8, <2>9
<1> QED BY <1>1, <1>2

\* Of any PDF, with any limit on OCR: when the gates let a review say "pass", each
\* page that has pictures for text was read by OCR with enough to show for it, and
\* no table was lost.
THEOREM UnreadIsNotPassed ==
  ASSUME NEW pages \in Seq(PageRead), NEW enabled \in BOOLEAN, NEW limit \in Nat
  PROVE  LET ir == Pdf!Parse(pages, enabled, limit)
         IN  Pdf!SaysPass(ir) => \A p \in DOMAIN pages :
                /\ ~pages[p].table_fails
                /\ \/ ~Pictures(pages[p]) /\ ~Blank(pages[p]) /\ (~Doubtful(pages[p]) \/ SparseText(pages[p]))
                   \/ p \in ir.ocr_pages /\ pages[p].ocr >= Pdf!OcrMinPageChars
<1> DEFINE ir == Pdf!Parse(pages, enabled, limit)
<1>1. ir \in ReadState /\ ReadInv(ir, pages, limit, Len(pages))
  BY ParseReads
<1> HIDE DEF ir
<1> SUFFICES ASSUME Pdf!SaysPass(ir), NEW p \in DOMAIN pages
             PROVE  /\ ~pages[p].table_fails
                    /\ \/ ~Pictures(pages[p]) /\ ~Blank(pages[p])
                          /\ (~Doubtful(pages[p]) \/ SparseText(pages[p]))
                       \/ p \in ir.ocr_pages /\ pages[p].ocr >= Pdf!OcrMinPageChars
  BY DEF ir
<1> DEFINE m == ir.page_meta[p]
<1>2. p \in 1 .. Len(pages) /\ pages[p] \in PageRead
  BY LenProperties, ElementOfSeq
<1>3. MetaFits(ir, pages, p) /\ ir.page_meta \in Seq(PageMeta) /\ Len(ir.page_meta) = Len(pages)
  BY <1>1, <1>2 DEF ReadInv, ReadState
<1>4. DOMAIN ir.page_meta = 1 .. Len(pages) /\ m \in PageMeta
  BY <1>2, <1>3, LenProperties, ElementOfSeq
<1>5. m \in Pdf!Range(ir.page_meta)
  BY <1>2, <1>4 DEF Pdf!Range
<1>6. m.ocr \in Tried \cup Untried
  BY <1>4 DEF PageMeta
<1> HIDE DEF m
<1>7. m.status \notin Pdf!UnreadStatus
  BY <1>5 DEF Pdf!SaysPass, Pdf!ValidatePageCoverage
<1>8. Pdf!PageQualityManualIssues(ir) = {}
  BY DEF Pdf!SaysPass
<1>9. m.status \notin Pdf!UncertainStatus
  <2>1. m.status \in Pdf!UncertainStatus => Pdf!Manual("uncertain_page", m.page) \in Pdf!PageQualityManualIssues(ir)
    BY <1>5 DEF Pdf!PageQualityManualIssues
  <2> QED BY <1>8, <2>1
<1>10. p \notin ir.parse_warnings
  <2>1. p \in ir.parse_warnings => Pdf!Manual("parse_warning", p) \in Pdf!PageQualityManualIssues(ir)
    BY DEF Pdf!PageQualityManualIssues
  <2> QED BY <1>8, <2>1
<1>11. /\ m.status = Pdf!ClassifyPage(pages[p], m.ocr)
       /\ m.ocr = "success" => p \in ir.ocr_pages /\ m.ocr = Pdf!OcrPage(pages[p])
       /\ pages[p].table_fails => p \in ir.parse_warnings
  BY <1>3 DEF MetaFits, m, Tried
<1>12. pages[p].ocr \in Int
  BY <1>2 DEF PageRead
<1>13. m.ocr = "success" => pages[p].ocr >= Pdf!OcrMinPageChars
  BY <1>11, <1>12, OcrPageIs
<1>14. \/ ~Pictures(pages[p]) /\ ~Blank(pages[p]) /\ (~Doubtful(pages[p]) \/ SparseText(pages[p]))
       \/ m.ocr = "success" /\ pages[p].ocr >= Pdf!OcrMinPageChars
  BY <1>2, <1>6, <1>7, <1>9, <1>11, <1>13, ClearPage
<1> QED BY <1>10, <1>11, <1>14

\* Of any PDF, with any limit on OCR: the limit is kept, OCR that failed is not
\* asked again, and it is only asked where there is a picture and hardly any text.
THEOREM OcrIsKeptWithin ==
  ASSUME NEW pages \in Seq(PageRead), NEW enabled \in BOOLEAN, NEW limit \in Nat
  PROVE  LET ir == Pdf!Parse(pages, enabled, limit)
             tried == {p \in DOMAIN pages : ir.page_meta[p].ocr \in {"success", "insufficient", "failed"}}
             failed == {p \in tried : pages[p].ocr = Pdf!Raises}
         IN  /\ Cardinality(ir.ocr_pages) <= limit
             /\ \A p \in failed, q \in tried : q <= p
             /\ \A p \in tried : pages[p].images # <<>> /\ pages[p].chars < Pdf!OcrMinPageChars
<1> DEFINE ir == Pdf!Parse(pages, enabled, limit)
           tried == {p \in DOMAIN pages : ir.page_meta[p].ocr \in {"success", "insufficient", "failed"}}
           failed == {p \in tried : pages[p].ocr = Pdf!Raises}
<1>1. ReadInv(ir, pages, limit, Len(pages))
  BY ParseReads
<1> HIDE DEF ir
<1>2. DOMAIN pages = 1 .. Len(pages)
  BY LenProperties
<1>3. ASSUME NEW p \in tried
      PROVE  /\ p \in 1 .. Len(pages) /\ ir.page_meta[p].ocr \in Tried
             /\ Pdf!NeedsOcr(pages[p]) /\ ir.page_meta[p].ocr = Pdf!OcrPage(pages[p])
             /\ pages[p].ocr \in Int
  <2>1. p \in DOMAIN pages /\ p \in 1 .. Len(pages) /\ ir.page_meta[p].ocr \in Tried
    BY <1>2 DEF Tried
  <2>2. MetaFits(ir, pages, p)
    BY <1>1, <2>1 DEF ReadInv
  <2>3. pages[p] \in PageRead
    BY <2>1, ElementOfSeq
  <2> QED BY <2>1, <2>2, <2>3 DEF MetaFits, PageRead
<1>4. Cardinality(ir.ocr_pages) <= limit
  BY <1>1 DEF ReadInv
<1>5. ASSUME NEW p \in failed, NEW q \in tried
      PROVE  q <= p
  <2>1. ir.page_meta[p].ocr = "failed"
    BY <1>3, OcrPageIs
  <2> QED BY <1>1, <1>3, <2>1 DEF ReadInv
<1>6. \A p \in tried : pages[p].images # <<>> /\ pages[p].chars < Pdf!OcrMinPageChars
  BY <1>3 DEF Pdf!NeedsOcr
<1> QED BY <1>4, <1>5, <1>6 DEF ir

-----------------------------------------------------------------------------
(* Pages that were not read in full.                                       *)
\* A page that was read completely or not, with any text.
AnyPage(T) == [status : {"ok"} \cup IncompleteStatus, text : T]

\* Text found on pages that stay as they are stays as it is.
LEMMA TextUntouched ==
  ASSUME NEW T, doc \in Seq(AnyPage(T)), NEW S, NEW a, NEW b,
         \A p \in DOMAIN doc : p \in S => a[p] = b[p]
  PROVE  TextOf(Read(a), S) = TextOf(Read(b), S)
<1> DEFINE on(e) == {j \in DOMAIN Read(e).blocks : Read(e).blocks[j].page \in S}
<1>1. ASSUME NEW e
      PROVE  /\ on(e) = {j \in DOMAIN doc : j \in S}
             /\ \A j \in DOMAIN doc : Read(e).blocks[j].text = doc[j].text \cup e[j]
  BY DEF Read
<1>2. TextOf(Read(a), S) = UNION {Read(a).blocks[i].text : i \in {j \in DOMAIN doc : j \in S}}
  BY <1>1 DEF TextOf
<1>3. TextOf(Read(b), S) = UNION {Read(b).blocks[i].text : i \in {j \in DOMAIN doc : j \in S}}
  BY <1>1 DEF TextOf
<1>4. \A j \in {i \in DOMAIN doc : i \in S} : Read(a).blocks[j].text = Read(b).blocks[j].text
  <2> TAKE j \in {i \in DOMAIN doc : i \in S}
  <2>1. Read(a).blocks[j].text = doc[j].text \cup a[j] /\ Read(b).blocks[j].text = doc[j].text \cup b[j]
    BY <1>1
  <2>2. a[j] = b[j]
    OBVIOUS
  <2> QED BY <2>1, <2>2
<1> HIDE DEF on
<1>5. {Read(a).blocks[i].text : i \in {j \in DOMAIN doc : j \in S}}
      = {Read(b).blocks[i].text : i \in {j \in DOMAIN doc : j \in S}}
  BY <1>4
<1> QED BY <1>2, <1>3, <1>5

\* The pages that may hide something are those read incompletely.
LEMMA HiddenIsIncomplete ==
  ASSUME NEW T, doc \in Seq(AnyPage(T)), NEW e
  PROVE  /\ Read(e).pages = Len(doc)
         /\ \A p \in DOMAIN doc : PageReadIncomplete(Read(e), p) <=> doc[p].status # "ok"
         /\ IncompletePages(Read(e)) = {p \in DOMAIN doc : doc[p].status # "ok"}
         /\ \A p : PageReadIncomplete(Read(e), p) => p \in DOMAIN doc
<1> DEFINE M == Read(e).page_meta
           I == PagesWith(Read(e), IncompleteStatus)
<1>1. M = {[page |-> p, status |-> doc[p].status] : p \in DOMAIN doc}
  BY DEF Read
<1>2. I = {m.page : m \in {x \in M : x.status \in IncompleteStatus}}
  BY DEF PagesWith
<1> HIDE DEF I
<1>3. \A p \in DOMAIN doc : doc[p].status \in {"ok"} \cup IncompleteStatus
  <2> TAKE p \in DOMAIN doc
  <2>1. doc[p] \in AnyPage(T)
    BY ElementOfSeq, LenProperties
  <2> QED BY <2>1 DEF AnyPage
<1>4. "ok" \notin IncompleteStatus
  BY DEF IncompleteStatus, UnreadStatus, UncertainStatus
<1>5. I = {p \in DOMAIN doc : doc[p].status # "ok"}
  <2>1. ASSUME NEW p \in I PROVE p \in DOMAIN doc /\ doc[p].status # "ok"
    BY <1>1, <1>2, <1>4, <2>1
  <2>2. ASSUME NEW p \in DOMAIN doc, doc[p].status # "ok" PROVE p \in I
    <3>1. [page |-> p, status |-> doc[p].status] \in M /\ doc[p].status \in IncompleteStatus
      BY <1>1, <1>3, <2>2
    <3> HIDE DEF M
    <3> QED BY <1>2, <3>1
  <2> QED BY <2>1, <2>2
<1>6. Read(e).pages = Len(doc)
  BY DEF Read
<1> QED BY <1>5, <1>6 DEF I, PageReadIncomplete, IncompletePages

\* An issue for a person is no fault.
LEMMA ManualSaysSo ==
  \A what, about : Manual(what, about)[1] = "manual"
BY DEF Manual

\* FaultsSurviveReading of any pages, as many as there are and whatever was found
\* on them: a fault is only reported when none of the pages that were looked at
\* was read incompletely.
LEMMA SeenFaultsStand ==
  ASSUME NEW T, doc \in Seq(AnyPage(T))
  PROVE  FaultsSurviveReading
<1> DEFINE hidden == {p \in DOMAIN doc : doc[p].status # "ok"}
           nothing == [p \in DOMAIN doc |-> {}]
           extra(pages, text) == [p \in DOMAIN doc |-> IF p \in pages THEN text ELSE {}]
           A(e) == AttachmentChecklist(Read(e), {Receipt})
           S(e) == SignaturePage(Read(e), {"sign", "seal"})
<1> SUFFICES ASSUME NEW pages \in SUBSET hidden, NEW text, NEW i \in Certain(A(nothing) \cup S(nothing))
             PROVE  i \in Certain(A(extra(pages, text)) \cup S(extra(pages, text)))
  BY DEF FaultsSurviveReading
<1> DEFINE more == extra(pages, text)
<1>1. i \in A(nothing) \cup S(nothing) /\ i[1] = "fault"
  BY DEF Certain
<1>2. \A p \in DOMAIN doc : nothing[p] = {} /\ (p \notin hidden => more[p] = {})
  OBVIOUS
<1>3. hidden = {} => more = nothing
  BY <1>2
<1> HIDE DEF more, nothing
<1>4. CASE i \in A(nothing)
  <2>1. hidden = {}
    <3>1. IncompletePages(Read(nothing)) = hidden
      BY HiddenIsIncomplete
    <3> DEFINE absent == {a \in {Receipt} : ~FuzzyFind(a, TextOf(Read(nothing), AllPages(Read(nothing))))}
    <3>2. CASE absent = {}
      <4>1. A(nothing) = {Manual("attachments_named", {Receipt}) : x \in {Receipt}}
        BY <3>2 DEF AttachmentChecklist
      <4>2. i[1] = "manual"
        BY <1>4, <4>1, ManualSaysSo
      <4> QED BY <1>1, <4>2
    <3>3. CASE absent # {} /\ hidden # {}
      <4>1. A(nothing) = {Manual("attachment_unread", a) : a \in absent}
        BY <3>1, <3>3 DEF AttachmentChecklist
      <4>2. i[1] = "manual"
        BY <1>4, <4>1, ManualSaysSo
      <4> QED BY <1>1, <4>2
    <3> QED BY <3>2, <3>3
  <2>2. A(more) = A(nothing)
    BY <1>3, <2>1
  <2> QED BY <1>1, <1>4, <2>2 DEF Certain, more
<1>5. CASE i \in S(nothing)
  <2> DEFINE L == LastPages(Read(nothing))
             doubt == {p \in L : PageReadIncomplete(Read(nothing), p)}
             missing == {"sign", "seal"} \ TextOf(Read(nothing), L)
  <2>1. S(nothing) \in {{Manual("signature_unread", missing)}, {Fault("signature_missing", missing)},
                        {Manual("signature_image",
                                {j \in OfType(Read(nothing), "image") : Read(nothing).blocks[j].page \in L})},
                        {Manual("signature_text", {"sign", "seal"})}}
    BY DEF SignaturePage
  <2>2. missing # {} /\ doubt = {}
    <3>1. CASE missing # {} /\ doubt # {}
      <4>1. S(nothing) = {Manual("signature_unread", missing)}
        BY <3>1 DEF SignaturePage
      <4>2. i[1] = "manual"
        <5> HIDE DEF missing, L
        <5> QED BY <1>5, <4>1, ManualSaysSo
      <4> QED BY <1>1, <4>2
    <3>2. CASE missing = {}
      <4> DEFINE images == {j \in OfType(Read(nothing), "image") : Read(nothing).blocks[j].page \in L}
      <4>1. \/ S(nothing) = {Manual("signature_image", images)}
            \/ S(nothing) = {Manual("signature_text", {"sign", "seal"})}
        BY <3>2 DEF SignaturePage
      <4> HIDE DEF images, missing, L
      <4>2. \E what, about : i = Manual(what, about)
        <5>1. CASE S(nothing) = {Manual("signature_image", images)}
          BY <1>5, <5>1
        <5>2. CASE S(nothing) = {Manual("signature_text", {"sign", "seal"})}
          BY <1>5, <5>2
        <5> QED BY <4>1, <5>1, <5>2
      <4> QED BY <1>1, <4>2, ManualSaysSo
    <3> QED BY <3>1, <3>2
  <2>3. LastPages(Read(more)) = L
    BY HiddenIsIncomplete DEF LastPages
  <2>4. TextOf(Read(more), L) = TextOf(Read(nothing), L)
    <3>1. ASSUME NEW p \in DOMAIN doc, p \in L PROVE more[p] = nothing[p]
      <4>1. ~PageReadIncomplete(Read(nothing), p)
        BY <2>2, <3>1
      <4>2. p \notin hidden
        BY <4>1, HiddenIsIncomplete
      <4> QED BY <1>2, <4>2
    <3> HIDE DEF L
    <3> QED BY <3>1, TextUntouched
  <2>5. {p \in LastPages(Read(more)) : PageReadIncomplete(Read(more), p)} = {}
    <3>1. \A p : PageReadIncomplete(Read(more), p) => PageReadIncomplete(Read(nothing), p)
      BY HiddenIsIncomplete
    <3> QED BY <2>2, <2>3, <3>1
  <2>6. S(nothing) = {Fault("signature_missing", missing)}
    BY <2>2 DEF SignaturePage
  <2>7. {"sign", "seal"} \ TextOf(Read(more), LastPages(Read(more))) = missing
    BY <2>3, <2>4
  <2>8. S(more) = {Fault("signature_missing", missing)}
    <3> HIDE DEF missing
    <3> QED BY <2>2, <2>5, <2>7 DEF SignaturePage
  <2>9. i \in S(more)
    BY <1>5, <2>6, <2>8
  <2> QED BY <1>1, <2>9 DEF Certain, more
<1> QED BY <1>1, <1>4, <1>5

-----------------------------------------------------------------------------
(* Sorting.                                                                *)
\* Each position once.
Shuffles(s, N) ==
  /\ s \in [1 .. N -> 1 .. N]
  /\ \A k, l \in 1 .. N : s[k] = s[l] => k = l
  /\ \A i \in 1 .. N : \E k \in 1 .. N : s[k] = i

\* The key goes up.
Sorts(s, N, major) == \A k, l \in 1 .. N : k < l => major[s[k]] <= major[s[l]]

\* The sequence t is seq in the order of its key.
Sorting(s, N, seq, major, t) ==
  Shuffles(s, N) /\ Sorts(s, N, major) /\ t = [k \in 1 .. N |-> seq[s[k]]]

\* To sort by two keys is to shuffle, and the first key goes up.
LEMMA SortedIs ==
  ASSUME NEW N \in Nat, NEW seq, DOMAIN seq = 1 .. N, NEW major, NEW minor,
         \A i \in 1 .. N : major[i] \in Int /\ minor[i] \in Int
  PROVE  \E s : Sorting(s, N, seq, major, Pdf!SortedBy(seq, major, minor))
<1> DEFINE D == DOMAIN seq
           before(i, j) == \/ major[i] < major[j]
                           \/ major[i] = major[j] /\ minor[i] < minor[j]
                           \/ major[i] = major[j] /\ minor[i] = minor[j] /\ i < j
           below(i) == {j \in D : before(j, i)}
           place(i) == Pdf!Cardinality(below(i)) + 1
           at(p) == CHOOSE i \in D : place(i) = p
           s == [p \in D |-> at(p)]
<1>0. D = 1 .. N /\ \A i : place(i) = Cardinality(below(i)) + 1
  BY SameCount
<1>9. Pdf!SortedBy(seq, major, minor) = [k \in D |-> seq[s[k]]]
  BY DEF Pdf!SortedBy
<1> HIDE DEF D, place
<1>1. /\ \A i \in D : ~before(i, i)
      /\ \A i, j, k \in D : before(i, j) /\ before(j, k) => before(i, k)
      /\ \A i, j \in D : i = j \/ before(i, j) \/ before(j, i)
      /\ \A i, j \in D : before(i, j) => major[i] <= major[j]
  BY <1>0
<1>2. IsFiniteSet(D) /\ Cardinality(D) = N
  BY <1>0, FS_Interval
<1> HIDE DEF before
<1>3. ASSUME NEW i \in D
      PROVE  /\ IsFiniteSet(below(i)) /\ Cardinality(below(i)) \in Nat /\ place(i) \in D
  <2>1. below(i) \subseteq D /\ i \notin below(i)
    BY <1>1
  <2>2. IsFiniteSet(below(i)) /\ Cardinality(below(i)) \in Nat
    BY <1>2, <2>1, FS_Subset, FS_CardinalityType
  <2>3. below(i) \cup {i} \subseteq D
    BY <2>1
  <2>4. Cardinality(below(i) \cup {i}) = Cardinality(below(i)) + 1
    BY <2>1, <2>2, FS_AddElement
  <2>5. Cardinality(below(i) \cup {i}) <= N
    BY <1>2, <2>3, FS_Subset
  <2> HIDE DEF below
  <2> QED BY <1>0, <2>2, <2>4, <2>5
<1>4. ASSUME NEW i \in D, NEW j \in D, before(i, j)
      PROVE  place(i) < place(j)
  <2>1. below(i) \cup {i} \subseteq below(j) /\ i \notin below(i)
    BY <1>1, <1>4
  <2>2. Cardinality(below(i) \cup {i}) = Cardinality(below(i)) + 1
    BY <1>3, <2>1, FS_AddElement
  <2>3. Cardinality(below(i) \cup {i}) <= Cardinality(below(j))
    BY <1>3, <2>1, FS_Subset
  <2> HIDE DEF below
  <2> QED BY <1>0, <1>3, <2>2, <2>3
<1>5. \A i, j \in D : place(i) = place(j) => i = j
  <2> SUFFICES ASSUME NEW i \in D, NEW j \in D, place(i) = place(j), i # j PROVE FALSE
    OBVIOUS
  <2>1. place(i) \in Nat /\ place(j) \in Nat
    <3>1. place(i) \in D /\ place(j) \in D
      BY <1>3
    <3> HIDE DEF place
    <3> QED BY <1>0, <3>1
  <2> QED BY <1>1, <1>4, <2>1
<1>6. \A p \in D : \E i \in D : place(i) = p
  <2> DEFINE f == [i \in D |-> place(i)]
  <2>1. f \in Injection(D, D)
    <3>1. f \in [D -> D] /\ \A i, j \in D : f[i] = f[j] => i = j
      BY <1>3, <1>5
    <3> HIDE DEF f
    <3> QED BY <3>1 DEF Injection, IsInjective
  <2>2. f \in Surjection(D, D)
    <3> HIDE DEF f, D
    <3> QED BY <1>2, <2>1, FS_Injection
  <2> QED BY <2>2 DEF Surjection
<1>7. \A p \in D : at(p) \in D /\ place(at(p)) = p
  BY <1>6
<1> HIDE DEF at
<1>8. s \in [D -> D] /\ \A p \in D : place(s[p]) = p
  BY <1>7
<1> HIDE DEF s
<1>10. Shuffles(s, N)
  <2>1. \A k, l \in D : s[k] = s[l] => k = l
    BY <1>8
  <2>2. ASSUME NEW i \in D PROVE \E k \in D : s[k] = i
    <3>1. place(i) \in D /\ s[place(i)] \in D /\ place(s[place(i)]) = place(i)
      BY <1>3, <1>8
    <3>2. s[place(i)] = i
      BY <1>5, <3>1
    <3> QED BY <3>1, <3>2
  <2> QED BY <1>0, <1>8, <2>1, <2>2 DEF Shuffles
<1>11. Sorts(s, N, major)
  <2> SUFFICES ASSUME NEW k \in D, NEW l \in D, k < l PROVE major[s[k]] <= major[s[l]]
    BY <1>0 DEF Sorts
  <2>1. s[k] \in D /\ s[l] \in D /\ place(s[k]) = k /\ place(s[l]) = l
    BY <1>8
  <2>2. k \in Nat /\ l \in Nat
    BY <1>0
  <2>3. ~before(s[l], s[k])
    <3>1. before(s[l], s[k]) => place(s[l]) < place(s[k])
      BY <1>4, <2>1
    <3> HIDE DEF place
    <3> QED BY <2>1, <2>2, <3>1
  <2>4. s[k] # s[l]
    BY <2>1, <2>2
  <2> QED BY <1>1, <2>1, <2>3, <2>4
<1>12. Sorting(s, N, seq, major, Pdf!SortedBy(seq, major, minor))
  BY <1>0, <1>9, <1>10, <1>11 DEF Sorting
<1> QED BY <1>12

-----------------------------------------------------------------------------
(* The lines of a page.                                                    *)
\* A fragment with a height.
Upright == {f \in [n : Nat, top : Int, bottom : Int, left : Int] : f.top < f.bottom}

\* A row of fragments.
Row == [top : Int, bottom : Int, left : Int, parts : Seq(Upright)]

\* A fragment stands in the way at the height y.
Covered(parts, y) == \E k \in DOMAIN parts : parts[k].top < y /\ y < parts[k].bottom

\* The top and the bottom of a row are those of its fragments, and none of the
\* heights between them is free.
RowFits(row) ==
  /\ \A k \in DOMAIN row.parts : row.top <= row.parts[k].top /\ row.parts[k].bottom <= row.bottom
  /\ \E k \in DOMAIN row.parts : row.parts[k].top = row.top
  /\ \E k \in DOMAIN row.parts : row.parts[k].bottom = row.bottom
  /\ \A y \in Int : (row.top < y /\ y < row.bottom) => Covered(row.parts, y)

\* A row of one fragment fits it.
LEMMA NewRow ==
  ASSUME NEW f \in Upright
  PROVE  LET row == [top |-> f.top, bottom |-> f.bottom, left |-> f.left, parts |-> <<f>>]
         IN  row \in Row /\ RowFits(row)
<1> DEFINE parts == <<f>>
           row == [top |-> f.top, bottom |-> f.bottom, left |-> f.left, parts |-> parts]
<1>1. f.top \in Int /\ f.bottom \in Int /\ f.left \in Int
  BY DEF Upright
<1>2. parts \in Seq(Upright) /\ DOMAIN parts = {1} /\ parts[1] = f
  OBVIOUS
<1> HIDE DEF parts
<1>3. row \in Row
  BY <1>1, <1>2 DEF Row
<1>4. row.parts = parts /\ row.top = f.top /\ row.bottom = f.bottom
  OBVIOUS
<1> HIDE DEF row
<1>5. RowFits(row)
  BY <1>1, <1>2, <1>4 DEF RowFits, Covered
<1> QED BY <1>3, <1>5 DEF row, parts

\* A row still fits its fragments when one that overlaps it joins.
LEMMA JoinedRow ==
  ASSUME NEW row \in Row, RowFits(row), NEW f \in Upright, Pdf!SameLine(f, row)
  PROVE  LET new == [top |-> Pdf!Min({f.top, row.top}),
                     bottom |-> Pdf!Max({f.bottom, row.bottom}),
                     left |-> Pdf!Min({f.left, row.left}),
                     parts |-> Append(row.parts, f)]
         IN  new \in Row /\ RowFits(new)
<1> DEFINE top == IF f.top <= row.top THEN f.top ELSE row.top
           bottom == IF f.bottom >= row.bottom THEN f.bottom ELSE row.bottom
           parts == Append(row.parts, f)
           m == Len(row.parts)
           new == [top |-> Pdf!Min({f.top, row.top}),
                   bottom |-> Pdf!Max({f.bottom, row.bottom}),
                   left |-> Pdf!Min({f.left, row.left}),
                   parts |-> parts]
<1>1. f.top \in Int /\ f.bottom \in Int /\ f.left \in Int
  BY DEF Upright
<1>2. row.top \in Int /\ row.bottom \in Int /\ row.left \in Int /\ row.parts \in Seq(Upright)
  BY DEF Row
<1>3. /\ m \in Nat /\ DOMAIN row.parts = 1 .. m
      /\ parts \in Seq(Upright) /\ DOMAIN parts = 1 .. m + 1
      /\ \A k \in 1 .. m : parts[k] = row.parts[k]
      /\ parts[m + 1] = f
  BY <1>2, AppendProperties, LenProperties
<1>4. /\ Pdf!Min({f.top, row.top}) = top
      /\ Pdf!Max({f.bottom, row.bottom}) = bottom
      /\ Pdf!Min({f.left, row.left}) \in Int
  BY <1>1, <1>2, LeastOfTwo, GreatestOfTwo
<1>5. f.top < row.bottom /\ row.top < f.bottom
  <2>1. Pdf!Min({f.bottom, row.bottom}) = IF f.bottom <= row.bottom THEN f.bottom ELSE row.bottom
    BY <1>1, <1>2, LeastOfTwo
  <2>2. Pdf!Max({f.top, row.top}) = IF f.top >= row.top THEN f.top ELSE row.top
    BY <1>1, <1>2, GreatestOfTwo
  <2>3. Pdf!Min({f.bottom, row.bottom}) - Pdf!Max({f.top, row.top}) > 0
    BY DEF Pdf!SameLine
  <2> QED BY <1>1, <1>2, <2>1, <2>2, <2>3
<1> HIDE DEF parts, m
<1>6. new \in Row
  <2>1. top \in Int /\ bottom \in Int
    BY <1>1, <1>2
  <2> HIDE DEF top, bottom
  <2> QED BY <1>3, <1>4, <2>1 DEF Row
<1>7. new.parts = parts /\ new.top = top /\ new.bottom = bottom
  BY <1>4
<1> HIDE DEF new
<1>8. \A k \in DOMAIN parts : k = m + 1 \/ k \in 1 .. m
  BY <1>3
<1>9. ASSUME NEW k \in DOMAIN parts
      PROVE  top <= parts[k].top /\ parts[k].bottom <= bottom
  <2>1. CASE k = m + 1
    BY <1>1, <1>2, <1>3, <2>1
  <2>2. CASE k \in 1 .. m
    <3>1. row.top <= row.parts[k].top /\ row.parts[k].bottom <= row.bottom /\ parts[k] = row.parts[k]
      BY <1>3, <2>2 DEF RowFits
    <3>2. parts[k] \in Upright
      BY <1>3, ElementOfSeq, LenProperties
    <3>3. parts[k].top \in Int /\ parts[k].bottom \in Int
      BY <3>2 DEF Upright
    <3> QED BY <1>1, <1>2, <3>1, <3>3
  <2> QED BY <1>8, <2>1, <2>2
<1>10. \E k \in DOMAIN parts : parts[k].top = top
  <2>1. PICK k \in 1 .. m : row.parts[k].top = row.top
    BY <1>3 DEF RowFits
  <2>2. k \in DOMAIN parts /\ parts[k].top = row.top
    BY <1>3, <2>1
  <2>3. m + 1 \in DOMAIN parts /\ parts[m + 1].top = f.top
    BY <1>3
  <2>4. top = f.top \/ top = row.top
    OBVIOUS
  <2> HIDE DEF top
  <2> QED BY <2>2, <2>3, <2>4
<1>11. \E k \in DOMAIN parts : parts[k].bottom = bottom
  <2>1. PICK k \in 1 .. m : row.parts[k].bottom = row.bottom
    BY <1>3 DEF RowFits
  <2>2. k \in DOMAIN parts /\ parts[k].bottom = row.bottom
    BY <1>3, <2>1
  <2>3. m + 1 \in DOMAIN parts /\ parts[m + 1].bottom = f.bottom
    BY <1>3
  <2>4. bottom = f.bottom \/ bottom = row.bottom
    OBVIOUS
  <2> HIDE DEF bottom
  <2> QED BY <2>2, <2>3, <2>4
<1>12. ASSUME NEW y \in Int, top < y, y < bottom
       PROVE  Covered(parts, y)
  <2>1. CASE row.top < y /\ y < row.bottom
    <3>1. PICK k \in 1 .. m : row.parts[k].top < y /\ y < row.parts[k].bottom
      BY <1>3, <2>1 DEF RowFits, Covered
    <3>2. k \in DOMAIN parts /\ parts[k] = row.parts[k]
      BY <1>3, <3>1
    <3> QED BY <3>1, <3>2 DEF Covered
  <2>2. CASE ~(row.top < y /\ y < row.bottom)
    <3>1. f.top < y /\ y < f.bottom
      BY <1>1, <1>2, <1>5, <1>12, <2>2
    <3>2. m + 1 \in DOMAIN parts /\ parts[m + 1] = f
      BY <1>3
    <3> QED BY <3>1, <3>2 DEF Covered
  <2> QED BY <2>1, <2>2
<1> HIDE DEF top, bottom
<1>13. RowFits(new)
  BY <1>7, <1>9, <1>10, <1>11, <1>12 DEF RowFits
<1> QED BY <1>6, <1>13 DEF new, parts

\* The rows hold each of the first n fragments once, and nothing else.
Once(rows, frags, n) ==
  /\ \A r \in DOMAIN rows : \A k \in DOMAIN rows[r].parts :
        \E i \in 1 .. n : rows[r].parts[k] = frags[i]
  /\ \A i \in 1 .. n : \E r \in DOMAIN rows : \E k \in DOMAIN rows[r].parts :
        rows[r].parts[k] = frags[i]
  /\ \A r, s \in DOMAIN rows : \A k \in DOMAIN rows[r].parts : \A l \in DOMAIN rows[s].parts :
        rows[r].parts[k] = rows[s].parts[l] => r = s /\ k = l

\* The loop over the fragments after n of them.
RowsInv(rows, frags, n) ==
  /\ rows \in Seq(Row)
  /\ \A r \in DOMAIN rows : RowFits(rows[r])
  /\ Once(rows, frags, n)

\* The row t of new is the one of rows with a fragment more, or a new one.
Grown(rows, new, t, m, f) ==
  /\ t \in DOMAIN new /\ m \in Nat /\ DOMAIN new = DOMAIN rows \cup {t}
  /\ \A r \in DOMAIN rows : r # t => new[r] = rows[r]
  /\ t \in DOMAIN rows => DOMAIN rows[t].parts = 1 .. m
  /\ t \notin DOMAIN rows => m = 0
  /\ DOMAIN new[t].parts = 1 .. m + 1
  /\ \A k \in 1 .. m : new[t].parts[k] = rows[t].parts[k]
  /\ new[t].parts[m + 1] = f

\* A fragment that goes to one row, and to its end, is then in its place once.
LEMMA FragmentAdded ==
  ASSUME NEW rows, NEW new, NEW frags, NEW n \in Nat \ {0},
         Once(rows, frags, n - 1), \A i \in 1 .. n - 1 : frags[i] # frags[n],
         NEW t, NEW m, Grown(rows, new, t, m, frags[n])
  PROVE  Once(new, frags, n)
<1>0. /\ t \in DOMAIN new /\ m \in Nat /\ DOMAIN new = DOMAIN rows \cup {t}
      /\ \A r \in DOMAIN rows : r # t => new[r] = rows[r]
      /\ t \in DOMAIN rows => DOMAIN rows[t].parts = 1 .. m
      /\ t \notin DOMAIN rows => m = 0
      /\ DOMAIN new[t].parts = 1 .. m + 1
      /\ \A k \in 1 .. m : new[t].parts[k] = rows[t].parts[k]
      /\ new[t].parts[m + 1] = frags[n]
  BY DEF Grown
<1> DEFINE Old(r, k) == r \in DOMAIN rows /\ k \in DOMAIN rows[r].parts
           New(r, k) == r \in DOMAIN new /\ k \in DOMAIN new[r].parts
<1>1. \A r, k : New(r, k) => (r = t /\ k = m + 1) \/ (Old(r, k) /\ new[r].parts[k] = rows[r].parts[k])
  <2> SUFFICES ASSUME NEW r, NEW k, New(r, k), ~(r = t /\ k = m + 1)
               PROVE  Old(r, k) /\ new[r].parts[k] = rows[r].parts[k]
    OBVIOUS
  <2>1. CASE r # t
    BY <1>0, <2>1
  <2>2. CASE r = t
    <3>1. k \in 1 .. m
      BY <1>0, <2>2
    <3>2. t \in DOMAIN rows
      BY <1>0, <3>1
    <3> QED BY <1>0, <2>2, <3>1, <3>2
  <2> QED BY <2>1, <2>2
<1>2. \A r, k : Old(r, k) => New(r, k) /\ new[r].parts[k] = rows[r].parts[k]
              /\ ~(r = t /\ k = m + 1)
  <2> SUFFICES ASSUME NEW r, NEW k, Old(r, k)
               PROVE  New(r, k) /\ new[r].parts[k] = rows[r].parts[k] /\ ~(r = t /\ k = m + 1)
    OBVIOUS
  <2>1. CASE r # t
    BY <1>0, <2>1
  <2>2. CASE r = t
    <3>1. k \in 1 .. m /\ k \in 1 .. m + 1
      BY <1>0, <2>2
    <3> QED BY <1>0, <2>2, <3>1
  <2> QED BY <2>1, <2>2
<1>3. New(t, m + 1) /\ new[t].parts[m + 1] = frags[n]
  BY <1>0
<1>4. /\ \A r, k : Old(r, k) => (\E i \in 1 .. n - 1 : rows[r].parts[k] = frags[i])
      /\ \A i \in 1 .. n - 1 : \E r, k : Old(r, k) /\ rows[r].parts[k] = frags[i]
      /\ \A r, s, k, l : (Old(r, k) /\ Old(s, l) /\ rows[r].parts[k] = rows[s].parts[l])
                         => (r = s /\ k = l)
  <2>1. \A r, k : Old(r, k) => (\E i \in 1 .. n - 1 : rows[r].parts[k] = frags[i])
    BY SMT DEF Once
  <2>2. \A i \in 1 .. n - 1 : \E r, k : Old(r, k) /\ rows[r].parts[k] = frags[i]
    BY SMT DEF Once
  <2>3. \A r, s, k, l : (Old(r, k) /\ Old(s, l) /\ rows[r].parts[k] = rows[s].parts[l])
                         => (r = s /\ k = l)
    BY SMT DEF Once
  <2> QED BY <2>1, <2>2, <2>3
<1>5. \A i : i \in 1 .. n <=> i \in 1 .. n - 1 \/ i = n
  OBVIOUS
<1>6. (\A r, k : New(r, k) => \E i \in 1 .. n : new[r].parts[k] = frags[i])
  <2> SUFFICES ASSUME NEW r, NEW k, New(r, k)
               PROVE  \E i \in 1 .. n : new[r].parts[k] = frags[i]
    OBVIOUS
  <2> HIDE DEF New, Old
  <2>1. CASE r = t /\ k = m + 1
    BY <1>3, <1>5, <2>1
  <2>2. CASE Old(r, k) /\ new[r].parts[k] = rows[r].parts[k]
    BY <1>4, <1>5, <2>2
  <2> QED BY <1>1, <2>1, <2>2
<1>7. (\A i \in 1 .. n : \E r, k : New(r, k) /\ new[r].parts[k] = frags[i])
  <2> TAKE i \in 1 .. n
  <2> HIDE DEF New, Old
  <2>1. CASE i = n
    BY <1>3, <2>1
  <2>2. CASE i \in 1 .. n - 1
    BY <1>2, <1>4, <2>2
  <2> QED BY <1>5, <2>1, <2>2
<1>8. ASSUME NEW r, NEW s, NEW k, NEW l, New(r, k), New(s, l),
             new[r].parts[k] = new[s].parts[l]
      PROVE  r = s /\ k = l
  <2> HIDE DEF New, Old
  <2>1. \A q, j : Old(q, j) => rows[q].parts[j] # frags[n]
    BY <1>4
  <2>2. CASE r = t /\ k = m + 1
    BY <1>1, <1>3, <1>8, <2>1, <2>2
  <2>3. CASE s = t /\ l = m + 1
    BY <1>1, <1>3, <1>8, <2>1, <2>3
  <2>4. CASE Old(r, k) /\ Old(s, l)
    BY <1>2, <1>4, <1>8, <2>4
  <2> QED BY <1>1, <1>8, <2>2, <2>3, <2>4
<1>9. \A r \in DOMAIN new : \A k \in DOMAIN new[r].parts :
         \E i \in 1 .. n : new[r].parts[k] = frags[i]
  BY <1>6
<1>10. \A i \in 1 .. n : \E r \in DOMAIN new : \E k \in DOMAIN new[r].parts :
          new[r].parts[k] = frags[i]
  BY <1>7, Zenon
<1>11. \A r, s \in DOMAIN new : \A k \in DOMAIN new[r].parts : \A l \in DOMAIN new[s].parts :
          new[r].parts[k] = new[s].parts[l] => r = s /\ k = l
  BY <1>8
<1> HIDE DEF Old, New
<1> QED BY <1>9, <1>10, <1>11, Zenon DEF Once

\* One turn of the loop over the fragments keeps the rows in order.
LEMMA FragmentIsPlaced ==
  ASSUME NEW frags \in Seq(Upright), \A i, j \in DOMAIN frags : frags[i] = frags[j] => i = j,
         NEW n \in 1 .. Len(frags), NEW rows, RowsInv(rows, frags, n - 1)
  PROVE  RowsInv(Pdf!PlaceFragment(rows, frags[n]), frags, n)
<1> DEFINE f == frags[n]
           fits == {r \in DOMAIN rows : Pdf!SameLine(f, rows[r])}
           first == Pdf!Min(fits)
           row == [top |-> f.top, bottom |-> f.bottom, left |-> f.left, parts |-> <<f>>]
           joined == [top |-> Pdf!Min({f.top, rows[first].top}),
                      bottom |-> Pdf!Max({f.bottom, rows[first].bottom}),
                      left |-> Pdf!Min({f.left, rows[first].left}),
                      parts |-> Append(rows[first].parts, f)]
           new == Pdf!PlaceFragment(rows, f)
<1>1. /\ n \in Nat \ {0} /\ f \in Upright
      /\ \A i \in 1 .. n - 1 : frags[i] # f
  <2>1. DOMAIN frags = 1 .. Len(frags) /\ Len(frags) \in Nat
    BY LenProperties
  <2>2. \A i \in 1 .. n - 1 : i \in DOMAIN frags /\ i # n
    BY <2>1
  <2> QED BY <2>1, <2>2, ElementOfSeq
<1>2. /\ rows \in Seq(Row) /\ DOMAIN rows = 1 .. Len(rows) /\ Len(rows) \in Nat
      /\ Once(rows, frags, n - 1) /\ \A r \in DOMAIN rows : RowFits(rows[r]) /\ rows[r] \in Row
  BY LenProperties, ElementOfSeq DEF RowsInv
<1>3. new = IF fits = {} THEN Append(rows, row) ELSE [rows EXCEPT ![first] = joined]
  BY DEF Pdf!PlaceFragment
<1>4. CASE fits = {}
  <2> DEFINE t == Len(rows) + 1
  <2>1. new = Append(rows, row)
    BY <1>3, <1>4
  <2>2. row \in Row /\ RowFits(row)
    BY <1>1, NewRow
  <2>3. row.parts = <<f>>
    OBVIOUS
  <2> HIDE DEF row, new, fits
  <2>4. /\ new \in Seq(Row) /\ DOMAIN new = 1 .. t
        /\ \A r \in DOMAIN rows : new[r] = rows[r]
        /\ new[t] = row
    BY <1>2, <2>1, <2>2, AppendProperties, LenProperties
  <2>5. t \in DOMAIN new /\ t \notin DOMAIN rows /\ DOMAIN new = DOMAIN rows \cup {t}
    BY <1>2, <2>4
  <2> DEFINE m == 0
  <2>6. m \in Nat /\ m = 0 /\ DOMAIN new[t].parts = 1 .. m + 1 /\ new[t].parts[m + 1] = frags[n]
    BY <2>3, <2>4
  <2>7. \A k \in 1 .. m : new[t].parts[k] = rows[t].parts[k]
    OBVIOUS
  <2>8. \A i \in 1 .. n - 1 : frags[i] # frags[n]
    BY <1>1
  <2> HIDE DEF f, t, m
  <2>11. \A r \in DOMAIN rows : r # t => new[r] = rows[r]
    BY <2>4
  <2>9. Once(new, frags, n)
    <3>1. Grown(rows, new, t, m, frags[n])
      BY <2>5, <2>6, <2>7, <2>11 DEF Grown
    <3> QED BY <1>1, <1>2, <2>8, <3>1, FragmentAdded
  <2>10. \A r \in DOMAIN new : RowFits(new[r])
    BY <1>2, <2>2, <2>4, <2>5
  <2> QED BY <2>4, <2>9, <2>10 DEF RowsInv, new, f
<1>5. CASE fits # {}
  <2> DEFINE old == rows[first]
             m == Len(old.parts)
  <2>1. first \in fits
    <3>1. fits \in SUBSET Nat
      BY <1>2
    <3> HIDE DEF fits
    <3>2. PICK x \in fits : \A y \in fits : x <= y
      BY <1>5, <3>1, LeastNumber
    <3> QED BY <3>2 DEF Pdf!Min
  <2>2. first \in DOMAIN rows /\ Pdf!SameLine(f, old) /\ old \in Row /\ RowFits(old)
    BY <1>2, <2>1
  <2>3. new = [rows EXCEPT ![first] = joined]
    BY <1>3, <1>5
  <2>4. joined \in Row /\ RowFits(joined)
    BY <1>1, <2>2, JoinedRow
  <2>5. joined.parts = Append(old.parts, f)
    OBVIOUS
  <2> HIDE DEF joined, new, fits, first
  <2>6. /\ new \in Seq(Row) /\ DOMAIN new = DOMAIN rows
        /\ \A r \in DOMAIN rows : r # first => new[r] = rows[r]
        /\ new[first] = joined
    <3>1. new \in Seq(Row)
      BY <1>2, <2>2, <2>3, <2>4, ExceptSeq
    <3> QED BY <1>2, <2>2, <2>3, <3>1
  <2>7. old.parts \in Seq(Upright)
    BY <2>2 DEF Row
  <2>8. /\ m \in Nat /\ DOMAIN old.parts = 1 .. m
        /\ DOMAIN new[first].parts = 1 .. m + 1
        /\ \A k \in 1 .. m : new[first].parts[k] = old.parts[k]
        /\ new[first].parts[m + 1] = frags[n]
    <3>1. new[first].parts = Append(old.parts, f)
      BY <2>5, <2>6
    <3> HIDE DEF old, f
    <3>2. m \in Nat /\ DOMAIN old.parts = 1 .. m
      BY <2>7, LenProperties
    <3>3. Append(old.parts, f) \in Seq(Upright) /\ Len(Append(old.parts, f)) = m + 1
      BY <1>1, <2>7, AppendProperties
    <3>4. DOMAIN Append(old.parts, f) = 1 .. m + 1
      BY <3>3, LenProperties
    <3>5. (\A k \in 1 .. m : Append(old.parts, f)[k] = old.parts[k]) /\ Append(old.parts, f)[m + 1] = f
      BY <1>1, <2>7, AppendProperties
    <3> QED BY <3>1, <3>2, <3>4, <3>5 DEF f
  <2>9. \A i \in 1 .. n - 1 : frags[i] # frags[n]
    BY <1>1
  <2> HIDE DEF f, m
  <2>10. DOMAIN new = DOMAIN rows \cup {first} /\ first \in DOMAIN new
    BY <2>2, <2>6
  <2>11. Once(new, frags, n)
    <3>1. /\ first \in DOMAIN rows => DOMAIN rows[first].parts = 1 .. m
          /\ first \notin DOMAIN rows => m = 0
          /\ \A k \in 1 .. m : new[first].parts[k] = rows[first].parts[k]
      BY <2>2, <2>8
    <3> HIDE DEF old
    <3>2. Grown(rows, new, first, m, frags[n])
      BY <2>6, <2>8, <2>10, <3>1 DEF Grown
    <3> QED BY <1>1, <1>2, <2>9, <3>2, FragmentAdded
  <2>12. \A r \in DOMAIN new : RowFits(new[r])
    BY <1>2, <2>4, <2>6
  <2> QED BY <2>6, <2>11, <2>12 DEF RowsInv, new, f
<1> QED BY <1>4, <1>5

\* The rows are in order at the end of the loop.
LEMMA RowsAreKept ==
  ASSUME NEW frags \in Seq(Upright), \A i, j \in DOMAIN frags : frags[i] = frags[j] => i = j
  PROVE  RowsInv(Pdf!RowsOf(frags), frags, Len(frags))
<1> DEFINE N == Len(frags)
           X == [n \in 0 .. N |-> {rows \in Seq(Row) : RowsInv(rows, frags, n)}]
           step == [n \in 1 .. N |-> [rows \in Seq(Row) |-> Pdf!PlaceFragment(rows, frags[n])]]
           Is(g) == g = [n \in 0 .. N |-> IF n = 0 THEN <<>> ELSE Pdf!PlaceFragment(g[n - 1], frags[n])]
           all == CHOOSE g : Is(g)
<1> DEFINE b == <<>>
<1>1. N \in Nat
  BY LenProperties
<1>2. b \in X[0]
  <2>1. b \in Seq(Row) /\ DOMAIN b = {}
    OBVIOUS
  <2> HIDE DEF b, N
  <2>2. 1 .. 0 = {}
    OBVIOUS
  <2>3. RowsInv(b, frags, 0)
    BY <2>1, <2>2 DEF RowsInv, Once
  <2> QED BY <1>1, <2>1, <2>3
<1>3. ASSUME NEW n \in 1 .. N, NEW rows \in X[n - 1]
      PROVE  /\ rows \in Seq(Row) /\ step[n][rows] = Pdf!PlaceFragment(rows, frags[n])
             /\ Pdf!PlaceFragment(rows, frags[n]) \in X[n]
  <2>1. n - 1 \in 0 .. N /\ n \in 0 .. N
    BY <1>1
  <2>2. rows \in Seq(Row) /\ RowsInv(rows, frags, n - 1)
    BY <2>1
  <2>3. RowsInv(Pdf!PlaceFragment(rows, frags[n]), frags, n)
    BY <2>2, FragmentIsPlaced
  <2>4. Pdf!PlaceFragment(rows, frags[n]) \in Seq(Row)
    BY <2>3 DEF RowsInv
  <2> HIDE DEF N
  <2> QED BY <2>1, <2>2, <2>3, <2>4
<1> HIDE DEF step, X
<1>4. PICK f : Steps(f, N, b, step, X)
  <2>1. \A n \in 1 .. N : \A x \in X[n - 1] : step[n][x] \in X[n]
    BY <1>3
  <2> HIDE DEF b
  <2> QED BY <1>1, <1>2, <2>1, Iteration
<1>8. Pdf!RowsOf(frags) = all[N]
  BY DEF Pdf!RowsOf
<1> HIDE DEF N, b
<1>5. /\ f = [n \in 0 .. N |-> f[n]]
      /\ f[0] = b
      /\ \A n \in 1 .. N : f[n] = step[n][f[n - 1]]
      /\ \A n \in 0 .. N : f[n] \in X[n]
  BY <1>4 DEF Steps
<1>6. Is(f)
  <2>1. ASSUME NEW n \in 0 .. N
        PROVE  f[n] = IF n = 0 THEN b ELSE Pdf!PlaceFragment(f[n - 1], frags[n])
    <3>1. CASE n = 0
      BY <1>5, <3>1
    <3>2. CASE n # 0
      <4>1. n \in 1 .. N /\ n - 1 \in 0 .. N
        BY <1>1, <3>2
      <4> QED BY <1>3, <1>5, <3>2, <4>1
    <3> QED BY <3>1, <3>2
  <2> QED BY <1>5, <2>1 DEF b
<1>7. Is(all)
  <2> HIDE DEF Is
  <2> QED BY <1>6
<1> HIDE DEF all
<1>9. \A n \in 0 .. N : all[n] \in X[n]
  <2>1. all[0] = b /\ \A n \in 1 .. N : all[n] = Pdf!PlaceFragment(all[n - 1], frags[n])
    <3>1. \A n \in 1 .. N : n \in 0 .. N /\ n # 0
      BY <1>1
    <3>2. 0 \in 0 .. N
      BY <1>1
    <3> QED BY <1>7, <3>1, <3>2 DEF b
  <2>2. \A n \in 1 .. N : (all[n - 1] \in X[n - 1]) => (all[n] \in X[n])
    BY <2>1, <1>3
  <2> HIDE DEF Is
  <2> QED BY <1>1, <1>2, <2>1, <2>2, Induction
<1>10. all[N] \in X[N] /\ N \in 0 .. N
  BY <1>1, <1>9
<1>11. RowsInv(all[N], frags, N)
  BY <1>10 DEF X
<1> HIDE DEF Is
<1> QED BY <1>8, <1>11 DEF N

\* The least of a set of numbers.
LEMMA LeastIs ==
  ASSUME NEW S \in SUBSET Int, NEW m \in S, \A x \in S : m <= x
  PROVE  Min(S) = m
<1>1. \A x \in S : (\A y \in S : x <= y) => x = m
  OBVIOUS
<1> QED BY <1>1 DEF Min

\* The greatest of a set of numbers.
LEMMA GreatestIs ==
  ASSUME NEW S \in SUBSET Int, NEW m \in S, \A x \in S : m >= x
  PROVE  Max(S) = m
<1>1. \A x \in S : (\A y \in S : x >= y) => x = m
  OBVIOUS
<1> QED BY <1>1 DEF Max

\* The keys to sort by.
LEMMA ColumnIs ==
  ASSUME NEW seq
  PROVE  \A i \in DOMAIN seq : /\ Pdf!Column(seq, "left")[i] = seq[i].left
                               /\ Pdf!Column(seq, "top")[i] = seq[i].top
BY DEF Pdf!Column

\* The line holds the parts in another order.
Arranged(s, line, parts) ==
  Shuffles(s, Len(parts)) /\ line = [k \in 1 .. Len(parts) |-> parts[s[k]]]

\* A line is the row, shuffled, from left to right.
LEMMA LineOf ==
  ASSUME NEW parts \in Seq(Upright)
  PROVE  LET line == Pdf!SortedBy(parts, Pdf!Column(parts, "left"), Pdf!Column(parts, "top"))
         IN  /\ \E s : Arranged(s, line, parts)
             /\ \A k, l \in DOMAIN line : k < l => line[k].left <= line[l].left
<1> DEFINE left == Pdf!Column(parts, "left")
           top == Pdf!Column(parts, "top")
           line == Pdf!SortedBy(parts, left, top)
           N == Len(parts)
<1>1. N \in Nat /\ DOMAIN parts = 1 .. N
  BY LenProperties
<1>2. \A i \in 1 .. N : left[i] = parts[i].left /\ top[i] = parts[i].top
  BY <1>1, ColumnIs
<1>3. \A i \in 1 .. N : parts[i].left \in Int /\ parts[i].top \in Int
  <2>1. \A i \in 1 .. N : parts[i] \in Upright
    BY <1>1, ElementOfSeq
  <2> QED BY <2>1 DEF Upright
<1> HIDE DEF left, top, N
<1>4a. PICK s : Sorting(s, N, parts, left, line)
  <2>1. \A i \in 1 .. N : left[i] \in Int /\ top[i] \in Int
    BY <1>2, <1>3
  <2> QED BY <1>1, <2>1, SortedIs
<1> HIDE DEF line
<1>4. Shuffles(s, N) /\ Sorts(s, N, left) /\ line = [k \in 1 .. N |-> parts[s[k]]]
  BY <1>4a DEF Sorting
<1>5. ASSUME NEW k \in DOMAIN line, NEW l \in DOMAIN line, k < l
      PROVE  line[k].left <= line[l].left
  <2>1. k \in 1 .. N /\ l \in 1 .. N /\ s[k] \in 1 .. N /\ s[l] \in 1 .. N
    BY <1>4 DEF Shuffles
  <2>2. left[s[k]] <= left[s[l]]
    BY <1>4, <1>5, <2>1 DEF Sorts
  <2> QED BY <1>2, <1>4, <2>1, <2>2
<1>6. Arranged(s, line, parts)
  BY <1>4 DEF Arranged, N
<1> QED BY <1>5, <1>6 DEF line, left, top

\* No height between the first top and the last bottom of a line is free.
LEMMA LineIsBand ==
  ASSUME NEW row \in Row, RowFits(row), NEW line, NEW s, Shuffles(s, Len(row.parts)),
         line = [k \in 1 .. Len(row.parts) |-> row.parts[s[k]]]
  PROVE  \A y \in Min({f.top : f \in Range(line)}) + 1 .. Max({f.bottom : f \in Range(line)}) - 1 :
            \E f \in Range(line) : f.top < y /\ y < f.bottom
<1> DEFINE N == Len(row.parts)
           parts == row.parts
<1>1. /\ row.top \in Int /\ row.bottom \in Int
      /\ DOMAIN parts = 1 .. N /\ \A k \in 1 .. N : parts[k].top \in Int /\ parts[k].bottom \in Int
  <2>1. parts \in Seq(Upright) /\ row.top \in Int /\ row.bottom \in Int
    BY DEF Row
  <2>2. DOMAIN parts = 1 .. N /\ \A k \in 1 .. N : parts[k] \in Upright
    BY <2>1, LenProperties, ElementOfSeq
  <2> QED BY <2>1, <2>2 DEF Upright
<1>2. Range(line) = {parts[k] : k \in 1 .. N}
  <2>1. DOMAIN line = 1 .. N /\ \A k \in 1 .. N : s[k] \in 1 .. N /\ line[k] = parts[s[k]]
    BY DEF Shuffles
  <2>2. Range(line) = {line[k] : k \in 1 .. N}
    BY <2>1 DEF Range
  <2>3. \A i \in 1 .. N : \E k \in 1 .. N : line[k] = parts[i]
    BY <2>1 DEF Shuffles
  <2> HIDE DEF N, parts
  <2>4. {line[k] : k \in 1 .. N} \subseteq {parts[k] : k \in 1 .. N}
    BY <2>1
  <2>5. {parts[k] : k \in 1 .. N} \subseteq {line[k] : k \in 1 .. N}
    <3> SUFFICES ASSUME NEW i \in 1 .. N PROVE parts[i] \in {line[k] : k \in 1 .. N}
      OBVIOUS
    <3>1. PICK k \in 1 .. N : line[k] = parts[i]
      BY <2>3
    <3> QED BY <3>1
  <2> QED BY <2>2, <2>4, <2>5
<1> HIDE DEF N, parts
<1>3. /\ \A k \in 1 .. N : row.top <= parts[k].top /\ parts[k].bottom <= row.bottom
      /\ \E k \in 1 .. N : parts[k].top = row.top
      /\ \E k \in 1 .. N : parts[k].bottom = row.bottom
      /\ \A y \in Int : (row.top < y /\ y < row.bottom)
             => (\E k \in 1 .. N : parts[k].top < y /\ y < parts[k].bottom)
  BY <1>1 DEF RowFits, Covered, parts, N
<1>4. Min({f.top : f \in Range(line)}) = row.top
  <2> DEFINE S == {f.top : f \in Range(line)}
  <2>1. S \in SUBSET Int /\ row.top \in S /\ \A x \in S : row.top <= x
    BY <1>1, <1>2, <1>3
  <2> HIDE DEF S
  <2> QED BY <2>1, LeastIs DEF S
<1>5. Max({f.bottom : f \in Range(line)}) = row.bottom
  <2> DEFINE S == {f.bottom : f \in Range(line)}
  <2>1. S \in SUBSET Int /\ row.bottom \in S /\ \A x \in S : row.bottom >= x
    BY <1>1, <1>2, <1>3
  <2> HIDE DEF S
  <2> QED BY <2>1, GreatestIs DEF S
<1>6. \A y \in row.top + 1 .. row.bottom - 1 :
         \E k \in 1 .. N : parts[k].top < y /\ y < parts[k].bottom
  BY <1>1, <1>3
<1>7. \A y \in row.top + 1 .. row.bottom - 1 :
         \E f \in Range(line) : f.top < y /\ y < f.bottom
  BY <1>2, <1>6
<1> QED BY <1>4, <1>5, <1>7

\* Of any fragments with a height: the lines hold each of them once and nothing
\* else, from left to right, and no line can be cut between its fragments.
THEOREM LinesHoldEachFragment ==
  ASSUME NEW frags \in Seq(Upright), \A i, j \in DOMAIN frags : frags[i] = frags[j] => i = j
  PROVE  LET lines == Pdf!GroupVisualLines(frags)
         IN  /\ \A i \in DOMAIN frags : \E r \in DOMAIN lines : \E k \in DOMAIN lines[r] :
                   lines[r][k] = frags[i]
             /\ \A r, s \in DOMAIN lines : \A k \in DOMAIN lines[r] : \A l \in DOMAIN lines[s] :
                   lines[r][k] = lines[s][l] => s = r /\ l = k
             /\ \A r \in DOMAIN lines : \A k \in DOMAIN lines[r] :
                   \E i \in DOMAIN frags : lines[r][k] = frags[i]
             /\ \A r \in DOMAIN lines :
                   /\ \A i, j \in DOMAIN lines[r] : i < j => lines[r][i].left <= lines[r][j].left
                   /\ \A y \in Min({f.top : f \in Range(lines[r])}) + 1
                            .. Max({f.bottom : f \in Range(lines[r])}) - 1 :
                         \E f \in Range(lines[r]) : f.top < y /\ y < f.bottom
<1> DEFINE N == Len(frags)
           middle == [i \in DOMAIN frags |-> frags[i].top + frags[i].bottom]
           left == Pdf!Column(frags, "left")
           order == Pdf!SortedBy(frags, middle, left)
           rows == Pdf!RowsOf(order)
           R == Len(rows)
           tops == Pdf!Column(rows, "top")
           lefts == Pdf!Column(rows, "left")
           down == Pdf!SortedBy(rows, tops, lefts)
           line(parts) == Pdf!SortedBy(parts, Pdf!Column(parts, "left"), Pdf!Column(parts, "top"))
           lines == Pdf!GroupVisualLines(frags)
<1>1. lines = [r \in DOMAIN down |-> line(down[r].parts)]
  BY DEF Pdf!GroupVisualLines
<1>2. /\ N \in Nat /\ DOMAIN frags = 1 .. N
      /\ \A i \in 1 .. N : /\ frags[i] \in Upright /\ frags[i].top \in Int
                           /\ frags[i].bottom \in Int /\ frags[i].left \in Int
  <2>1. N \in Nat /\ DOMAIN frags = 1 .. N /\ \A i \in 1 .. N : frags[i] \in Upright
    BY LenProperties, ElementOfSeq
  <2> QED BY <2>1 DEF Upright
<1>3. \A i \in 1 .. N : middle[i] \in Int /\ left[i] \in Int
  <2>1. \A i \in 1 .. N : left[i] = frags[i].left
    BY <1>2, ColumnIs
  <2> HIDE DEF left
  <2> QED BY <1>2, <2>1
<1> HIDE DEF lines, line, N, middle, left
<1>4. PICK s : Sorting(s, N, frags, middle, order)
  BY <1>2, <1>3, SortedIs
<1> HIDE DEF order
<1>5. Shuffles(s, N) /\ order = [k \in 1 .. N |-> frags[s[k]]]
  BY <1>4 DEF Sorting
<1>6. /\ order \in Seq(Upright) /\ Len(order) = N /\ DOMAIN order = 1 .. N
      /\ \A i, j \in DOMAIN order : order[i] = order[j] => i = j
  <2>1. \A k \in 1 .. N : s[k] \in 1 .. N /\ order[k] = frags[s[k]] /\ order[k] \in Upright
    BY <1>2, <1>5 DEF Shuffles
  <2>2. order \in Seq(Upright) /\ Len(order) = N
    <3>1. order \in [1 .. N -> Upright]
      BY <1>5, <2>1
    <3>2. order \in Seq(Upright)
      BY <1>2, <3>1, SeqDef
    <3>3. 1 .. Len(order) = 1 .. N /\ Len(order) \in Nat
      BY <3>1, <3>2, LenProperties
    <3> QED BY <1>2, <3>2, <3>3
  <2>3. DOMAIN order = 1 .. N
    BY <1>5
  <2>4. \A i, j \in 1 .. N : order[i] = order[j] => i = j
    <3> SUFFICES ASSUME NEW i \in 1 .. N, NEW j \in 1 .. N, order[i] = order[j] PROVE i = j
      OBVIOUS
    <3>1. s[i] = s[j]
      BY <1>2, <2>1
    <3> QED BY <1>5, <3>1 DEF Shuffles
  <2> QED BY <2>2, <2>3, <2>4
<1>7. RowsInv(rows, order, N)
  BY <1>6, RowsAreKept
<1> HIDE DEF rows
<1>8. /\ rows \in Seq(Row) /\ \A r \in DOMAIN rows : RowFits(rows[r])
      /\ Once(rows, order, N)
  BY <1>7 DEF RowsInv
<1>9. /\ R \in Nat /\ DOMAIN rows = 1 .. R
      /\ \A r \in 1 .. R : /\ rows[r] \in Row /\ rows[r].top \in Int /\ rows[r].left \in Int
                           /\ rows[r].parts \in Seq(Upright)
  <2>1. R \in Nat /\ DOMAIN rows = 1 .. R /\ \A r \in 1 .. R : rows[r] \in Row
    BY <1>8, LenProperties, ElementOfSeq
  <2> QED BY <2>1 DEF Row
<1>10. \A r \in 1 .. R : tops[r] \in Int /\ lefts[r] \in Int
  <2>1. \A r \in 1 .. R : tops[r] = rows[r].top /\ lefts[r] = rows[r].left
    BY <1>9, ColumnIs
  <2> HIDE DEF tops, lefts
  <2> QED BY <1>9, <2>1
<1> HIDE DEF tops, lefts, R
<1>11. PICK d : Sorting(d, R, rows, tops, down)
  BY <1>9, <1>10, SortedIs
<1> HIDE DEF down
<1>12. Shuffles(d, R) /\ down = [r \in 1 .. R |-> rows[d[r]]]
  BY <1>11 DEF Sorting
<1>13. /\ DOMAIN lines = 1 .. R
       /\ \A r \in 1 .. R : /\ d[r] \in 1 .. R /\ down[r] = rows[d[r]]
                            /\ lines[r] = line(rows[d[r]].parts)
  <2>1. DOMAIN down = 1 .. R /\ \A r \in 1 .. R : d[r] \in 1 .. R /\ down[r] = rows[d[r]]
    BY <1>12 DEF Shuffles
  <2> QED BY <1>1, <2>1
<1> DEFINE P(r) == rows[d[r]].parts
           m(r) == Len(P(r))
           Kept(r, t) == Arranged(t, lines[r], P(r))
<1>14. ASSUME NEW r \in 1 .. R
       PROVE  /\ \E t : Kept(r, t)
              /\ \A k, l \in DOMAIN lines[r] : k < l => lines[r][k].left <= lines[r][l].left
              /\ m(r) \in Nat /\ DOMAIN P(r) = 1 .. m(r)
  <2>1. P(r) \in Seq(Upright) /\ lines[r] = line(P(r))
    BY <1>9, <1>13
  <2>2. m(r) \in Nat /\ DOMAIN P(r) = 1 .. m(r)
    BY <2>1, LenProperties
  <2> DEFINE parts == P(r)
  <2>3. parts \in Seq(Upright) /\ lines[r] = line(parts)
    BY <2>1
  <2> HIDE DEF parts
  <2>4. \E t : Arranged(t, lines[r], parts)
    BY <2>3, LineOf DEF line
  <2>5. \A k, l \in DOMAIN lines[r] : k < l => lines[r][k].left <= lines[r][l].left
    BY <2>3, LineOf DEF line
  <2> QED BY <2>2, <2>4, <2>5 DEF parts
<1> DEFINE t(r) == CHOOSE u : Kept(r, u)
<1>15. \A r \in 1 .. R : Kept(r, t(r))
  BY <1>14
<1> HIDE DEF t, Kept
<1>16. ASSUME NEW r \in 1 .. R
       PROVE  /\ DOMAIN lines[r] = 1 .. m(r)
              /\ \A k \in 1 .. m(r) : t(r)[k] \in 1 .. m(r) /\ lines[r][k] = P(r)[t(r)[k]]
              /\ \A k, l \in 1 .. m(r) : t(r)[k] = t(r)[l] => k = l
              /\ \A i \in 1 .. m(r) : \E k \in 1 .. m(r) : t(r)[k] = i
  <2>1. Shuffles(t(r), m(r)) /\ lines[r] = [k \in 1 .. m(r) |-> P(r)[t(r)[k]]]
    BY <1>15 DEF Kept, Arranged
  <2> HIDE DEF P, m
  <2> QED BY <2>1 DEF Shuffles
<1>17. ASSUME NEW i \in DOMAIN frags
       PROVE  \E r \in DOMAIN lines : \E k \in DOMAIN lines[r] : lines[r][k] = frags[i]
  <2>1. PICK j \in 1 .. N : s[j] = i
    BY <1>2, <1>5 DEF Shuffles
  <2>2. order[j] = frags[i]
    BY <1>5, <2>1
  <2>0. PICK q \in 1 .. R : \E p \in DOMAIN rows[q].parts : rows[q].parts[p] = order[j]
    BY <1>8, <1>9 DEF Once
  <2>3. PICK p \in DOMAIN rows[q].parts : rows[q].parts[p] = order[j]
    BY <2>0
  <2>4. PICK r \in 1 .. R : d[r] = q
    BY <1>12 DEF Shuffles
  <2>5. p \in 1 .. m(r) /\ P(r)[p] = frags[i]
    BY <1>14, <2>2, <2>3, <2>4
  <2> HIDE DEF P, m
  <2>6. PICK k \in 1 .. m(r) : t(r)[k] = p
    BY <1>16, <2>5
  <2>7. k \in DOMAIN lines[r] /\ lines[r][k] = frags[i]
    BY <1>16, <2>5, <2>6
  <2> QED BY <1>13, <2>7
<1>18. ASSUME NEW r \in DOMAIN lines, NEW k \in DOMAIN lines[r],
              NEW q \in DOMAIN lines, NEW l \in DOMAIN lines[q], lines[r][k] = lines[q][l]
       PROVE  q = r /\ l = k
  <2>1. r \in 1 .. R /\ q \in 1 .. R
    BY <1>13
  <2>2. /\ k \in 1 .. m(r) /\ t(r)[k] \in DOMAIN P(r) /\ lines[r][k] = P(r)[t(r)[k]]
        /\ l \in 1 .. m(q) /\ t(q)[l] \in DOMAIN P(q) /\ lines[q][l] = P(q)[t(q)[l]]
    <3> HIDE DEF P, m
    <3>1. DOMAIN P(r) = 1 .. m(r)
      BY <1>14, <2>1
    <3>2. k \in 1 .. m(r)
      BY <1>16, <2>1
    <3>3. t(r)[k] \in 1 .. m(r) /\ lines[r][k] = P(r)[t(r)[k]]
      BY <1>16, <2>1, <3>2
    <3>4. DOMAIN P(q) = 1 .. m(q)
      BY <1>14, <2>1
    <3>5. l \in 1 .. m(q)
      BY <1>16, <2>1
    <3>6. t(q)[l] \in 1 .. m(q) /\ lines[q][l] = P(q)[t(q)[l]]
      BY <1>16, <2>1, <3>5
    <3> QED BY <3>1, <3>2, <3>3, <3>4, <3>5, <3>6
  <2>3. d[r] \in DOMAIN rows /\ d[q] \in DOMAIN rows
    BY <1>9, <1>13, <2>1
  <2>4. d[r] = d[q] /\ t(r)[k] = t(q)[l]
    <3> DEFINE a == d[r]
               b == d[q]
               x == t(r)[k]
               y == t(q)[l]
    <3>1. /\ a \in DOMAIN rows /\ b \in DOMAIN rows
          /\ x \in DOMAIN rows[a].parts /\ y \in DOMAIN rows[b].parts
          /\ rows[a].parts[x] = rows[b].parts[y]
      BY <1>18, <2>2, <2>3
    <3> HIDE DEF a, b, x, y
    <3>2. a = b /\ x = y
      BY <1>8, <3>1 DEF Once
    <3> QED BY <3>2 DEF a, b, x, y
  <2>5. r = q
    BY <1>12, <2>1, <2>4 DEF Shuffles
  <2> HIDE DEF P, m
  <2> QED BY <1>16, <2>1, <2>2, <2>4, <2>5
<1>19. ASSUME NEW r \in DOMAIN lines, NEW k \in DOMAIN lines[r]
       PROVE  \E i \in DOMAIN frags : lines[r][k] = frags[i]
  <2>1. r \in 1 .. R /\ d[r] \in DOMAIN rows
    BY <1>9, <1>13
  <2>2. t(r)[k] \in DOMAIN P(r) /\ lines[r][k] = P(r)[t(r)[k]]
    <3> HIDE DEF P, m
    <3>1. DOMAIN P(r) = 1 .. m(r)
      BY <1>14, <2>1
    <3>2. k \in 1 .. m(r)
      BY <1>16, <2>1
    <3>3. t(r)[k] \in 1 .. m(r) /\ lines[r][k] = P(r)[t(r)[k]]
      BY <1>16, <2>1, <3>2
    <3> QED BY <3>1, <3>2, <3>3
  <2>3. PICK j \in 1 .. N : P(r)[t(r)[k]] = order[j]
    BY <1>8, <2>1, <2>2 DEF Once
  <2>4. order[j] = frags[s[j]] /\ s[j] \in 1 .. N
    BY <1>5 DEF Shuffles
  <2> QED BY <1>2, <2>2, <2>3, <2>4
<1>20. ASSUME NEW r \in DOMAIN lines
       PROVE  /\ \A i, j \in DOMAIN lines[r] : i < j => lines[r][i].left <= lines[r][j].left
              /\ \A y \in Min({f.top : f \in Range(lines[r])}) + 1
                           .. Max({f.bottom : f \in Range(lines[r])}) - 1 :
                    \E f \in Range(lines[r]) : f.top < y /\ y < f.bottom
  <2>1. r \in 1 .. R /\ rows[d[r]] \in Row /\ RowFits(rows[d[r]])
    BY <1>8, <1>9, <1>13
  <2>2. Shuffles(t(r), Len(rows[d[r]].parts))
        /\ lines[r] = [k \in 1 .. Len(rows[d[r]].parts) |-> rows[d[r]].parts[t(r)[k]]]
    BY <1>15, <2>1 DEF Kept, Arranged
  <2> DEFINE row == rows[d[r]]
             u == t(r)
  <2>3. row \in Row /\ RowFits(row) /\ Shuffles(u, Len(row.parts))
        /\ lines[r] = [k \in 1 .. Len(row.parts) |-> row.parts[u[k]]]
    BY <2>1, <2>2
  <2> HIDE DEF row, u
  <2>4. \A y \in Min({f.top : f \in Range(lines[r])}) + 1
                .. Max({f.bottom : f \in Range(lines[r])}) - 1 :
           \E f \in Range(lines[r]) : f.top < y /\ y < f.bottom
    BY <2>3, LineIsBand
  <2> QED BY <1>14, <2>1, <2>4
<1> QED BY <1>17, <1>18, <1>19, <1>20 DEF lines

-----------------------------------------------------------------------------
(* What was not read is not judged.                                        *)
\* Where a fragment is on its page.
Box == {b \in [top : Int, bottom : Int, left : Int] : b.top < b.bottom}

\* The fragments that the run writes have a height.
LEMMA BoxesWritten == FragmentBox \subseteq Box
BY DEF FragmentBox, Box

\* The PDF pages that the run writes are pages.
LEMMA PagesWritten == PdfPage \subseteq PageRead
<1>1. Image(70, TRUE) \in Pictured /\ Image(55, FALSE) \in Pictured
  BY DEF Image, Pictured
<1>2. {<<>>, <<Image(70, TRUE)>>, <<Image(55, FALSE)>>} \subseteq Seq(Pictured)
  <2>1. <<>> \in Seq(Pictured) /\ \A i \in Pictured : <<i>> \in Seq(Pictured)
    BY EmptySeq
  <2> QED BY <1>1, <2>1
<1>3. Pdf!Raises \in Int
  BY DEF Pdf!Raises
<1> DEFINE images == {<<>>, <<Image(70, TRUE)>>, <<Image(55, FALSE)>>}
<1>4. PdfPage = [chars : {0, 10, 100, 300}, images : images, ocr : {Pdf!Raises, 10, 300}, table_fails : {FALSE}]
                \cup [chars : {300}, images : {<<>>}, ocr : {10}, table_fails : {TRUE}]
  BY Zenon DEF PdfPage
<1>5. images \subseteq Seq(Pictured) /\ <<>> \in Seq(Pictured)
  BY <1>2
<1> HIDE DEF images
<1> SUFFICES ASSUME NEW page \in PdfPage PROVE page \in PageRead
  OBVIOUS
<1>6. CASE page \in [chars : {0, 10, 100, 300}, images : images, ocr : {Pdf!Raises, 10, 300},
                     table_fails : {FALSE}]
  <2>1. /\ page = [chars |-> page.chars, images |-> page.images, ocr |-> page.ocr,
                    table_fails |-> page.table_fails]
        /\ page.chars \in {0, 10, 100, 300} /\ page.images \in images
        /\ page.ocr \in {Pdf!Raises, 10, 300} /\ page.table_fails \in {FALSE}
    BY <1>6
  <2>2. page.chars \in Nat /\ page.ocr \in Int /\ page.table_fails \in BOOLEAN
    <3>1. page.chars \in Nat
      BY <2>1
    <3>2. page.ocr \in Int
      BY <1>3, <2>1
    <3>3. page.table_fails \in BOOLEAN
      BY <2>1, Zenon
    <3> QED BY <3>1, <3>2, <3>3
  <2>3. page.images \in Seq(Pictured)
    BY <1>5, <2>1
  <2> QED BY <2>1, <2>2, <2>3, Zenon DEF PageRead
<1>7. CASE page \in [chars : {300}, images : {<<>>}, ocr : {10}, table_fails : {TRUE}]
  <2>1. /\ page = [chars |-> page.chars, images |-> page.images, ocr |-> page.ocr,
                    table_fails |-> page.table_fails]
        /\ page.chars \in {300} /\ page.images \in {<<>>}
        /\ page.ocr \in {10} /\ page.table_fails \in {TRUE}
    BY <1>7
  <2>2. page.chars \in Nat /\ page.ocr \in Int /\ page.table_fails \in BOOLEAN
    <3>1. page.chars \in Nat
      BY <2>1
    <3>2. page.ocr \in Int
      BY <2>1
    <3>3. page.table_fails \in BOOLEAN
      BY <2>1, Zenon
    <3> QED BY <3>1, <3>2, <3>3
  <2>3. page.images \in Seq(Pictured)
    BY <1>5, <2>1
  <2> QED BY <2>1, <2>2, <2>3, Zenon DEF PageRead
<1> QED BY <1>4, <1>6, <1>7

\* The pages that the run writes were read completely or not.
LEMMA SeenWritten == \E T : SeenPage \subseteq AnyPage(T)
<1> DEFINE texts == {{}, {"r", "e"}, {"r", "e", "c"}, {"sign"}, {"sign", "seal"}}
           statuses == {"ok", "ocr_failed", "mixed_image_unread"}
<1>2. statuses \subseteq {"ok"} \cup IncompleteStatus
  BY DEF IncompleteStatus, UnreadStatus, UncertainStatus
<1>3. SeenPage = [status : statuses, text : texts]
  BY Zenon DEF SeenPage
<1> HIDE DEF texts, statuses
<1>4. SeenPage \subseteq AnyPage(texts)
  BY <1>2, <1>3 DEF AnyPage
<1> QED BY <1>4

\* LinesAreBands of any fragments with a height, as many as there are.
LEMMA BoxesAreBands ==
  ASSUME doc \in Seq(Box)
  PROVE  LinesAreBands
<1>1. DOMAIN doc = 1 .. Len(doc) /\ Len(doc) \in Nat /\ \A i \in 1 .. Len(doc) : doc[i] \in Box
  BY LenProperties, ElementOfSeq
<1>2. ASSUME NEW i \in DOMAIN doc
      PROVE  Fragments[i] \in Upright /\ Fragments[i].n = i
  <2>1. doc[i] \in Box /\ i \in Nat
    BY <1>1
  <2>2. Fragments[i] = [n |-> i, top |-> doc[i].top, bottom |-> doc[i].bottom, left |-> doc[i].left]
    BY DEF Fragments
  <2> QED BY <2>1, <2>2 DEF Box, Upright
<1>3. DOMAIN Fragments = DOMAIN doc /\ Fragments \in Seq(Upright)
  <2>1. Fragments \in [1 .. Len(doc) -> Upright]
    BY <1>1, <1>2 DEF Fragments
  <2> QED BY <1>1, <2>1, SeqDef
<1>4. \A i, j \in DOMAIN Fragments : Fragments[i] = Fragments[j] => i = j
  BY <1>2, <1>3
<1> DEFINE lines == Pdf!GroupVisualLines(Fragments)
<1>5. /\ \A i \in DOMAIN doc : \E r \in DOMAIN lines : \E k \in DOMAIN lines[r] :
            lines[r][k] = Fragments[i]
      /\ \A r, s \in DOMAIN lines : \A k \in DOMAIN lines[r] : \A l \in DOMAIN lines[s] :
            lines[r][k] = lines[s][l] => s = r /\ l = k
      /\ \A r \in DOMAIN lines : \A k \in DOMAIN lines[r] :
            \E i \in DOMAIN doc : lines[r][k] = Fragments[i]
      /\ \A r \in DOMAIN lines :
            /\ \A i, j \in DOMAIN lines[r] : i < j => lines[r][i].left <= lines[r][j].left
            /\ \A y \in Min({f.top : f \in Range(lines[r])}) + 1
                     .. Max({f.bottom : f \in Range(lines[r])}) - 1 :
                  \E f \in Range(lines[r]) : f.top < y /\ y < f.bottom
  <2> DEFINE frags == Fragments
  <2>1. frags \in Seq(Upright) /\ (\A i, j \in DOMAIN frags : frags[i] = frags[j] => i = j)
        /\ DOMAIN frags = DOMAIN doc
    BY <1>3, <1>4
  <2> HIDE DEF frags
  <2> QED BY <2>1, LinesHoldEachFragment DEF frags
<1> HIDE DEF lines
<1>6. \A i \in DOMAIN doc : \E r \in DOMAIN lines : \E k \in DOMAIN lines[r] :
         /\ lines[r][k] = Fragments[i]
         /\ \A s \in DOMAIN lines : \A l \in DOMAIN lines[s] :
               lines[s][l] = Fragments[i] => s = r /\ l = k
  <2> TAKE i \in DOMAIN doc
  <2>1. PICK r \in DOMAIN lines : \E k \in DOMAIN lines[r] : lines[r][k] = Fragments[i]
    BY <1>5
  <2>2. PICK k \in DOMAIN lines[r] : lines[r][k] = Fragments[i]
    BY <2>1
  <2>3. \A s \in DOMAIN lines : \A l \in DOMAIN lines[s] :
           lines[s][l] = Fragments[i] => s = r /\ l = k
    BY <1>5, <2>2
  <2> QED BY <2>2, <2>3
<1> QED BY <1>5, <1>6 DEF LinesAreBands, lines

\* UnreadNeverPasses and OcrKeepsItsLimit of any pages, as many as there are.
LEMMA UnreadIsStopped ==
  ASSUME doc \in Seq(PageRead)
  PROVE  UnreadNeverPasses /\ OcrKeepsItsLimit
<1>1. UnreadNeverPasses
  <2> SUFFICES ASSUME NEW enabled \in BOOLEAN, NEW limit \in 0 .. 2,
                      Pdf!SaysPass(Pdf!Parse(doc, enabled, limit)), NEW p \in DOMAIN doc
               PROVE  /\ ~doc[p].table_fails
                      /\ \/ ~Pictures(doc[p]) /\ ~Blank(doc[p])
                            /\ (~Doubtful(doc[p]) \/ SparseText(doc[p]))
                         \/ /\ p \in Pdf!Parse(doc, enabled, limit).ocr_pages
                            /\ doc[p].ocr >= Pdf!OcrMinPageChars
    BY DEF UnreadNeverPasses, Readings
  <2>1. limit \in Nat
    OBVIOUS
  <2> QED BY <2>1, UnreadIsNotPassed
<1>2. OcrKeepsItsLimit
  <2>1. \A limit \in 0 .. 2 : limit \in Nat
    OBVIOUS
  <2> QED BY <2>1, OcrIsKeptWithin DEF OcrKeepsItsLimit
<1> QED BY <1>1, <1>2

\* What was not read is not judged, in every state of the computations.
THEOREM NothingUnreadIsEverJudged == Spec => []NothingUnreadIsJudged
<1>1. Init => Written
  BY WrittenStart
<1>2. Written /\ [Next]_vars => Written'
  BY WrittenKept
<1>3. Written => NothingUnreadIsJudged
  <2> SUFFICES ASSUME Written
               PROVE  NothingUnreadIsJudged
    OBVIOUS
  <2>1. UnreadNeverPasses /\ OcrKeepsItsLimit
    <3>1. CASE kind = "pages"
      <4>1. doc \in Seq(PdfPage)
        BY <3>1 DEF Written
      <4>2. doc \in Seq(PageRead)
        BY <4>1, PagesWritten, SeqMonotonic
      <4> QED BY <4>2, UnreadIsStopped
    <3>2. CASE kind # "pages"
      BY <3>2 DEF UnreadNeverPasses, OcrKeepsItsLimit
    <3> QED BY <3>1, <3>2
  <2>2. LinesAreBands
    <3>1. CASE kind = "lines"
      <4>1. doc \in Seq(FragmentBox)
        BY <3>1 DEF Written
      <4>2. doc \in Seq(Box)
        BY <4>1, BoxesWritten, SeqMonotonic
      <4> QED BY <4>2, BoxesAreBands
    <3>2. CASE kind # "lines"
      BY <3>2 DEF LinesAreBands
    <3> QED BY <3>1, <3>2
  <2>3. FaultsSurviveReading
    <3>1. CASE kind = "presence"
      <4>1. doc \in Seq(SeenPage)
        BY <3>1 DEF Written
      <4>2. PICK T : SeenPage \subseteq AnyPage(T)
        BY SeenWritten
      <4>3. doc \in Seq(AnyPage(T))
        BY <4>1, <4>2, SeqMonotonic
      <4> QED BY <4>3, SeenFaultsStand
    <3>2. CASE kind # "presence"
      BY <3>2 DEF FaultsSurviveReading
    <3> QED BY <3>1, <3>2
  <2> QED BY <2>1, <2>2, <2>3 DEF NothingUnreadIsJudged
<1> QED BY <1>1, <1>2, <1>3, PTL DEF Spec

-----------------------------------------------------------------------------
(* Structure, page numbers, and fields that must agree, of any document.    *)

\* p was found before q: on an earlier block, or on the same and expected first.
Prior(F, p, q) == F[p] < F[q] \/ (F[p] = F[q] /\ p < q)

\* Of titles that were found, one was found first.
LEMMA FirstOf ==
  ASSUME NEW S \in SUBSET Nat, NEW F \in [S -> Nat], NEW T \in SUBSET S, T # {}
  PROVE  \E q \in T : \A x \in T : x = q \/ Prior(F, q, x)
<1> DEFINE V == {F[x] : x \in T}
<1>1. PICK v \in V : \A y \in V : v <= y
  <2>1. V \in SUBSET Nat /\ V # {}
    OBVIOUS
  <2> HIDE DEF V
  <2> QED BY <2>1, LeastNumber
<1> DEFINE U == {x \in T : F[x] = v}
<1>2. PICK q \in U : \A y \in U : q <= y
  <2>1. U \in SUBSET Nat /\ U # {}
    OBVIOUS
  <2> HIDE DEF U, V
  <2> QED BY <2>1, LeastNumber
<1>3. ASSUME NEW x \in T, x # q
      PROVE  Prior(F, q, x)
  <2>1. F[q] = v /\ F[x] \in V /\ F[x] \in Nat /\ x \in Nat /\ q \in Nat /\ v \in Nat
    BY <1>2
  <2>2. F[x] = v => q <= x
    BY <1>2
  <2>3. v <= F[x]
    BY <1>1, <2>1
  <2> QED BY <1>3, <2>1, <2>2, <2>3 DEF Prior
<1> QED BY <1>2, <1>3

\* And one was found last.
LEMMA LastOf ==
  ASSUME NEW N \in Nat, NEW n \in Nat, NEW S \in SUBSET (1 .. N), NEW F \in [S -> 0 .. n],
         NEW T \in SUBSET S, T # {}
  PROVE  \E q \in T : \A x \in T : x = q \/ Prior(F, x, q)
<1> DEFINE V == {n - F[x] : x \in T}
<1>1. PICK v \in V : \A y \in V : v <= y
  <2>0. \A x \in T : n - F[x] \in Nat
    <3>1. \A x \in T : F[x] \in 0 .. n
      OBVIOUS
    <3> QED BY <3>1
  <2>1. V \in SUBSET Nat /\ V # {}
    BY <2>0
  <2> HIDE DEF V
  <2> QED BY <2>1, LeastNumber
<1>4. v \in Nat
  OBVIOUS
<1> DEFINE U == {x \in T : n - F[x] = v}
           W == {N - x : x \in U}
<1>2. PICK w \in W : \A y \in W : w <= y
  <2>1. W \in SUBSET Nat /\ W # {}
    OBVIOUS
  <2> HIDE DEF W, V
  <2> QED BY <2>1, LeastNumber
<1>5. PICK q \in U : w = N - q
  BY <1>2
<1>3. ASSUME NEW x \in T, x # q
      PROVE  Prior(F, x, q)
  <2>1. n - F[q] = v /\ n - F[x] \in V /\ F[x] \in Nat /\ F[q] \in Nat /\ x \in 1 .. N /\ q \in 1 .. N
    BY <1>5
  <2>2. F[x] = F[q] => N - q <= N - x
    BY <1>2, <1>5, <2>1
  <2>3. v <= n - F[x]
    BY <1>1, <2>1
  <2> QED BY <1>3, <1>4, <2>1, <2>2, <2>3 DEF Prior
<1> QED BY <1>5, <1>3

\* Of the titles found, those found after p, and the next of them.
Later(F, S, p) == {q \in S : q # p /\ Prior(F, p, q)}
Following(F, S, p) == {q \in Later(F, S, p) : Later(F, S, p) \ {q} = Later(F, S, q)}

\* The next title found is the first of those found after.
LEMMA FollowingIs ==
  ASSUME NEW S \in SUBSET Nat, NEW F \in [S -> Nat], NEW p \in S, NEW q \in Later(F, S, p)
  PROVE  q \in Following(F, S, p) <=> \A x \in Later(F, S, p) : x = q \/ Prior(F, q, x)
<1>1. q \in S /\ q # p /\ Prior(F, p, q) /\ \A x \in S : F[x] \in Nat /\ x \in Nat
  BY DEF Later
<1>2. Later(F, S, q) \subseteq Later(F, S, p) \ {q}
  <2>1. ASSUME NEW x \in S, x # q, Prior(F, q, x)
        PROVE  x # p /\ Prior(F, p, x)
    BY <1>1, <2>1 DEF Prior
  <2> QED BY <2>1 DEF Later
<1>3. ASSUME \A x \in Later(F, S, p) : x = q \/ Prior(F, q, x)
      PROVE  Later(F, S, p) \ {q} \subseteq Later(F, S, q)
  BY <1>3 DEF Later
<1>4. ASSUME q \in Following(F, S, p), NEW x \in Later(F, S, p), x # q
      PROVE  Prior(F, q, x)
  BY <1>4 DEF Following, Later
<1> QED BY <1>2, <1>3, <1>4 DEF Following

\* Where no title is followed by one that was expected before it, none is found
\* anywhere after one that was expected after it.
LEMMA NeighboursTell ==
  ASSUME NEW N \in Nat, NEW n \in Nat, NEW S \in SUBSET (1 .. N), NEW F \in [S -> 0 .. n],
         NEW p \in S, NEW q \in S, p < q, Prior(F, q, p)
  PROVE  \E x \in S : \E y \in Following(F, S, x) : y < x
<1> USE DEF Prior
<1>0. S \in SUBSET Nat /\ F \in [S -> Nat] /\ \A x \in S : F[x] \in Nat /\ x \in Nat
  OBVIOUS
<1> DEFINE T == {x \in S : x > p /\ Prior(F, x, p)}
<1>1. PICK x \in T : \A z \in T : z = x \/ Prior(F, z, x)
  <2>1. T \in SUBSET S /\ q \in T
    BY <1>0
  <2> HIDE DEF T, Prior
  <2> QED BY <2>1, LastOf
<1>2. p \in Later(F, S, x)
  BY <1>0 DEF Later
<1>3. PICK y \in Later(F, S, x) : \A z \in Later(F, S, x) : z = y \/ Prior(F, y, z)
  <2>1. Later(F, S, x) \in SUBSET S
    BY DEF Later
  <2> HIDE DEF Prior, T
  <2> QED BY <1>0, <1>2, <2>1, FirstOf
<1>4. y \in Following(F, S, x)
  <2> HIDE DEF Prior
  <2> QED BY <1>0, <1>3, FollowingIs
<1>5. y < x
  <2>1. y = p \/ Prior(F, y, p)
    BY <1>2, <1>3
  <2>2. y \in S /\ y # x /\ Prior(F, x, y)
    BY <1>3 DEF Later
  <2>3. y \notin T
    BY <1>0, <1>1, <2>2
  <2> QED BY <1>0, <1>1, <2>1, <2>2, <2>3
<1> QED BY <1>4, <1>5

\* The first level-1 heading that has a title.
LEMMA FoundAtIs ==
  ASSUME NEW B, NEW ir, ir.blocks \in Seq(B), NEW title
  PROVE  LET at == {i \in TopHeadings(ir) : title \in ir.blocks[i].text}
             f == FoundAt(ir, title)
         IN  /\ f \in 0 .. Len(ir.blocks)
             /\ f = 0 <=> at = {}
             /\ f # 0 => f \in at /\ \A k \in at : f <= k
<1> DEFINE at == {i \in TopHeadings(ir) : title \in ir.blocks[i].text}
<1>1. at \subseteq 1 .. Len(ir.blocks) /\ Len(ir.blocks) \in Nat
  BY LenProperties DEF TopHeadings, HeadingsOf, OfType
<1>2. FoundAt(ir, title) = IF at = {} THEN 0 ELSE Min(at)
  BY DEF FoundAt
<1> HIDE DEF at
<1>3. CASE at = {}
  BY <1>1, <1>2, <1>3 DEF at
<1>4. CASE at # {}
  <2>1. PICK m \in at : \A k \in at : m <= k
    BY <1>1, <1>4, LeastNumber
  <2>2. Min(at) = m
    BY <1>1, <2>1, LeastIs
  <2>3. FoundAt(ir, title) = m /\ m \in 1 .. Len(ir.blocks)
    BY <1>1, <1>2, <1>4, <2>1, <2>2
  <2> QED BY <1>1, <1>4, <2>1, <2>3 DEF at
<1> QED BY <1>3, <1>4

\* section_order, of any document and any expected order: it complains exactly
\* when a title first appears after a heading that has one of the titles expected
\* later, although it only compares neighbours.
THEOREM OrderIsReported ==
  ASSUME NEW B, NEW ir, ir.blocks \in Seq(B), NEW Title, NEW expected \in Seq(Title)
  PROVE  LET has(i, p) == i \in TopHeadings(ir) /\ expected[p] \in ir.blocks[i].text
         IN  SectionOrder(ir, expected) # {} <=>
                \E p, q \in DOMAIN expected, i, j \in DOMAIN ir.blocks :
                    /\ p < q /\ i < j /\ has(i, q) /\ has(j, p)
                    /\ \A k \in 1 .. j - 1 : ~has(k, p)
<1> DEFINE N == Len(expected)
           n == Len(ir.blocks)
           has(i, p) == i \in TopHeadings(ir) /\ expected[p] \in ir.blocks[i].text
           S == {p \in DOMAIN expected : FoundAt(ir, expected[p]) # 0}
           F == [p \in S |-> FoundAt(ir, expected[p])]
           wrong == {p \in S : \E q \in Following(F, S, p) : q < p}
           early == CHOOSE p \in wrong : \A w \in wrong \ {p} : Prior(F, p, w)
           Misplaced == \E p, q \in DOMAIN expected, i, j \in DOMAIN ir.blocks :
                           /\ p < q /\ i < j /\ has(i, q) /\ has(j, p)
                           /\ \A k \in 1 .. j - 1 : ~has(k, p)
<1>1. N \in Nat /\ n \in Nat /\ DOMAIN expected = 1 .. N /\ DOMAIN ir.blocks = 1 .. n
  BY LenProperties
<1>2. \A p \in 1 .. N : /\ FoundAt(ir, expected[p]) \in 0 .. n
                        /\ \A k : has(k, p) => FoundAt(ir, expected[p]) # 0 /\ FoundAt(ir, expected[p]) <= k
                        /\ FoundAt(ir, expected[p]) # 0 => has(FoundAt(ir, expected[p]), p)
  BY FoundAtIs
<1>3. /\ S \in SUBSET (1 .. N) /\ S \in SUBSET Nat
      /\ F \in [S -> 0 .. n] /\ F \in [S -> Nat]
      /\ \A p \in S : p \in Nat /\ F[p] \in 1 .. n /\ has(F[p], p) /\ \A k : has(k, p) => F[p] <= k
      /\ \A p \in 1 .. N : \A k : has(k, p) => p \in S
  BY <1>1, <1>2
<1>4. \A p, q \in S : FoundBefore(ir, expected, p, q) <=> Prior(F, p, q)
  BY <1>3 DEF FoundBefore, Prior
<1>5. SectionOrder(ir, expected) =
        IF wrong = {} THEN {} ELSE {Fault("order", expected[q]) : q \in Following(F, S, early)}
  <2> DEFINE after(p) == {q \in S : q # p /\ FoundBefore(ir, expected, p, q)}
             next(p) == {q \in after(p) : after(p) \ {q} = after(q)}
             wrong_ == {p \in S : \E q \in next(p) : q < p}
             early_ == CHOOSE p \in wrong_ : \A w \in wrong_ \ {p} : FoundBefore(ir, expected, p, w)
  <2>1. SectionOrder(ir, expected) =
          IF wrong_ = {} THEN {} ELSE {Fault("order", expected[q]) : q \in next(early_)}
    BY DEF SectionOrder
  <2> HIDE DEF S, F
  <2>2. \A p \in S : after(p) = Later(F, S, p)
    BY <1>4 DEF Later
  <2>3. \A p \in S : after(p) \subseteq S
    OBVIOUS
  <2> HIDE DEF after
  <2>4. \A p \in S : next(p) = Following(F, S, p)
    BY <2>2, <2>3 DEF Following
  <2> HIDE DEF next
  <2>5. wrong_ = wrong
    BY <2>4
  <2>6. \A p \in wrong : (\A w \in wrong \ {p} : FoundBefore(ir, expected, p, w))
                         <=> (\A w \in wrong \ {p} : Prior(F, p, w))
    BY <1>4
  <2>7. early_ = early
    BY <2>5, <2>6
  <2>8. CASE wrong = {}
    BY <2>1, <2>5, <2>8
  <2>9. CASE wrong # {}
    <3>1. PICK p \in wrong : \A w \in wrong : w = p \/ Prior(F, p, w)
      <4>1. wrong \in SUBSET S
        OBVIOUS
      <4> HIDE DEF wrong
      <4> QED BY <1>3, <2>9, <4>1, FirstOf
    <3>2. early \in wrong
      <4> HIDE DEF wrong
      <4> QED BY <3>1
    <3>3. next(early) = Following(F, S, early)
      BY <2>4, <3>2
    <3> QED BY <2>1, <2>5, <2>7, <2>9, <3>3
  <2> QED BY <2>8, <2>9
<1> HIDE DEF F
<1>6. ASSUME wrong # {}
      PROVE  Following(F, S, early) # {} /\ Misplaced
  <2>1. PICK p \in wrong : \A w \in wrong : w = p \/ Prior(F, p, w)
    <3>1. wrong \in SUBSET S
      OBVIOUS
    <3> HIDE DEF wrong, S
    <3> QED BY <1>3, <1>6, <3>1, FirstOf
  <2>2. early \in wrong
    <3> HIDE DEF wrong
    <3> QED BY <2>1
  <2>3. PICK q \in Following(F, S, p) : q < p
    OBVIOUS
  <2>4. p \in S /\ q \in S /\ Prior(F, p, q)
    BY DEF Following, Later
  <2>5. F[p] < F[q]
    BY <1>3, <2>3, <2>4 DEF Prior
  <2>6. \A k \in 1 .. F[q] - 1 : ~has(k, q)
    BY <1>3, <2>4
  <2>7. q \in 1 .. N /\ p \in 1 .. N /\ F[p] \in 1 .. n /\ F[q] \in 1 .. n /\ has(F[p], p) /\ has(F[q], q)
    BY <1>3, <2>4
  <2> HIDE DEF has, S
  <2>8. Misplaced
    BY <1>1, <2>3, <2>5, <2>6, <2>7
  <2> QED BY <2>2, <2>8
<1>7. ASSUME Misplaced
      PROVE  wrong # {}
  <2>1. PICK p \in 1 .. N, q \in 1 .. N, i \in 1 .. n, j \in 1 .. n :
                           /\ p < q /\ i < j /\ has(i, q) /\ has(j, p)
                           /\ \A k \in 1 .. j - 1 : ~has(k, p)
    BY <1>1, <1>7
  <2> HIDE DEF has
  <2>2. p \in S /\ q \in S
    BY <1>3, <2>1
  <2>3. F[p] = j
    BY <1>3, <2>1, <2>2
  <2>4. F[q] <= i
    BY <1>3, <2>1, <2>2
  <2>5. Prior(F, q, p)
    BY <1>3, <2>1, <2>2, <2>3, <2>4 DEF Prior
  <2> HIDE DEF S, n, N
  <2>6. \E x \in S : \E y \in Following(F, S, x) : y < x
    BY <1>1, <1>3, <2>1, <2>2, <2>5, NeighboursTell
  <2> QED BY <2>6
<1>8. SectionOrder(ir, expected) # {} <=> wrong # {}
  <2> HIDE DEF wrong, S, early
  <2>1. CASE wrong = {}
    BY <1>5, <2>1
  <2>2. CASE wrong # {}
    <3>1. PICK q : q \in Following(F, S, early)
      BY <1>6, <2>2
    <3>2. Fault("order", expected[q]) \in SectionOrder(ir, expected)
      BY <1>5, <2>2, <3>1
    <3> QED BY <2>2, <3>2
  <2> QED BY <2>1, <2>2
<1>9. SectionOrder(ir, expected) # {} <=> Misplaced
  <2> HIDE DEF wrong, Misplaced
  <2> QED BY <1>6, <1>7, <1>8
<1> QED BY <1>9

\* Of a bounded set of numbers one is the greatest.
LEMMA GreatestNumber ==
  ASSUME NEW n \in Nat, NEW S \in SUBSET (1 .. n), S # {}
  PROVE  Max(S) \in S /\ \A x \in S : x <= Max(S)
<1> DEFINE V == {n - x : x \in S}
<1>1. PICK v \in V : \A y \in V : v <= y
  <2>0. \A x \in S : n - x \in Nat
    <3>1. \A x \in S : x \in 1 .. n
      OBVIOUS
    <3> QED BY <3>1
  <2>1. V \in SUBSET Nat /\ V # {}
    BY <2>0
  <2> HIDE DEF V
  <2> QED BY <2>1, LeastNumber
<1>2. PICK m \in S : v = n - m
  BY <1>1
<1>3. \A x \in S : m >= x
  <2> SUFFICES ASSUME NEW x \in S PROVE m >= x
    OBVIOUS
  <2>1. n - x \in V
    OBVIOUS
  <2>2. n - m <= n - x
    BY <1>1, <1>2, <2>1
  <2>3. m \in 1 .. n /\ x \in 1 .. n
    OBVIOUS
  <2> QED BY <2>2, <2>3
<1>4. S \in SUBSET Int
  OBVIOUS
<1>5. Max(S) = m
  BY <1>3, <1>4, GreatestIs
<1> QED BY <1>3, <1>5

\* page_number_check, of any document: if it says nothing, every page after the
\* front matter has a number, and the numbers of two pages are as far apart as the
\* pages, whatever other numbers stand on them.
THEOREM NumbersGoUpByOne ==
  ASSUME NEW B, NEW ir, ir.blocks \in Seq(B), ir.pages \in Nat,
         \A i \in DOMAIN ir.blocks : ir.blocks[i].number \in Int,
         NEW params, AllowFront(params) \in Nat,
         PageNumberCheck(ir, params) = {}
  PROVE  \A p, q \in AllowFront(params) + 1 .. ir.pages :
            /\ FootersOn(ir, p) # {}
            /\ NumberOn(ir, q) - NumberOn(ir, p) = q - p
<1> DEFINE front == AllowFront(params)
           required == (front + 1) .. ir.pages
           found == Numbered(ir, required)
           none == \A p \in 1 .. ir.pages : FootersOn(ir, p) = {}
<1>1. required # {} => ~none
  <2>1. Manual("no_numbers", required) \notin PageNumberCheck(ir, params)
    OBVIOUS
  <2> QED BY <2>1 DEF PageNumberCheck
<1>2. required \ found = {} /\ Unsteady(ir, required) = {}
  <2>1. CASE required = {}
    BY <2>1 DEF Unsteady, Numbered
  <2>2. CASE required # {}
    <3>1. /\ {Fault("unnumbered", ps) : ps \in {required \ Numbered(ir, required)} \ {{}}} = {}
          /\ {Fault("not_consecutive", ps) : ps \in {Unsteady(ir, required)} \ {{}}} = {}
      BY <1>1, <2>2 DEF PageNumberCheck
    <3> QED BY <3>1
  <2> QED BY <2>1, <2>2
<1>3. \A p \in required : FootersOn(ir, p) # {}
  BY <1>2 DEF Numbered
<1>4. \A p \in required : NumberOn(ir, p) \in Int
  <2> SUFFICES ASSUME NEW p \in required PROVE NumberOn(ir, p) \in Int
    OBVIOUS
  <2>1. FootersOn(ir, p) \in SUBSET (1 .. Len(ir.blocks)) /\ FootersOn(ir, p) # {}
        /\ Len(ir.blocks) \in Nat
    BY <1>3, LenProperties DEF FootersOn, OnPage
  <2>2. Max(FootersOn(ir, p)) \in 1 .. Len(ir.blocks)
    BY <2>1, GreatestNumber
  <2> QED BY <2>2 DEF NumberOn
<1>5. \A p \in required : p + 1 \in required => NumberOn(ir, p + 1) = NumberOn(ir, p) + 1
  <2> SUFFICES ASSUME NEW p \in required, p + 1 \in required
               PROVE  NumberOn(ir, p + 1) = NumberOn(ir, p) + 1
    OBVIOUS
  <2>1. p \in found /\ p + 1 \in found /\ p \notin Unsteady(ir, required)
    BY <1>2
  <2>2. \A r \in found : r \in Int
    BY DEF Numbered
  <2>3. p < p + 1 /\ \A r \in found : r <= p \/ p + 1 <= r
    BY <2>2
  <2> QED BY <2>1, <2>3 DEF Unsteady
<1> HIDE DEF found, none
<1>6. \A p \in required : \A d \in Nat : p + d \in required => NumberOn(ir, p + d) = NumberOn(ir, p) + d
  <2> SUFFICES ASSUME NEW p \in required
               PROVE  \A d \in Nat : p + d \in required => NumberOn(ir, p + d) = NumberOn(ir, p) + d
    OBVIOUS
  <2> DEFINE S == {d \in Nat : p + d \in required => NumberOn(ir, p + d) = NumberOn(ir, p) + d}
  <2>1. 0 \in S
    BY <1>4
  <2>2. ASSUME NEW d \in S PROVE d + 1 \in S
    <3> SUFFICES ASSUME p + (d + 1) \in required
                 PROVE  NumberOn(ir, p + (d + 1)) = NumberOn(ir, p) + (d + 1)
      OBVIOUS
    <3>1. p + d \in required /\ (p + d) + 1 = p + (d + 1)
      OBVIOUS
    <3>2. NumberOn(ir, p + d) = NumberOn(ir, p) + d
      BY <3>1
    <3>3. NumberOn(ir, p) \in Int
      BY <1>4
    <3> HIDE DEF required, S
    <3>4. NumberOn(ir, (p + d) + 1) = NumberOn(ir, p + d) + 1
      BY <1>5, <3>1
    <3>5. d \in Int
      BY DEF S
    <3> QED BY <3>1, <3>2, <3>3, <3>4, <3>5
  <2>3. S \in SUBSET Nat
    OBVIOUS
  <2>4. \A d \in Nat : d \in S
    <3> HIDE DEF S
    <3> QED BY <2>1, <2>2, <2>3, Counting
  <2> QED BY <2>4
<1>7. ASSUME NEW p \in required, NEW q \in required, p <= q
      PROVE  NumberOn(ir, q) - NumberOn(ir, p) = q - p
  <2> DEFINE d == q - p
  <2>1. d \in Nat /\ p + d = q
    BY <1>7
  <2> HIDE DEF d, required
  <2>2. NumberOn(ir, q) = NumberOn(ir, p) + d
    BY <1>6, <2>1
  <2>3. NumberOn(ir, p) \in Int
    BY <1>4
  <2> QED BY <2>1, <2>2, <2>3 DEF d
<1>8. ASSUME NEW p \in required, NEW q \in required
      PROVE  NumberOn(ir, q) - NumberOn(ir, p) = q - p
  <2>1. p <= q \/ q <= p
    OBVIOUS
  <2>2. NumberOn(ir, p) \in Int /\ NumberOn(ir, q) \in Int
    BY <1>4
  <2>3. CASE p <= q
    BY <1>7, <2>3
  <2>4. CASE q <= p
    <3>1. NumberOn(ir, p) - NumberOn(ir, q) = p - q
      BY <1>7, <2>4
    <3>2. p \in Int /\ q \in Int
      OBVIOUS
    <3> HIDE DEF required
    <3> QED BY <2>2, <3>1, <3>2
  <2> QED BY <2>1, <2>3, <2>4
<1> QED BY <1>3, <1>8

\* Among the numbers of a sequence one is the greatest and one the least.
LEMMA ExtremesOf ==
  ASSUME NEW s \in Seq(Int), s # <<>>
  PROVE  /\ Max(Range(s)) \in Range(s) /\ \A x \in Range(s) : x <= Max(Range(s))
         /\ Min(Range(s)) \in Range(s) /\ \A x \in Range(s) : Min(Range(s)) <= x
<1> DEFINE S == {n \in Nat : n + 1 \in 1 .. Len(s) =>
                    \E i, j \in 1 .. n + 1 : \A k \in 1 .. n + 1 : s[k] <= s[i] /\ s[j] <= s[k]}
<1>0. Len(s) \in Nat \ {0} /\ \A k \in 1 .. Len(s) : s[k] \in Int
  BY LenProperties, EmptySeq
<1>1. 0 \in S
  BY <1>0
<1>2. ASSUME NEW n \in S PROVE n + 1 \in S
  <2> SUFFICES ASSUME (n + 1) + 1 \in 1 .. Len(s)
               PROVE  \E i, j \in 1 .. (n + 1) + 1 : \A k \in 1 .. (n + 1) + 1 :
                         s[k] <= s[i] /\ s[j] <= s[k]
    OBVIOUS
  <2>1. PICK i \in 1 .. n + 1, j \in 1 .. n + 1 :
             \A k \in 1 .. n + 1 : s[k] <= s[i] /\ s[j] <= s[k]
    BY <1>0
  <2>0. s[i] \in Int /\ s[j] \in Int
    BY <1>0
  <2> DEFINE m == (n + 1) + 1
             h == IF s[m] >= s[i] THEN m ELSE i
             l == IF s[m] <= s[j] THEN m ELSE j
  <2>2. h \in 1 .. m /\ l \in 1 .. m /\ s[h] >= s[i] /\ s[h] >= s[m] /\ s[l] <= s[j] /\ s[l] <= s[m]
        /\ s[h] \in Int /\ s[l] \in Int
    BY <1>0, <2>1
  <2>3. \A k \in 1 .. m : k = m \/ k \in 1 .. n + 1
    OBVIOUS
  <2>4. \A k \in 1 .. m : s[k] \in Int
    BY <1>0
  <2> HIDE DEF h, l, m
  <2>5. \A k \in 1 .. m : s[k] <= s[h] /\ s[l] <= s[k]
    <3> SUFFICES ASSUME NEW k \in 1 .. m PROVE s[k] <= s[h] /\ s[l] <= s[k]
      OBVIOUS
    <3>1. CASE k = m
      BY <2>2, <3>1
    <3>2. CASE k \in 1 .. n + 1
      <4>1. s[k] <= s[i] /\ s[j] <= s[k] /\ s[k] \in Int
        BY <2>1, <2>4, <3>2
      <4>2. s[i] \in Int /\ s[j] \in Int
        BY <2>0
      <4>3. s[h] \in Int /\ s[l] \in Int /\ s[h] >= s[i] /\ s[l] <= s[j]
        BY <2>2
      <4> HIDE DEF S
      <4> QED BY <4>1, <4>2, <4>3
    <3> QED BY <2>3, <3>1, <3>2
  <2> QED BY <2>2, <2>5 DEF m
<1>3. \A n \in Nat : n \in S
  <2>1. S \in SUBSET Nat
    OBVIOUS
  <2> HIDE DEF S
  <2> QED BY <1>1, <1>2, <2>1, Counting
<1>4. PICK i \in 1 .. Len(s), j \in 1 .. Len(s) : \A k \in 1 .. Len(s) : s[k] <= s[i] /\ s[j] <= s[k]
  <2>1. Len(s) - 1 \in Nat /\ (Len(s) - 1) + 1 = Len(s)
    BY <1>0
  <2>2. Len(s) - 1 \in S
    BY <1>3, <2>1
  <2> QED BY <1>0, <2>1, <2>2
<1>5. Range(s) = {s[k] : k \in 1 .. Len(s)} /\ Range(s) \in SUBSET Int
  BY <1>0 DEF Range
<1>6. s[i] \in Range(s) /\ \A x \in Range(s) : s[i] >= x
  BY <1>0, <1>4, <1>5
<1>7. s[j] \in Range(s) /\ \A x \in Range(s) : s[j] <= x
  BY <1>0, <1>4, <1>5
<1> DEFINE V == Range(s)
<1> HIDE DEF V
<1>8. Max(Range(s)) = s[i]
  BY <1>5, <1>6, GreatestIs
<1>9. Min(Range(s)) = s[j]
  BY <1>5, <1>7, LeastIs
<1> QED BY <1>6, <1>7, <1>8, <1>9

\* What lies within the tolerance t of a mode.
Slack(mode, t) == IF mode = "number" THEN t ELSE 0

\* Values that agree are numbers, and any two of them are within the tolerance.
LEMMA AgreeingValues ==
  ASSUME NotANumber \notin Int, NEW mode \in {"number", "date"}, NEW t \in Nat,
         NEW s \in Seq(Int \cup {NotANumber}), s # <<>>,
         MatchesAgree(Range(s), mode, t) = "agree"
  PROVE  /\ Range(s) \in SUBSET Int
         /\ \A x, y \in Range(s) : x - y <= Slack(mode, t)
<1>1. NotANumber \notin Range(s)
  BY DEF MatchesAgree
<1>2. Range(s) \in SUBSET Int /\ s \in Seq(Int)
  <2>1. DOMAIN s = 1 .. Len(s) /\ Len(s) \in Nat /\ s = [k \in 1 .. Len(s) |-> s[k]]
    BY LenProperties, SeqDef
  <2>2. \A k \in 1 .. Len(s) : s[k] \in Int
    BY <1>1, <2>1 DEF Range
  <2> QED BY <2>1, <2>2, SeqDef DEF Range
<1>3. CASE mode = "number"
  <2>1. Spread(Range(s)) <= t
    BY <1>1, <1>3 DEF MatchesAgree
  <2>2. /\ Max(Range(s)) \in Range(s) /\ \A x \in Range(s) : x <= Max(Range(s))
        /\ Min(Range(s)) \in Range(s) /\ \A x \in Range(s) : Min(Range(s)) <= x
    BY <1>2, ExtremesOf
  <2> DEFINE hi == Max(Range(s))
             lo == Min(Range(s))
  <2>3. hi \in Int /\ lo \in Int /\ hi - lo <= t
    BY <1>2, <2>1, <2>2 DEF Spread
  <2> HIDE DEF hi, lo
  <2>4. \A x \in Range(s) : x \in Int /\ x <= hi /\ lo <= x
    BY <1>2, <2>2 DEF hi, lo
  <2> QED BY <1>2, <1>3, <2>3, <2>4 DEF Slack
<1>4. CASE mode = "date"
  <2>1. Cardinality(Range(s)) <= 1
    BY <1>1, <1>4 DEF MatchesAgree
  <2>2. IsFiniteSet(Range(s))
    <3>1. s \in Surjection(1 .. Len(s), Range(s)) /\ IsFiniteSet(1 .. Len(s))
      <4>1. DOMAIN s = 1 .. Len(s) /\ Len(s) \in Nat /\ s = [k \in 1 .. Len(s) |-> s[k]]
        BY LenProperties, SeqDef
      <4>2. s \in [1 .. Len(s) -> Range(s)]
        BY <4>1 DEF Range
      <4>3. \A x \in Range(s) : \E k \in 1 .. Len(s) : s[k] = x
        BY <4>1 DEF Range
      <4>4. IsFiniteSet(1 .. Len(s))
        <5>1. Len(s) \in Int
          BY LenProperties
        <5> QED BY <5>1, FS_Interval
      <4> QED BY <4>2, <4>3, <4>4 DEF Surjection
    <3> QED BY <3>1, FS_Surjection
  <2>3. \A x, y \in Range(s) : x = y
    <3>1. Cardinality(Range(s)) = 0 \/ Cardinality(Range(s)) = 1
      BY <2>1, <2>2, FS_CardinalityType
    <3>2. Range(s) = {} \/ \E x : Range(s) = {x}
      BY <2>2, <3>1, FS_EmptySet, FS_Singleton
    <3> QED BY <3>2
  <2> QED BY <1>2, <1>4, <2>3 DEF Slack
<1> QED BY <1>2, <1>3, <1>4

\* Some value of the one field agrees with some value of the other.
SomePairAgrees(left, right, mode, t) ==
    \E l \in Range(left), r \in Range(right) : MatchesAgree({l, r}, mode, t) = "agree"

\* When the verdict over all pairs is agreement, some pair agrees.
LEMMA VerdictHasItsPair ==
  ASSUME NEW left, NEW right, NEW mode, NEW t,
         ComparisonAgrees(left, right, mode, t) = "agree"
  PROVE  SomePairAgrees(left, right, mode, t)
<1> DEFINE A == Range(left)
           B == Range(right)
<1>1. ASSUME NEW C, NEW D, "agree" \in {MatchesAgree({l, r}, mode, t) : l \in C, r \in D}
      PROVE  \E l \in C, r \in D : MatchesAgree({l, r}, mode, t) = "agree"
  BY <1>1
<1>2. "agree" \in {MatchesAgree({l, r}, mode, t) : l \in A, r \in B}
  <2> DEFINE verdicts == {MatchesAgree({l, r}, mode, t) : l \in A, r \in B}
  <2>1. ComparisonAgrees(left, right, mode, t) =
          CASE "agree" \in verdicts -> "agree"
            [] "agree" \notin verdicts /\ "differ" \in verdicts -> "differ"
            [] OTHER -> "error"
    BY DEF ComparisonAgrees
  <2> HIDE DEF verdicts
  <2>2. ASSUME "agree" \notin verdicts
        PROVE  ComparisonAgrees(left, right, mode, t) \in {"differ", "error"}
    <3>1. CASE "differ" \in verdicts
      BY <2>1, <2>2, <3>1, Zenon
    <3>2. CASE "differ" \notin verdicts
      BY <2>1, <2>2, <3>2, Zenon
    <3> QED BY <3>1, <3>2
  <2>3. "agree" \in verdicts
    BY <2>2
  <2> QED BY <2>3 DEF verdicts
<1> HIDE DEF A, B
<1>3. \E l \in A, r \in B : MatchesAgree({l, r}, mode, t) = "agree"
  BY <1>1, <1>2
<1> QED BY <1>3 DEF A, B, SomePairAgrees

\* cross_field_consistency, of any values found for its two fields: when it says
\* nothing they are all numbers or dates, and the tolerance adds up at most three
\* times over all the places: within each field and once between them.
THEOREM AgreementIsThroughout ==
  ASSUME NotANumber \notin Int, NEW mode \in {"number", "date"}, NEW t \in Nat,
         NEW left \in Seq(Int \cup {NotANumber}), left # <<>>,
         NEW right \in Seq(Int \cup {NotANumber}), right # <<>>,
         CrossFieldConsistency(left, right, mode, t) = {}
  PROVE  LET found == Range(left) \cup Range(right)
         IN  /\ found \in SUBSET Int
             /\ \A x, y \in found : x - y <= (IF mode = "number" THEN 3 * t ELSE 0)
<1> DEFINE V == Int \cup {NotANumber}
<1>1. SomePairAgrees(left, right, mode, t)
  <2>1. ComparisonAgrees(left, right, mode, t) = "agree"
    <3>1. \A v : v \in {ComparisonAgrees(left, right, mode, t)} \ {"agree"} =>
                 Fault("compared", v) \in CrossFieldConsistency(left, right, mode, t)
      BY DEF CrossFieldConsistency, ComparedFields
    <3> QED BY <3>1
  <2> QED BY <2>1, VerdictHasItsPair
<1>2. PICK l \in Range(left), r \in Range(right) : MatchesAgree({l, r}, mode, t) = "agree"
  BY <1>1 DEF SomePairAgrees
<1>3. l \in Int /\ r \in Int /\ l - r <= Slack(mode, t) /\ r - l <= Slack(mode, t)
  <2>1. l \in V /\ r \in V
    BY LenProperties, ElementOfSeq DEF Range
  <2>2. <<l, r>> \in Seq(V) /\ <<l, r>> # <<>> /\ Range(<<l, r>>) = {l, r}
    BY <2>1 DEF Range
  <2> HIDE DEF V
  <2>3. Range(<<l, r>>) \in SUBSET Int /\ \A x, y \in Range(<<l, r>>) : x - y <= Slack(mode, t)
    BY <1>2, <2>2, AgreeingValues DEF V
  <2> QED BY <2>2, <2>3
<1>4. Slack(mode, t) \in Nat
  BY DEF Slack
<1>5. ASSUME NEW s \in {left, right}
      PROVE  Range(s) \in SUBSET Int /\ \A x, y \in Range(s) : x - y <= Slack(mode, t)
  <2>1. s \in Seq(V) /\ s # <<>> /\ Len(s) \in Nat \ {0}
    BY LenProperties, EmptySeq
  <2>2. CASE Len(s) < 2
    <3>1. Len(s) = 1 /\ DOMAIN s = 1 .. 1
      <4> HIDE DEF V
      <4>1. Len(s) = 1
        <5>1. Len(s) \in Nat \ {0}
          BY <2>1
        <5>2. Len(s) < 2
          BY <2>2
        <5> DEFINE N == Len(s)
        <5> HIDE DEF N
        <5>3. N \in Nat \ {0} /\ N < 2 => N = 1
          OBVIOUS
        <5> QED BY <5>1, <5>2, <5>3 DEF N
      <4>2. DOMAIN s = 1 .. Len(s)
        BY <2>1, LenProperties
      <4> QED BY <4>1, <4>2
    <3>2. Range(s) = {s[1]}
      BY <3>1 DEF Range
    <3>3. s[1] \in {l, r}
      BY <1>2, <3>2
    <3> QED BY <1>3, <1>4, <3>2, <3>3
  <2>3. CASE ~(Len(s) < 2)
    <3>1. MatchesAgree(Range(s), mode, t) = "agree"
      <4>1. \A v : v \in {MatchesAgree(Range(s), mode, t)} \ {"agree"} =>
                   Fault("repeated", v) \in CrossFieldConsistency(left, right, mode, t)
        BY <2>3 DEF CrossFieldConsistency, RepeatedField
      <4> QED BY <4>1
    <3> QED BY <2>1, <3>1, AgreeingValues
  <2> QED BY <2>2, <2>3
<1>6. Range(left) \in SUBSET Int /\ \A x, y \in Range(left) : x - y <= Slack(mode, t)
  BY <1>5
<1>7. Range(right) \in SUBSET Int /\ \A x, y \in Range(right) : x - y <= Slack(mode, t)
  BY <1>5
<1> DEFINE k == Slack(mode, t)
           found == Range(left) \cup Range(right)
<1>8. \A x \in found : x \in Int
  BY <1>6, <1>7
<1>9. \A x \in Range(left), y \in Range(right) : x - y <= 3 * k /\ y - x <= 3 * k
  <2> SUFFICES ASSUME NEW x \in Range(left), NEW y \in Range(right)
               PROVE  x - y <= 3 * k /\ y - x <= 3 * k
    OBVIOUS
  <2>1. x - l <= k /\ l - x <= k /\ y - r <= k /\ r - y <= k /\ x \in Int /\ y \in Int
    BY <1>2, <1>6, <1>7
  <2>2. k \in Nat /\ l - r <= k /\ r - l <= k
    BY <1>3, <1>4
  <2> HIDE DEF k
  <2> QED BY <1>3, <2>1, <2>2
<1> DEFINE Near_(x, y) == x - y <= 3 * k
<1>10. \A x, y \in found : Near_(x, y)
  <2>1. \A x \in Range(left), y \in Range(right) : Near_(x, y) /\ Near_(y, x)
    BY <1>9
  <2>2. ASSUME NEW s \in {left, right}, NEW x \in Range(s), NEW y \in Range(s)
        PROVE  Near_(x, y)
    <3>1. x - y <= k /\ x \in Int /\ y \in Int
      BY <1>5
    <3>2. k \in Nat
      BY <1>4
    <3> HIDE DEF k
    <3> QED BY <3>1, <3>2
  <2> HIDE DEF Near_
  <2> QED BY <2>1, <2>2
<1>11. 3 * k = IF mode = "number" THEN 3 * t ELSE 0
  BY DEF Slack
<1> QED BY <1>8, <1>10, <1>11

\* The order of the outlines that the run writes is reported.
LEMMA WrittenOrder == Written => OrderReported
<1> SUFFICES ASSUME Written, kind = "outline" PROVE OrderReported
  BY Zenon DEF OrderReported
<1> DEFINE ir == Outline
           expected == <<"goal", "plan", "team">>
           B == {ir.blocks[i] : i \in DOMAIN doc}
<1>1. doc \in Seq(OutlineBlock)
  BY DEF Written
<1>2. DOMAIN doc = 1 .. Len(doc) /\ Len(doc) \in Nat
  BY <1>1, LenProperties
<1>3. ir.blocks = [i \in DOMAIN doc |->
         [type |-> doc[i].type, level |-> doc[i].level, text |-> doc[i].text,
          words |-> doc[i].words, page |-> PageAt(i)]]
  BY Zenon DEF Outline
<1> HIDE DEF ir
<1>4. DOMAIN ir.blocks = DOMAIN doc /\ \A i \in DOMAIN doc :
        /\ ir.blocks[i].type = doc[i].type /\ ir.blocks[i].level = doc[i].level
        /\ ir.blocks[i].text = doc[i].text
  BY <1>3
<1>5. ir.blocks \in Seq(B)
  <2>1. ir.blocks = [i \in 1 .. Len(doc) |-> ir.blocks[i]]
    BY <1>2, <1>3
  <2>2. \A i \in 1 .. Len(doc) : ir.blocks[i] \in B
    BY <1>2
  <2> HIDE DEF B
  <2> QED BY <1>2, <2>1, <2>2, SeqDef
<1>6. expected \in Seq(Titles)
  BY DEF Titles
<1>7. \A i, p : i \in DOMAIN doc =>
        ((i \in TopHeadings(ir) /\ expected[p] \in ir.blocks[i].text) <=>
         (doc[i].type = "heading" /\ doc[i].level = 1 /\ expected[p] \in doc[i].text))
  <2>1. \A i \in DOMAIN doc : i \in TopHeadings(ir) <=> doc[i].type = "heading" /\ doc[i].level = 1
    BY <1>4 DEF TopHeadings, HeadingsOf, OfType
  <2> HIDE DEF expected
  <2> QED BY <1>4, <2>1
<1> DEFINE has(i, p) == i \in TopHeadings(ir) /\ expected[p] \in ir.blocks[i].text
           had(i, p) == doc[i].type = "heading" /\ doc[i].level = 1 /\ expected[p] \in doc[i].text
<1>8. SectionOrder(ir, expected) # {} <=>
        \E p, q \in DOMAIN expected, i, j \in DOMAIN ir.blocks :
            /\ p < q /\ i < j /\ has(i, q) /\ has(j, p)
            /\ \A k \in 1 .. j - 1 : ~has(k, p)
  <2> HIDE DEF expected, B
  <2> QED BY <1>5, <1>6, OrderIsReported
<1>9. \A i \in DOMAIN doc : \A p : has(i, p) <=> had(i, p)
  BY <1>7
<1>10. \A j \in DOMAIN doc : 1 .. j - 1 \in SUBSET DOMAIN doc
  BY <1>2
<1> HIDE DEF expected, has, had
<1>11. SectionOrder(ir, expected) # {} <=>
        \E p, q \in DOMAIN expected, i, j \in DOMAIN doc :
            /\ p < q /\ i < j /\ had(i, q) /\ had(j, p)
            /\ \A k \in 1 .. j - 1 : ~had(k, p)
  BY <1>4, <1>8, <1>9, <1>10
<1> QED BY <1>11 DEF OrderReported, ir, expected, had

\* Where the run's footers are passed, every page after the front matter is numbered.
LEMMA WrittenNumbers == Written => NumbersAreConsecutive
<1> SUFFICES ASSUME Written, kind = "footers", NEW front \in 0 .. 3,
                    PageNumberCheck(Paged, [allow_unumbered_front_pages |-> front]) = {},
                    NEW p \in front + 1 .. 3, NEW q \in front + 1 .. 3
             PROVE  FootersOn(Paged, p) # {} /\ NumberOn(Paged, q) - NumberOn(Paged, p) = q - p
  BY Zenon DEF NumbersAreConsecutive
<1> DEFINE ir == Paged
           params == [allow_unumbered_front_pages |-> front]
<1>1. doc \in Seq(Footer) /\ ir.blocks = doc /\ ir.pages = 3
  BY DEF Written, Paged
<1>2. \A i \in DOMAIN ir.blocks : ir.blocks[i].number \in Int
  <2>1. \A i \in DOMAIN doc : doc[i] \in Footer
    BY <1>1, LenProperties, ElementOfSeq
  <2>2. \A e \in Footer : e.number \in {-1} \cup 1 .. 4
    BY Zenon DEF Footer, Unset
  <2>3. \A n \in {-1} \cup 1 .. 4 : n \in Int
    OBVIOUS
  <2> QED BY <1>1, <2>1, <2>2, <2>3
<1>3. AllowFront(params) = front
  BY DEF AllowFront
<1> HIDE DEF ir, params
<1>4. ir.blocks \in Seq(Footer) /\ ir.pages \in Nat /\ AllowFront(params) \in Nat
  BY <1>1, <1>3
<1>5. PageNumberCheck(ir, params) = {}
  BY DEF ir, params
<1>6. \A a, b \in AllowFront(params) + 1 .. ir.pages :
        FootersOn(ir, a) # {} /\ NumberOn(ir, b) - NumberOn(ir, a) = b - a
  BY <1>2, <1>4, <1>5, NumbersGoUpByOne
<1> QED BY <1>1, <1>3, <1>6 DEF ir

\* The two parts of LayoutJudged whose operators use sets alone, along the
\* writing of outlines and footers of any length: the order of the sections is reported,
\* and footers without a word from page_number_check go up by one.
THEOREM OrderAndNumbersJudged == Spec => [](OrderReported /\ NumbersAreConsecutive)
<1>1. Init => Written
  BY WrittenStart
<1>2. Written /\ [Next]_vars => Written'
  BY WrittenKept
<1>3. Written => OrderReported /\ NumbersAreConsecutive
  BY WrittenOrder, WrittenNumbers
<1> QED BY <1>1, <1>2, <1>3, PTL DEF Spec

=============================================================================
