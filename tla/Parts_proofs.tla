---------------------------- MODULE Parts_proofs ----------------------------
(***************************************************************************)
(* Proofs about the parts that share no state (Parts), each for every      *)
(* value of its constants.  A theorem is about one of the parts, whose     *)
(* specification is its hypothesis.                                        *)
(***************************************************************************)
EXTENDS Parts, TLAPS, Sequences, SequenceTheorems

-----------------------------------------------------------------------------
(* The activity log and its page. *)

LogTypes ==
    /\ entries \in Seq(Nat) /\ next_id \in Nat \ {0}
    /\ asked \in [Requests -> Nat \union {-1}]
    /\ answer \in [Requests -> Seq(Nat)]
    /\ last_log_id \in Nat /\ shown \in Seq(Nat)
    /\ log_overlapped \in BOOLEAN /\ restarted \in BOOLEAN

\* RingIsRecent, entry by entry.
Ring ==
    /\ Len(entries) <= MAXLEN
    /\ Len(entries) <= next_id - 1
    /\ Len(entries) = MAXLEN \/ Len(entries) = next_id - 1
    /\ \A i \in 1..Len(entries) : entries[i] = (next_id - Len(entries)) + (i - 1)

\* The page has shown this id.
Shows(id) == \E j \in 1..Len(shown) : shown[j] = id

\* What is up to the page's mark was shown or has left the ring.
Covered ==
    /\ last_log_id < next_id
    /\ \A i \in 1..Len(entries) : entries[i] <= last_log_id => Shows(entries[i])

\* An answer is without gaps, and ...
Gapless(r) == \A i \in 1..Len(answer[r]) : answer[r][i] = answer[r][1] + (i - 1)

\* ... before its first id leaves out only what was shown or has left the ring.
AnswerFits(r) ==
    /\ asked[r] <= last_log_id
    /\ asked[r] = -1 \/ answer[r] = <<>>
    /\ \A i \in 1..Len(answer[r]) : answer[r][i] < next_id
    /\ answer[r] # <<>> =>
         \A i \in 1..Len(entries) : entries[i] < answer[r][1] => Shows(entries[i])

\* One request at a time brings what is newer than the page's mark.
Busy(r) == asked[r] # -1 \/ answer[r] # <<>>

Serial ==
    /\ \A r, o \in Requests : Busy(r) /\ Busy(o) => r = o
    /\ \A r \in Requests : asked[r] # -1 => asked[r] = last_log_id
    /\ \A r \in Requests : \A i \in 1..Len(answer[r]) : answer[r][i] > last_log_id
    /\ \A i \in 1..Len(shown) : shown[i] <= last_log_id
    /\ \A i, j \in 1..Len(shown) : i < j => shown[i] < shown[j]

LogInv ==
    /\ LogTypes /\ Ring /\ \A r \in Requests : Gapless(r)
    /\ ~restarted => Covered /\ \A r \in Requests : AnswerFits(r)
    /\ ~restarted /\ ~log_overlapped => Serial

LEMMA LogInit == Log!Init => LogInv
<1> SUFFICES ASSUME Log!Init PROVE LogInv
  OBVIOUS
<1> USE DEF Log!Init, Log!NoRequest
<1>1. LogTypes
  <2>1. log_overlapped \in BOOLEAN /\ restarted \in BOOLEAN
    BY Zenon
  <2> QED
    BY <2>1 DEF LogTypes
<1>2. Ring
  BY RingAssumption DEF Ring
<1>3. Covered /\ (\A r \in Requests : AnswerFits(r) /\ Gapless(r)) /\ Serial
  BY DEF Covered, AnswerFits, Gapless, Serial, Busy
<1> QED
  BY <1>1, <1>2, <1>3 DEF LogInv

\* What After answers: the entries from a place on, just those with a greater id.
LEMMA AfterIsSuffix ==
  ASSUME LogTypes, Ring, NEW id \in Nat
  PROVE  \E k \in 1..(Len(entries) + 1) :
           /\ \A i \in 1..Len(entries) : entries[i] > id <=> i >= k
           /\ Log!After(id) = SubSeq(entries, k, Len(entries))
<1>1. Len(entries) \in Nat /\ next_id \in Nat
  BY DEF LogTypes
<1> DEFINE P(k) == \A i \in 1..Len(entries) : entries[i] > id <=> i >= k
<1>2. \E k \in 1..(Len(entries) + 1) : P(k)
  <2>a. Len(entries) <= next_id - 1
    BY DEF Ring
  <2>b. next_id - Len(entries) \in Nat
    BY <1>1, <2>a
  <2>1. PICK first \in Nat, n \in Nat : first = next_id - Len(entries) /\ n = Len(entries)
    BY <1>1, <2>b
  <2>2. CASE first > id
    <3>1. P(1)
      BY <1>1, <2>1, <2>2 DEF Ring
    <3> QED
      BY <1>1, <3>1
  <2>3. CASE first <= id /\ id < first + n
    <3>1. PICK k \in 1..(n + 1) : k = (id - first) + 2
      BY <2>3
    <3>2. P(k)
      BY <1>1, <2>1, <3>1 DEF Ring
    <3> QED
      BY <2>1, <3>1, <3>2
  <2>4. CASE id >= first + n
    <3>1. P(n + 1)
      BY <1>1, <2>1, <2>4 DEF Ring
    <3> QED
      BY <1>1, <2>1, <3>1
  <2> QED
    BY <2>1, <2>2, <2>3, <2>4
<1>3. PICK k \in 1..(Len(entries) + 1) :
        k = CHOOSE q \in 1..(Len(entries) + 1) : P(q)
  BY <1>2
<1>4. P(k)
  BY <1>2, <1>3
<1> QED
  BY <1>3, <1>4 DEF Log!After

LEMMA LogAdd ==
  ASSUME LogInv, Log!Add
  PROVE  LogInv'
<1>1. /\ next_id' = next_id + 1
      /\ entries' = IF Len(Append(entries, next_id)) > MAXLEN
                    THEN Tail(Append(entries, next_id)) ELSE Append(entries, next_id)
      /\ UNCHANGED <<asked, answer, last_log_id, shown, log_overlapped, restarted>>
  BY DEF Log!Add
<1>2. LogTypes /\ Ring /\ entries \in Seq(Nat) /\ next_id \in Nat \ {0} /\ Len(entries) \in Nat
  BY DEF LogInv, LogTypes
<1>3. /\ Append(entries, next_id) \in Seq(Nat)
      /\ Len(Append(entries, next_id)) = Len(entries) + 1
      /\ \A i \in 1..(Len(entries) + 1) :
           Append(entries, next_id)[i] = (next_id - Len(entries)) + (i - 1)
  <2>1. /\ Append(entries, next_id) \in Seq(Nat)
        /\ Len(Append(entries, next_id)) = Len(entries) + 1
        /\ Append(entries, next_id)[Len(entries) + 1] = next_id
        /\ \A i \in 1..Len(entries) : Append(entries, next_id)[i] = entries[i]
    BY <1>2
  <2>2. ASSUME NEW i \in 1..(Len(entries) + 1)
        PROVE  Append(entries, next_id)[i] = (next_id - Len(entries)) + (i - 1)
    <3>1. CASE i = Len(entries) + 1
      <4>1. (next_id - Len(entries)) + ((Len(entries) + 1) - 1) = next_id
        BY <1>2
      <4> QED
        BY <2>1, <3>1, <4>1
    <3>2. CASE i # Len(entries) + 1
      <4>1. i \in 1..Len(entries)
        BY <1>2, <3>2
      <4> QED
        BY <1>2, <2>1, <4>1 DEF Ring
    <3> QED
      BY <3>1, <3>2
  <2> QED
    BY <2>1, <2>2
<1>4. \E d \in {0, 1} : /\ Len(entries') = (Len(entries) + 1) - d
                        /\ d = 1 <=> Len(entries) + 1 > MAXLEN
                        /\ entries' \in Seq(Nat)
                        /\ \A i \in 1..Len(entries') :
                             i + d \in 1..(Len(entries) + 1)
                             /\ entries'[i] = Append(entries, next_id)[i + d]
  <2>1. CASE Len(entries) + 1 > MAXLEN
    <3>1. entries' = Tail(Append(entries, next_id)) /\ Append(entries, next_id) # <<>>
      BY <1>1, <1>2, <1>3, <2>1
    <3>2. /\ Len(entries') = Len(entries) /\ entries' \in Seq(Nat)
          /\ \A i \in 1..Len(entries) : entries'[i] = Append(entries, next_id)[i + 1]
      BY <1>2, <1>3, <3>1
    <3> QED
      BY <1>2, <2>1, <3>2
  <2>2. CASE ~(Len(entries) + 1 > MAXLEN)
    BY <1>1, <1>2, <1>3, <2>2
  <2> QED
    BY <2>1, <2>2
<1>5. PICK d \in {0, 1} : /\ Len(entries') = (Len(entries) + 1) - d
                          /\ d = 1 <=> Len(entries) + 1 > MAXLEN
                          /\ entries' \in Seq(Nat)
                          /\ \A i \in 1..Len(entries') :
                               i + d \in 1..(Len(entries) + 1)
                               /\ entries'[i] = Append(entries, next_id)[i + d]
  BY <1>4
<1>6. Ring'
  <2>1. Len(entries') <= MAXLEN /\ Len(entries') <= next_id' - 1
        /\ (Len(entries') = MAXLEN \/ Len(entries') = next_id' - 1)
    BY <1>1, <1>2, <1>5, RingAssumption DEF Ring
  <2>2. ASSUME NEW i \in 1..Len(entries')
        PROVE  entries'[i] = (next_id' - Len(entries')) + (i - 1)
    <3>1. PICK j \in 1..(Len(entries) + 1) : j = i + d /\ entries'[i] = Append(entries, next_id)[j]
      BY <1>5
    <3>2. entries'[i] = (next_id - Len(entries)) + (j - 1)
      BY <1>3, <3>1
    <3>3. PICK n \in Nat, q \in Nat, m \in Nat :
            n = Len(entries) /\ q = next_id /\ m = Len(entries') /\ m = (n + 1) - d
      BY <1>2, <1>5
    <3>4. (q - n) + (j - 1) = ((q + 1) - m) + (i - 1)
      BY <3>1, <3>3
    <3> QED
      BY <1>1, <3>2, <3>3, <3>4
  <2> QED
    BY <2>1, <2>2 DEF Ring
<1>7. LogTypes'
  BY <1>1, <1>2, <1>5 DEF LogTypes
<1>8. ASSUME NEW i \in 1..Len(entries'), entries'[i] # next_id
      PROVE  \E j \in 1..Len(entries) : entries'[i] = entries[j]
  <2>1. PICK j \in 1..(Len(entries) + 1) : j = i + d /\ entries'[i] = Append(entries, next_id)[j]
    BY <1>5, <1>8
  <2>2. j # Len(entries) + 1
    BY <1>2, <1>8, <2>1
  <2>3. j \in 1..Len(entries)
    BY <1>2, <2>1, <2>2
  <2> QED
    BY <1>2, <2>1, <2>3
<1>9. \A id : Shows(id)' <=> Shows(id)
  BY <1>1 DEF Shows
<1>10. ASSUME ~restarted PROVE Covered' /\ \A r \in Requests : AnswerFits(r)'
  <2>1. Covered'
    BY <1>1, <1>2, <1>8, <1>9, <1>10 DEF LogInv, LogTypes, Covered
  <2>2. ASSUME NEW r \in Requests PROVE AnswerFits(r)'
    <3>1. AnswerFits(r) /\ answer[r] \in Seq(Nat)
      BY <1>10 DEF LogInv, LogTypes
    <3>2. \A i \in 1..Len(answer[r]) : answer[r][i] < next_id /\ answer[r][i] \in Nat
      BY <3>1 DEF AnswerFits
    <3>3. answer[r] # <<>> => 1 \in 1..Len(answer[r])
      BY <3>1
    <3>4. answer[r] # <<>> => answer[r][1] < next_id
      BY <3>2, <3>3
    <3>5. answer[r] # <<>> =>
            \A i \in 1..Len(entries') : entries'[i] < answer[r][1] => Shows(entries'[i])
      <4> SUFFICES ASSUME answer[r] # <<>>, NEW i \in 1..Len(entries'),
                          entries'[i] < answer[r][1]
                   PROVE  Shows(entries'[i])
        OBVIOUS
      <4>1. entries'[i] # next_id
        BY <1>2, <3>2, <3>3, <3>4
      <4>2. PICK j \in 1..Len(entries) : entries'[i] = entries[j]
        BY <1>8, <4>1
      <4> QED
        BY <3>1, <4>2 DEF AnswerFits
    <3>6. \A i \in 1..Len(answer[r]) : answer[r][i] < next_id + 1
      BY <1>2, <3>2
    <3>7. asked[r] <= last_log_id /\ (asked[r] = -1 \/ answer[r] = <<>>)
      BY <3>1 DEF AnswerFits
    <3>8. answer[r] # <<>> =>
            \A i \in 1..Len(entries') : entries'[i] < answer[r][1] =>
              \E j \in 1..Len(shown) : shown[j] = entries'[i]
      BY <3>5 DEF Shows
    <3> QED
      BY <1>1, <3>6, <3>7, <3>8 DEF AnswerFits, Shows
  <2> QED
    BY <2>1, <2>2
<1>11. Serial => Serial'
  BY <1>1 DEF Serial, Busy
<1>12. \A r \in Requests : Gapless(r)'
  BY <1>1 DEF LogInv, Gapless
<1> QED
  BY <1>1, <1>6, <1>7, <1>10, <1>11, <1>12 DEF LogInv

LEMMA LogPoll ==
  ASSUME LogInv, NEW r \in Requests, Log!Poll(r)
  PROVE  LogInv'
<1>1. /\ asked[r] = -1 /\ answer[r] = <<>>
      /\ asked' = [asked EXCEPT ![r] = last_log_id]
      /\ log_overlapped' = (log_overlapped \/
           \E o \in Requests \ {r} : asked[o] # -1 \/ answer[o] # <<>>)
      /\ UNCHANGED <<entries, next_id, answer, last_log_id, shown, restarted>>
  BY DEF Log!Poll, Log!NoRequest
<1>2. LogTypes /\ last_log_id \in Nat
  BY DEF LogInv, LogTypes
<1>3. LogTypes'
  <2>1. log_overlapped' \in BOOLEAN
    BY <1>1, <1>2 DEF LogTypes
  <2> QED
    BY <1>1, <1>2, <2>1 DEF LogTypes
<1>4. \A o \in Requests : asked'[o] = IF o = r THEN last_log_id ELSE asked[o]
  BY <1>1, <1>2 DEF LogTypes
<1>5. Ring' /\ \A o \in Requests : Gapless(o)'
  BY <1>1 DEF LogInv, Ring, Gapless
<1>6. ASSUME ~restarted PROVE Covered' /\ \A o \in Requests : AnswerFits(o)'
  BY <1>1, <1>2, <1>4, <1>6 DEF LogInv, Covered, AnswerFits, Shows
<1>7. ASSUME ~restarted, ~log_overlapped' PROVE Serial'
  <2>1. Serial /\ \A o \in Requests \ {r} : ~Busy(o)
    BY <1>1, <1>7 DEF LogInv, Busy
  <2>2. \A o \in Requests \ {r} : ~Busy(o)'
    BY <1>1, <1>4, <2>1 DEF Busy
  <2>3. \A o \in Requests : asked'[o] # -1 => asked'[o] = last_log_id
    BY <1>4, <2>1 DEF Serial
  <2> QED
    BY <1>1, <2>1, <2>2, <2>3 DEF Serial
<1> QED
  BY <1>1, <1>3, <1>5, <1>6, <1>7 DEF LogInv

LEMMA LogServe ==
  ASSUME LogInv, NEW r \in Requests, Log!Serve(r)
  PROVE  LogInv'
<1>1. /\ asked[r] # -1
      /\ asked' = [asked EXCEPT ![r] = -1]
      /\ answer' = [answer EXCEPT ![r] = Log!After(asked[r])]
      /\ UNCHANGED <<entries, next_id, last_log_id, shown, log_overlapped, restarted>>
  BY DEF Log!Serve, Log!NoRequest, Log!GetSince
<1>2. LogTypes /\ Ring /\ asked[r] \in Nat /\ entries \in Seq(Nat) /\ Len(entries) \in Nat
      /\ next_id \in Nat
  BY <1>1 DEF LogInv, LogTypes
<1>3. PICK k \in 1..(Len(entries) + 1) :
        /\ \A i \in 1..Len(entries) : entries[i] > asked[r] <=> i >= k
        /\ Log!After(asked[r]) = SubSeq(entries, k, Len(entries))
  BY <1>2, AfterIsSuffix
<1>4. PICK s \in Seq(Nat) :
        /\ s = SubSeq(entries, k, Len(entries)) /\ Len(s) = (Len(entries) - k) + 1
        /\ \A i \in 1..Len(s) : s[i] = entries[(k + i) - 1] /\ (k + i) - 1 \in 1..Len(entries)
  <2>1. PICK n \in Nat : n = Len(entries)
    BY <1>2
  <2>2. SubSeq(entries, k, n) \in Seq(Nat) /\ Len(SubSeq(entries, k, n)) = (n - k) + 1
    BY <1>2, <2>1
  <2>3. ASSUME NEW i \in 1..((n - k) + 1)
        PROVE  /\ SubSeq(entries, k, n)[i] = entries[(k + i) - 1]
               /\ (k + i) - 1 \in 1..n
    BY <1>2, <2>1
  <2> QED
    BY <2>1, <2>2, <2>3
<1>5. /\ \A o \in Requests : asked'[o] = IF o = r THEN -1 ELSE asked[o]
      /\ \A o \in Requests : answer'[o] = IF o = r THEN s ELSE answer[o]
  BY <1>1, <1>2, <1>3, <1>4 DEF LogTypes
<1>6. \A i \in 1..Len(s) : /\ s[i] = s[1] + (i - 1) /\ s[i] < next_id /\ s[i] > asked[r]
  <2> TAKE i \in 1..Len(s)
  <2>1. PICK j \in 1..Len(entries) : j = (k + i) - 1 /\ s[i] = entries[j]
    BY <1>4
  <2>2. 1 \in 1..Len(s) /\ k \in 1..Len(entries) /\ s[1] = entries[k]
    BY <1>2, <1>4
  <2>3. /\ entries[j] = (next_id - Len(entries)) + (j - 1)
        /\ entries[k] = (next_id - Len(entries)) + (k - 1)
    BY <1>2, <2>2 DEF Ring
  <2>4. entries[j] > asked[r]
    BY <1>3, <2>1
  <2>5. s[i] = s[1] + (i - 1)
    BY <1>2, <2>1, <2>2, <2>3
  <2>6. s[i] < next_id
    BY <1>2, <2>1, <2>3
  <2> QED
    BY <2>1, <2>4, <2>5, <2>6
<1>7. LogTypes'
  BY <1>1, <1>2, <1>3, <1>4 DEF LogTypes
<1>8. Ring' /\ \A o \in Requests : Gapless(o)'
  <2>1. Ring'
    BY <1>1, <1>2 DEF Ring
  <2>2. \A o \in Requests : Gapless(o)'
    BY <1>5, <1>6 DEF LogInv, Gapless
  <2> QED
    BY <2>1, <2>2
<1>9. ASSUME ~restarted PROVE Covered' /\ \A o \in Requests : AnswerFits(o)'
  <2>1. Covered /\ AnswerFits(r) /\ last_log_id \in Nat
    BY <1>2, <1>9 DEF LogInv, LogTypes
  <2>2. Covered'
    BY <1>1, <2>1 DEF Covered, Shows
  <2>3. ASSUME s # <<>>, NEW i \in 1..Len(entries), entries[i] < s[1]
        PROVE  Shows(entries[i])
    <3>1. 1 \in 1..Len(s) /\ k \in 1..Len(entries) /\ s[1] = entries[k]
      BY <1>2, <1>4, <2>3
    <3>2. /\ entries[i] = (next_id - Len(entries)) + (i - 1)
          /\ entries[k] = (next_id - Len(entries)) + (k - 1)
      BY <1>2, <3>1 DEF Ring
    <3>3. i < k
      BY <1>2, <2>3, <3>1, <3>2
    <3>4. entries[i] \in Nat /\ ~(entries[i] > asked[r])
      BY <1>2, <1>3, <3>3
    <3>5. entries[i] <= last_log_id
      BY <1>2, <2>1, <3>4 DEF AnswerFits
    <3> QED
      BY <2>1, <3>5 DEF Covered
  <2>4. AnswerFits(r)'
    BY <1>1, <1>5, <1>6, <2>1, <2>3 DEF AnswerFits, Shows
  <2>5. ASSUME NEW o \in Requests \ {r} PROVE AnswerFits(o)'
    BY <1>1, <1>5, <1>9 DEF LogInv, AnswerFits, Shows
  <2> QED
    BY <2>2, <2>4, <2>5
<1>10. ASSUME ~restarted, ~log_overlapped PROVE Serial'
  <2>1. Serial /\ Busy(r)
    BY <1>1, <1>10 DEF LogInv, Busy
  <2>2. \A o \in Requests : Busy(o)' => o = r
    BY <1>5, <2>1 DEF Serial, Busy
  <2>3. asked[r] = last_log_id
    BY <1>1, <2>1 DEF Serial
  <2>4. /\ \A o \in Requests : asked'[o] # -1 => asked'[o] = last_log_id
        /\ \A o \in Requests : \A i \in 1..Len(answer'[o]) : answer'[o][i] > last_log_id
    BY <1>5, <1>6, <2>1, <2>3 DEF Serial
  <2> QED
    BY <1>1, <2>1, <2>2, <2>4 DEF Serial
<1> QED
  BY <1>1, <1>7, <1>8, <1>9, <1>10 DEF LogInv

\* The greatest of a mark and of ids without gaps.
LEMMA GreatestId ==
  ASSUME NEW s \in Seq(Nat), s # <<>>, NEW l \in Nat,
         \A i \in 1..Len(s) : s[i] = s[1] + (i - 1)
  PROVE  \E m \in Nat : /\ m = Log!Max({l} \union Log!ToSet(s))
                        /\ m >= l /\ \A i \in 1..Len(s) : m >= s[i]
                        /\ m = l \/ m = s[Len(s)]
<1> DEFINE ids == {l} \union Log!ToSet(s)
           greatest == IF s[Len(s)] >= l THEN s[Len(s)] ELSE l
<1>1. Len(s) \in 1..Len(s) /\ 1 \in 1..Len(s) /\ \A i \in 1..Len(s) : s[i] \in Nat
  OBVIOUS
<1>2. \A i \in 1..Len(s) : s[i] <= s[Len(s)]
  BY <1>1
<1>3. greatest \in Nat /\ greatest >= l /\ \A i \in 1..Len(s) : greatest >= s[i]
  BY <1>1, <1>2
<1>4. ids \subseteq Nat /\ greatest \in ids /\ \A y \in ids : greatest >= y
  <2>1. Log!ToSet(s) = {s[i] : i \in 1..Len(s)}
    BY DEF Log!ToSet
  <2>2. greatest \in ids
    BY <1>1, <2>1
  <2>3. ASSUME NEW y \in ids PROVE y \in Nat /\ greatest >= y
    <3>1. CASE y = l
      BY <1>3, <3>1
    <3>2. CASE y # l
      <4>1. PICK i \in 1..Len(s) : y = s[i]
        BY <2>1, <2>3, <3>2
      <4> QED
        BY <1>1, <1>3, <4>1
    <3> QED
      BY <3>1, <3>2
  <2> QED
    BY <2>2, <2>3
<1>5. \A x \in ids : (\A y \in ids : x >= y) => x = greatest
  <2> SUFFICES ASSUME NEW x \in ids, \A y \in ids : x >= y
               PROVE  x = greatest
    OBVIOUS
  <2>1. x >= greatest /\ greatest >= x /\ x \in Nat
    BY <1>4
  <2> HIDE DEF greatest
  <2> QED
    BY <1>3, <2>1
<1> HIDE DEF greatest, ids
<1>6. Log!Max(ids) = greatest
  BY <1>4, <1>5 DEF Log!Max
<1> QED
  BY <1>3, <1>6 DEF greatest, ids

LEMMA LogReceive ==
  ASSUME LogInv, NEW r \in Requests, Log!Receive(r)
  PROVE  LogInv'
<1>1. /\ answer[r] # <<>>
      /\ answer' = [answer EXCEPT ![r] = <<>>]
      /\ shown' = shown \o answer[r]
      /\ last_log_id' = Log!Max({last_log_id} \union Log!ToSet(answer[r]))
      /\ UNCHANGED <<entries, next_id, asked, log_overlapped, restarted>>
  BY DEF Log!Receive
<1>2. LogTypes /\ last_log_id \in Nat /\ shown \in Seq(Nat) /\ answer[r] \in Seq(Nat)
      /\ Gapless(r) /\ entries \in Seq(Nat) /\ next_id \in Nat
  BY DEF LogInv, LogTypes
<1>3. PICK s \in Seq(Nat), n \in Nat \ {0}, c \in Nat :
        s = answer[r] /\ n = Len(s) /\ c = Len(shown)
  BY <1>1, <1>2
<1>4. \A i \in 1..n : s[i] = s[1] + (i - 1) /\ s[i] \in Nat /\ 1 \in 1..n
  BY <1>2, <1>3 DEF Gapless
<1>5. PICK m \in Nat : /\ m = last_log_id' /\ m >= last_log_id
                       /\ \A i \in 1..n : m >= s[i]
                       /\ m = last_log_id \/ m = s[n]
  BY <1>1, <1>2, <1>3, <1>4, GreatestId
<1>6. \A o \in Requests : answer'[o] = IF o = r THEN <<>> ELSE answer[o]
  BY <1>1, <1>2 DEF LogTypes
<1>7. /\ shown' \in Seq(Nat) /\ Len(shown') = c + n
      /\ \A j \in 1..c : shown'[j] = shown[j]
      /\ \A j \in (c + 1)..(c + n) : shown'[j] = s[j - c] /\ j - c \in 1..n
  BY <1>1, <1>2, <1>3
<1>8. LogTypes'
  BY <1>1, <1>2, <1>5, <1>7 DEF LogTypes
<1>9. Ring' /\ \A o \in Requests : Gapless(o)'
  BY <1>1, <1>6 DEF LogInv, Ring, Gapless
<1>10. /\ \A id : Shows(id) => Shows(id)'
       /\ \A i \in 1..n : Shows(s[i])'
  <2>1. ASSUME NEW id, Shows(id) PROVE Shows(id)'
    <3>1. PICK j \in 1..c : shown[j] = id
      BY <1>3, <2>1 DEF Shows
    <3>2. j \in 1..(c + n) /\ shown'[j] = id
      BY <1>7, <3>1
    <3> QED
      BY <1>7, <3>2 DEF Shows
  <2>2. ASSUME NEW i \in 1..n PROVE Shows(s[i])'
    <3>1. PICK j \in (c + 1)..(c + n) : j = c + i /\ j - c = i
      OBVIOUS
    <3>2. shown'[j] = s[i]
      BY <1>7, <3>1
    <3>3. j \in 1..Len(shown')
      BY <1>3, <1>7
    <3> QED
      BY <3>2, <3>3 DEF Shows
  <2> QED
    BY <2>1, <2>2
<1>11. ASSUME ~restarted PROVE Covered' /\ \A o \in Requests : AnswerFits(o)'
  <2>1. Covered /\ \A o \in Requests : AnswerFits(o)
    BY <1>11 DEF LogInv
  <2>2. m < next_id
    <3>1. n \in 1..n /\ s[n] < next_id /\ last_log_id < next_id
      BY <1>3, <2>1 DEF AnswerFits, Covered
    <3> QED
      BY <1>5, <3>1
  <2>3. ASSUME NEW i \in 1..Len(entries), entries[i] <= m PROVE Shows(entries[i])'
    <3>1. PICK e \in Nat : e = entries[i] /\ e = entries'[i]
      BY <1>1, <1>2
    <3>2. CASE e <= last_log_id
      <4>1. Shows(e)
        BY <2>1, <3>1, <3>2 DEF Covered
      <4> QED
        BY <1>10, <3>1, <4>1 DEF Shows
    <3>3. CASE e < s[1]
      <4>1. Shows(e)
        BY <1>1, <1>3, <2>1, <3>1, <3>3 DEF AnswerFits
      <4> QED
        BY <1>10, <3>1, <4>1 DEF Shows
    <3>4. CASE ~(e <= last_log_id) /\ ~(e < s[1])
      <4>1. PICK f \in Nat : f = s[1] /\ f <= e
        BY <1>3, <1>4, <3>4
      <4>a. e <= m
        BY <2>3, <3>1
      <4>b. m # last_log_id
        BY <1>2, <3>4, <4>a
      <4>c. n \in 1..n
        OBVIOUS
      <4>2. m = s[n] /\ s[n] = f + (n - 1) /\ e <= m
        BY <1>4, <1>5, <4>1, <4>a, <4>b, <4>c
      <4>3. PICK j \in 1..n : j = (e - f) + 1
        BY <4>1, <4>2
      <4>4. s[j] = f + (j - 1)
        BY <1>4, <4>1
      <4>5. e = s[j]
        BY <4>1, <4>3, <4>4, SMTT(30)
      <4> QED
        BY <1>10, <3>1, <4>5 DEF Shows
    <3> QED
      BY <3>2, <3>3, <3>4
  <2>4. Covered'
    BY <1>1, <1>5, <2>2, <2>3 DEF Covered, Shows
  <2>5. ASSUME NEW o \in Requests PROVE AnswerFits(o)'
    <3>1. AnswerFits(o) /\ asked[o] \in Nat \union {-1}
      BY <1>2, <2>1 DEF LogTypes
    <3>2. asked[o] <= m
      BY <1>2, <1>5, <3>1 DEF AnswerFits
    <3>3. answer'[o] # <<>> =>
            \A i \in 1..Len(entries) : entries[i] < answer'[o][1] => Shows(entries[i])'
      <4> SUFFICES ASSUME answer'[o] # <<>>, NEW i \in 1..Len(entries),
                          entries[i] < answer'[o][1]
                   PROVE  Shows(entries[i])'
        OBVIOUS
      <4>1. answer'[o] = answer[o]
        BY <1>6
      <4>2. Shows(entries[i])
        BY <3>1, <4>1 DEF AnswerFits
      <4>3. PICK e : e = entries[i] /\ e = entries'[i]
        BY <1>1
      <4> QED
        BY <1>10, <4>2, <4>3 DEF Shows
    <3>4. /\ asked[o] = -1 \/ answer'[o] = <<>>
          /\ \A i \in 1..Len(answer'[o]) : answer'[o][i] < next_id
      BY <1>6, <3>1 DEF AnswerFits
    <3> QED
      BY <1>1, <1>5, <3>2, <3>3, <3>4 DEF AnswerFits, Shows
  <2> QED
    BY <2>4, <2>5
<1>12. ASSUME ~restarted, ~log_overlapped PROVE Serial'
  <2>1. Serial /\ Busy(r) /\ asked[r] = -1
    BY <1>1, <1>12 DEF LogInv, Busy, AnswerFits
  <2>2. \A o \in Requests : ~Busy(o)'
    BY <1>1, <1>6, <2>1 DEF Serial, Busy
  <2>a. ASSUME NEW j \in 1..c
        PROVE  shown'[j] = shown[j] /\ shown[j] \in Nat /\ shown[j] <= last_log_id
    <3>1. shown'[j] = shown[j]
      BY <1>7
    <3>2. j \in 1..Len(shown)
      BY <1>3
    <3>3. shown[j] <= last_log_id
      BY <2>1, <3>2 DEF Serial
    <3>4. shown[j] \in Nat
      BY <1>2, <3>2, ElementOfSeq
    <3> QED
      BY <3>1, <3>3, <3>4
  <2>b. ASSUME NEW j \in (c + 1)..(c + n)
        PROVE  shown'[j] \in Nat /\ shown'[j] <= m /\ shown'[j] > last_log_id
    <3>1. PICK a \in 1..n : a = j - c /\ shown'[j] = s[a]
      BY <1>7
    <3>2. s[a] > last_log_id
      BY <1>3, <2>1 DEF Serial
    <3> QED
      BY <1>4, <1>5, <3>1, <3>2
  <2>3. ASSUME NEW j \in 1..(c + n) PROVE shown'[j] <= m
    <3>1. CASE j \in 1..c
      BY <1>2, <1>5, <2>a, <3>1
    <3>2. CASE j \in (c + 1)..(c + n)
      BY <2>b, <3>2
    <3> QED
      BY <3>1, <3>2
  <2>4. ASSUME NEW i \in 1..(c + n), NEW j \in 1..(c + n), i < j
        PROVE  shown'[i] < shown'[j]
    <3>1. CASE j \in 1..c
      <4>1. i \in 1..c
        BY <2>4, <3>1
      <4>2. shown[i] < shown[j]
        BY <1>3, <2>1, <2>4, <3>1, <4>1 DEF Serial
      <4> QED
        BY <2>a, <3>1, <4>1, <4>2
    <3>2. CASE i \in 1..c /\ j \in (c + 1)..(c + n)
      <4>1. shown'[i] \in Nat /\ shown'[i] <= last_log_id
        BY <2>a, <3>2
      <4>2. shown'[j] > last_log_id /\ shown'[j] \in Nat
        BY <2>b, <3>2
      <4> QED
        BY <1>2, <4>1, <4>2
    <3>3. CASE i \in (c + 1)..(c + n) /\ j \in (c + 1)..(c + n)
      <4>1. PICK a \in 1..n, b \in 1..n : /\ a = i - c /\ b = j - c /\ a < b
                                          /\ shown'[i] = s[a] /\ shown'[j] = s[b]
        BY <1>7, <2>4, <3>3
      <4>2. s[a] = s[1] + (a - 1) /\ s[b] = s[1] + (b - 1) /\ s[1] \in Nat
        BY <1>4
      <4>3. s[a] < s[b]
        BY <4>1, <4>2
      <4> QED
        BY <4>1, <4>3
    <3> QED
      BY <2>4, <3>1, <3>2, <3>3
  <2>5. \A o \in Requests : asked'[o] = -1 /\ answer'[o] = <<>>
    BY <2>2 DEF Busy
  <2>6. /\ \A j \in 1..Len(shown') : shown'[j] <= last_log_id'
        /\ \A i, j \in 1..Len(shown') : i < j => shown'[i] < shown'[j]
    BY <1>5, <1>7, <2>3, <2>4
  <2> QED
    BY <2>2, <2>5, <2>6 DEF Serial
<1> QED
  BY <1>1, <1>8, <1>9, <1>11, <1>12 DEF LogInv

LEMMA LogRestart ==
  ASSUME LogInv, Log!Restart
  PROVE  LogInv'
<1>1. /\ restarted' = TRUE /\ entries' = <<>> /\ next_id' = 1
      /\ asked' = [o \in Requests |-> -1]
      /\ UNCHANGED <<answer, last_log_id, shown, log_overlapped>>
  BY DEF Log!Restart, Log!NoRequest
<1>2. LogTypes'
  <2>1. restarted' \in BOOLEAN
    BY <1>1, Zenon
  <2> QED
    BY <1>1, <2>1 DEF LogInv, LogTypes
<1>3. Ring' /\ \A o \in Requests : Gapless(o)'
  BY <1>1, RingAssumption DEF LogInv, Ring, Gapless
<1> QED
  BY <1>1, <1>2, <1>3 DEF LogInv

\* LogInv holds in every reachable state of the log and its page.
THEOREM LogInvariant == Log!Spec => []LogInv
<1>1. LogInv /\ [Log!Next]_(Log!vars) => LogInv'
  <2> SUFFICES ASSUME LogInv, [Log!Next]_(Log!vars) PROVE LogInv'
    OBVIOUS
  <2>1. CASE UNCHANGED Log!vars
    BY <2>1 DEF Log!vars, LogInv, LogTypes, Ring, Gapless, Covered, AnswerFits, Serial, Shows, Busy
  <2> QED
    BY <2>1, LogAdd, LogPoll, LogServe, LogReceive, LogRestart DEF Log!Next, Log!PollCycle
<1> QED
  BY <1>1, LogInit, PTL DEF Log!Spec

\* For any length of the ring and any number of requests: in one run of the program
\* the page misses nothing that it could have had, and shows nothing twice or out of
\* order unless two of its requests were under way together.
THEOREM LogPageShowsTheLog == Log!Spec => []PageShowsTheLog
<1>1. LogInv => PageShowsTheLog
  <2> SUFFICES ASSUME LogInv PROVE PageShowsTheLog
    OBVIOUS
  <2>1. LogTypes /\ Ring /\ entries \in Seq(Nat) /\ Len(entries) \in Nat /\ next_id \in Nat
    BY DEF LogInv, LogTypes
  <2>2. Log!RingIsRecent
    <3>1. \A i \in 1..Len(entries) : entries[i] = next_id - Len(entries) + i - 1
      BY <2>1 DEF Ring
    <3>2. entries = [i \in 1..Len(entries) |-> next_id - Len(entries) + i - 1]
      BY <2>1, <3>1
    <3> QED
      BY <2>1, <3>2 DEF Log!RingIsRecent, Ring
  <2>3. ASSUME ~restarted, NEW id \in Log!ToSet(entries), id <= last_log_id
        PROVE  id \in Log!ToSet(shown)
    <3>1. PICK i \in 1..Len(entries) : id = entries[i]
      BY <2>1, <2>3 DEF Log!ToSet
    <3>2. Shows(id)
      BY <2>3, <3>1 DEF LogInv, Covered
    <3>3. shown \in Seq(Nat)
      BY DEF LogInv, LogTypes
    <3> QED
      BY <3>2, <3>3 DEF Shows, Log!ToSet
  <2>4. ~log_overlapped /\ ~restarted =>
          \A i, j \in 1..Len(shown) : i < j => shown[i] < shown[j]
    BY DEF LogInv, Serial
  <2> QED
    BY <2>2, <2>3, <2>4 DEF PageShowsTheLog, Log!PageShowsTheLog
<1> QED
  BY <1>1, LogInvariant, PTL

-----------------------------------------------------------------------------
(* The other parts. *)

USE NoneAssumption, BoundsAssumption, WindowAssumption

-----------------------------------------------------------------------------
(* The RTU line implements FrameOutcome. *)

Verdicts == {"done", "refused"}

\* A request as it is sent.
Sent == [of : 1..MAX_REQUESTS, length : {2, 3}]

\* What can be seen on the line: groups of an answer that say what the drive made
\* of that request, and garbled ones.
Known == {b \in Groups : verdict[b.of] = b.verdict} \union {None}

\* What is left of it in a transaction, until something comes late.
Own == {b \in Known : b # None => b.of = number}

LineTypes ==
    /\ holder \in Threads \union {None}
    /\ line_pc \in {"idle", "send", "receive"}
    /\ holder = None <=> line_pc = "idle"
    /\ number \in 0..MAX_REQUESTS /\ (line_pc # "idle" => number > 0)
    /\ kind \in {"read", "write"}
    /\ verdict \in [1..MAX_REQUESTS -> Verdicts \union {None}]
    /\ wire \in Seq(Sent)
    /\ late \in BOOLEAN

\* A request on the wire is undecided, and there once; one not sent is neither.
WirePending ==
    /\ \A i \in 1..Len(wire) :
         /\ verdict[wire[i].of] = None /\ wire[i].of <= number
         /\ line_pc = "send" => wire[i].of # number
         /\ \A j \in 1..Len(wire) : j # i => wire[j].of # wire[i].of
    /\ line_pc = "send" => verdict[number] = None
    /\ \A i \in 1..MAX_REQUESTS : i > number => verdict[i] = None

\* Every byte is of an answer that was given.
BytesKnown ==
    /\ answering \in Seq(Known) /\ buffer \in Seq(Known) /\ response \in Seq(Known)

\* And what a transaction has read, and can still read, of the answer to its own
\* request, unless some came late.  A port that is not open is opened with an empty
\* buffer.
BytesOwn ==
    line_pc = "receive" /\ ~late =>
      response \in Seq(Own) /\ (is_open => buffer \in Seq(Own))

Responding == line_pc # "receive" => response = <<>>

LineInv == LineTypes /\ WirePending /\ BytesKnown /\ BytesOwn /\ Responding

\* The initial state satisfies the invariant.
LEMMA LineInit == Line!Init => LineInv
<1> SUFFICES ASSUME Line!Init PROVE LineInv
  OBVIOUS
<1>1. LineTypes
  <2>1. wire \in Seq(Sent)
    BY EmptySeq DEF Line!Init
  <2>2. verdict \in [1..MAX_REQUESTS -> Verdicts \union {None}]
    BY DEF Line!Init
  <2>3. /\ holder \in Threads \union {None} /\ holder = None /\ line_pc = "idle"
    BY DEF Line!Init
  <2>4. number \in 0..MAX_REQUESTS 
    BY DEF Line!Init
  <2>5. kind \in {"read", "write"}
    BY DEF Line!Init
  <2>6. late \in BOOLEAN
    BY DEF Line!Init
  <2> QED
    BY <2>1, <2>2, <2>3, <2>4, <2>5, <2>6 DEF LineTypes
<1>2. WirePending
  BY DEF Line!Init, WirePending
<1>3. BytesKnown /\ BytesOwn /\ Responding
  BY EmptySeq DEF Line!Init, BytesKnown, BytesOwn, Responding
<1> QED
  BY <1>1, <1>2, <1>3 DEF LineInv

\* A sequence read from its head stays one over the same set.
LEMMA HeadTail ==
  ASSUME NEW S, NEW s \in Seq(S), s # <<>>
  PROVE  Head(s) \in S /\ Tail(s) \in Seq(S)
  OBVIOUS

\* A sequence over a set is one over every larger set.
LEMMA SeqGrows ==
  ASSUME NEW S, NEW T, S \subseteq T, NEW s \in Seq(S)
  PROVE  s \in Seq(T)
  BY SeqMonotonic

\* The lines's bytes stay known while no verdict changes.
LEMMA KnownStays ==
  ASSUME UNCHANGED verdict
  PROVE  Known' = Known
  BY DEF Known

LEMMA OwnStays ==
  ASSUME UNCHANGED <<verdict, number>>
  PROVE  Own' = Own
  BY KnownStays DEF Own

LEMMA LineBegin ==
  ASSUME LineInv, NEW t \in Threads, Line!Begin(t)
  PROVE  LineInv' /\ Line!Outcome!Next
<1>1. LineTypes'
  BY DEF Line!Begin, LineInv, LineTypes, Line!drive, Line!port
<1>2. WirePending'
  <2>1. /\ UNCHANGED <<wire, verdict>> /\ number' = number + 1
        /\ number \in Nat /\ number < MAX_REQUESTS
    BY DEF Line!Begin, LineInv, LineTypes, Line!drive
  <2>2. /\ \A i \in 1..Len(wire) :
             /\ verdict[wire[i].of] = None /\ wire[i].of <= number
             /\ wire[i].of \in 1..MAX_REQUESTS
             /\ \A j \in 1..Len(wire) : j # i => wire[j].of # wire[i].of
        /\ \A i \in 1..MAX_REQUESTS : i > number => verdict[i] = None
    <3>1. \A i \in 1..Len(wire) : wire[i] \in Sent
      BY DEF LineInv, LineTypes
    <3> QED
      BY <3>1 DEF LineInv, WirePending, Sent
  <2> QED
    BY <2>1, <2>2 DEF WirePending
<1>3. BytesKnown' /\ BytesOwn' /\ Responding'
  BY KnownStays, EmptySeq
     DEF Line!Begin, LineInv, BytesKnown, BytesOwn, Responding, Line!drive, Line!port
<1>4. Line!Outcome!Begin(t)
  BY DEF Line!Begin, Line!Outcome!Begin, Line!drive
<1> QED
  BY <1>1, <1>2, <1>3, <1>4 DEF LineInv, Line!Outcome!Next

\* A transaction returns nothing, or the decision on its own request.
LEMMA LineReturn ==
  ASSUME LineInv, line_pc = "receive", NEW o, Line!Return(o),
         ~late => o \in {None} \union [of : {number}, verdict : Verdicts]
                  /\ (o # None => o.verdict = verdict[number])
  PROVE  LineInv' /\ (late \/ Line!Outcome!Next)
<1>1. holder \in Threads
  BY DEF LineInv, LineTypes
<1>2. LineTypes'
  BY DEF Line!Return, LineInv, LineTypes, Line!drive, Line!port
<1>3. WirePending'
  BY DEF Line!Return, LineInv, WirePending, Line!drive, Line!port
<1>4. BytesKnown' /\ BytesOwn' /\ Responding'
  BY KnownStays, EmptySeq
     DEF Line!Return, LineInv, BytesKnown, BytesOwn, Responding, Line!drive, Line!port
<1>5. ASSUME ~late PROVE Line!Outcome!Return(holder, o)
  BY <1>5 DEF Line!Return, Line!Outcome!Return, Line!drive
<1> QED
  BY <1>1, <1>2, <1>3, <1>4, <1>5 DEF LineInv, Line!Outcome!Next, Line!Outcome!Verdicts, Verdicts

\* What is parsed of a transaction's own bytes is the decision on its request.
LEMMA OwnParse ==
  ASSUME LineInv, line_pc = "receive", ~late
  PROVE  /\ Line!Parse(response) \in {None} \union [of : {number}, verdict : Verdicts]
         /\ Line!Parse(response) # None => Line!Parse(response).verdict = verdict[number]
<1>1. CASE ~Line!Whole(response)
  BY <1>1 DEF Line!Parse
<1>2. CASE Line!Whole(response)
  <2>1. response \in Seq(Own) /\ response # <<>> /\ response[1] # None
    BY <1>2 DEF LineInv, BytesOwn, Line!Whole
  <2>2. response[1] \in Own
    BY <2>1
  <2>3. /\ response[1] \in Groups /\ response[1].of = number
        /\ verdict[number] = response[1].verdict
    BY <2>1, <2>2 DEF Own, Known
  <2> QED
    BY <1>2, <2>3 DEF Line!Parse, Groups, Verdicts
<1> QED
  BY <1>1, <1>2

LEMMA LineSend ==
  ASSUME LineInv, Line!Send
  PROVE  LineInv' /\ UNCHANGED Line!Outcome!vars
<1> DEFINE request == [of |-> number, length |-> Line!ExpectedLength(kind)]
<1>1. request \in Sent
  BY DEF LineInv, LineTypes, Line!Send, Line!ExpectedLength, Sent
<1>2. /\ line_pc = "send" /\ line_pc' = "receive" /\ buffer' = <<>>
      /\ UNCHANGED <<holder, number, kind, response, outcome, is_open, verdict, answering, late>>
      /\ wire' \in {wire, Append(wire, request)}
  BY DEF Line!Send, Line!ResetInputBuffer, Line!port
<1>3. wire \in Seq(Sent) /\ \A i \in 1..Len(wire) : wire[i] \in Sent
  BY DEF LineInv, LineTypes
<1>4. LineTypes'
  <2>1. wire' \in Seq(Sent)
    BY <1>1, <1>2, <1>3
  <2> QED
    BY <1>2, <2>1 DEF LineInv, LineTypes
<1>5. WirePending'
  <2>1. CASE wire' = wire
    BY <1>2, <2>1 DEF LineInv, WirePending
  <2>2. CASE wire' = Append(wire, request)
    <3>1. /\ Len(wire') = Len(wire) + 1
          /\ \A i \in 1..Len(wire) : wire'[i] = wire[i]
          /\ wire'[Len(wire) + 1] = request
      BY <1>1, <1>3, <2>2
    <3>2. \A i \in 1..Len(wire') : i \in 1..Len(wire) \/ i = Len(wire) + 1
      BY <1>3, <3>1
    <3>3. verdict[number] = None /\ request.of = number /\ number \in Nat
      BY <1>2 DEF LineInv, LineTypes, WirePending
    <3>4. \A i \in 1..Len(wire) : wire[i].of # number /\ wire[i].of <= number
      BY <1>2 DEF LineInv, WirePending
    <3> HIDE DEF request
    <3>5. \A i \in 1..Len(wire') : verdict[wire'[i].of] = None /\ wire'[i].of <= number
      BY <3>1, <3>2, <3>3, <3>4 DEF LineInv, WirePending
    <3>6. \A i, j \in 1..Len(wire') : j # i => wire'[j].of # wire'[i].of
      BY <3>1, <3>2, <3>3, <3>4 DEF LineInv, WirePending
    <3>7. \A i \in 1..MAX_REQUESTS : i > number => verdict[i] = None
      BY DEF LineInv, WirePending
    <3> QED
      BY <1>2, <3>5, <3>6, <3>7 DEF WirePending
  <2> QED
    BY <1>2, <2>1, <2>2
<1>6. BytesKnown' /\ BytesOwn' /\ Responding'
  <2>1. response = <<>>
    BY <1>2 DEF LineInv, Responding
  <2> QED
    BY <1>2, <2>1, KnownStays, EmptySeq DEF LineInv, BytesKnown, BytesOwn, Responding
<1> QED
  BY <1>2, <1>4, <1>5, <1>6 DEF LineInv, Line!Outcome!vars

\* The steps on the client's side of the line that the abstract transaction does
\* not see.
LEMMA LineClientKeeps ==
  ASSUME LineInv,
         \/ Line!Connect \/ Line!SendFails \/ Line!Receive
         \/ \E opened \in BOOLEAN : Line!AttemptConnection(opened)
         \/ Line!Disconnect \/ Line!Close \/ Line!Drop
  PROVE  LineInv' /\ UNCHANGED Line!Outcome!vars
<1>1. CASE Line!Connect \/ Line!Disconnect \/ Line!Close \/ Line!Drop
  <2>1. /\ UNCHANGED <<holder, line_pc, number, kind, response, outcome, wire, verdict,
                       answering, buffer, late>>
        /\ is_open' => is_open
    BY <1>1 DEF Line!Connect, Line!Disconnect, Line!Close, Line!Drop, Line!client, Line!drive
  <2>2. LineTypes' /\ WirePending' /\ Responding'
    BY <2>1 DEF LineInv, LineTypes, WirePending, Responding
  <2>3. BytesKnown' /\ BytesOwn'
    BY <2>1, KnownStays, OwnStays DEF LineInv, BytesKnown, BytesOwn
  <2> QED
    BY <2>1, <2>2, <2>3 DEF LineInv, Line!Outcome!vars
<1>2. CASE Line!SendFails
  <2>1. /\ UNCHANGED <<holder, number, kind, response, outcome, wire, verdict, answering,
                       buffer, late, is_open>>
        /\ line_pc = "send" /\ ~is_open /\ line_pc' = "receive"
    BY <1>2 DEF Line!SendFails, Line!port, Line!drive
  <2>2. LineTypes' /\ WirePending' /\ Responding' /\ response = <<>>
    BY <2>1 DEF LineInv, LineTypes, WirePending, Responding
  <2>3. BytesKnown' /\ BytesOwn'
    BY <2>1, <2>2, EmptySeq, KnownStays, OwnStays DEF LineInv, BytesKnown, BytesOwn
  <2> QED
    BY <2>1, <2>2, <2>3 DEF LineInv, Line!Outcome!vars
<1>3. CASE Line!Receive
  <2>1. /\ UNCHANGED <<holder, line_pc, number, kind, outcome, wire, verdict, answering,
                       late, is_open>>
        /\ line_pc = "receive" /\ is_open /\ buffer # <<>>
        /\ response' = Append(response, Head(buffer)) /\ buffer' = Tail(buffer)
    BY <1>3 DEF Line!Receive, Line!port, Line!drive
  <2>2. LineTypes' /\ WirePending' /\ Responding'
    BY <2>1 DEF LineInv, LineTypes, WirePending, Responding
  <2>3. BytesKnown'
    <3>1. Head(buffer) \in Known /\ Tail(buffer) \in Seq(Known)
      BY <2>1, HeadTail DEF LineInv, BytesKnown
    <3> QED
      BY <2>1, <3>1, KnownStays DEF LineInv, BytesKnown
  <2>4. BytesOwn'
    <3>1. CASE late
      BY <2>1, <3>1 DEF BytesOwn
    <3>2. CASE ~late
      <4>1. response \in Seq(Own) /\ buffer \in Seq(Own)
        BY <2>1, <3>2 DEF LineInv, BytesOwn
      <4>2. Head(buffer) \in Own /\ Tail(buffer) \in Seq(Own)
        BY <2>1, <4>1, HeadTail
      <4> QED
        BY <2>1, <4>1, <4>2, OwnStays DEF BytesOwn
    <3> QED
      BY <3>1, <3>2
  <2> QED
    BY <2>1, <2>2, <2>3, <2>4 DEF LineInv, Line!Outcome!vars
<1>4. ASSUME NEW opened \in BOOLEAN, Line!AttemptConnection(opened)
      PROVE  LineInv' /\ UNCHANGED Line!Outcome!vars
  <2>1. /\ UNCHANGED <<holder, line_pc, number, kind, response, outcome, wire, verdict,
                       answering, late>>
        /\ buffer' = <<>>
    BY <1>4 DEF Line!AttemptConnection, Line!client, Line!drive
  <2>2. LineTypes' /\ WirePending' /\ Responding'
    BY <2>1 DEF LineInv, LineTypes, WirePending, Responding
  <2>3. BytesKnown' /\ BytesOwn'
    BY <2>1, EmptySeq, KnownStays, OwnStays DEF LineInv, BytesKnown, BytesOwn
  <2> QED
    BY <2>1, <2>2, <2>3 DEF LineInv, Line!Outcome!vars
<1> QED
  BY <1>1, <1>2, <1>3, <1>4

\* The drive decides over a request once, and its answer, in whatever shape it gets
\* on the line, tells of that decision.
LEMMA LineDecide ==
  ASSUME LineInv, NEW v \in Verdicts, Line!Decide(v)
  PROVE  LineInv' /\ Line!Outcome!Next
<1> DEFINE request == Head(wire)
           length == IF v = "refused" THEN 1 ELSE request.length
           frame == Line!Frame(request.of, v, length)
<1>1. /\ wire # <<>> /\ wire' = Tail(wire)
      /\ verdict' = [verdict EXCEPT ![request.of] = v]
      /\ answering' \in {frame, <<>>} \union {[frame EXCEPT ![n] = None] : n \in DOMAIN frame}
      /\ UNCHANGED <<holder, line_pc, number, kind, response, outcome, is_open, buffer, late>>
  BY DEF Line!Decide, Line!client, Line!port
<1>2. /\ wire \in Seq(Sent) /\ wire' \in Seq(Sent)
      /\ request \in Sent /\ request = wire[1] /\ 1 \in 1..Len(wire)
      /\ Len(wire') = Len(wire) - 1
      /\ \A i \in 1..Len(wire') : wire'[i] = wire[i + 1] /\ i + 1 \in 1..Len(wire)
      /\ \A i \in 1..Len(wire) : wire[i] \in Sent
  <2>1. wire \in Seq(Sent)
    BY DEF LineInv, LineTypes
  <2> QED
    BY <1>1, <2>1
<1>3. request.of \in 1..MAX_REQUESTS /\ length \in 1..3
  BY <1>2 DEF Sent
<1>4. verdict[request.of] = None /\ request.of <= number
  BY <1>2 DEF LineInv, WirePending
<1>5. verdict \in [1..MAX_REQUESTS -> Verdicts \union {None}]
  BY DEF LineInv, LineTypes
<1> HIDE DEF request, length
<1>6. verdict'[request.of] = v /\ verdict' \in [1..MAX_REQUESTS -> Verdicts \union {None}]
      /\ \A i \in 1..MAX_REQUESTS : i # request.of => verdict'[i] = verdict[i]
  BY <1>1, <1>3, <1>5
<1>7. LineTypes'
  BY <1>1, <1>2, <1>6 DEF LineInv, LineTypes
<1>8. WirePending'
  <2>1. \A i \in 1..Len(wire') :
           /\ wire'[i].of # request.of /\ wire'[i].of \in 1..MAX_REQUESTS
           /\ wire'[i].of <= number /\ verdict[wire'[i].of] = None
           /\ line_pc = "send" => wire'[i].of # number
           /\ \A j \in 1..Len(wire') : j # i => wire'[j].of # wire'[i].of
    <3> SUFFICES ASSUME NEW i \in 1..Len(wire')
                 PROVE  /\ wire'[i].of # request.of /\ wire'[i].of \in 1..MAX_REQUESTS
                        /\ wire'[i].of <= number /\ verdict[wire'[i].of] = None
                        /\ line_pc = "send" => wire'[i].of # number
                        /\ \A j \in 1..Len(wire') : j # i => wire'[j].of # wire'[i].of
      OBVIOUS
    <3>1. wire'[i] = wire[i + 1] /\ i + 1 \in 1..Len(wire) /\ i + 1 # 1
      BY <1>2
    <3>2. wire[i + 1].of # wire[1].of
      BY <1>2, <3>1 DEF LineInv, WirePending
    <3>3. \A j \in 1..Len(wire') : j # i => wire[j + 1].of # wire[i + 1].of
      BY <1>2, <3>1 DEF LineInv, WirePending
    <3>4. wire[i + 1].of \in 1..MAX_REQUESTS
      BY <1>2, <3>1 DEF Sent
    <3> QED
      BY <1>2, <3>1, <3>2, <3>3, <3>4 DEF LineInv, WirePending
  <2>2. line_pc = "send" => request.of # number /\ verdict[number] = None
                            /\ number \in 1..MAX_REQUESTS
    BY <1>2 DEF LineInv, LineTypes, WirePending
  <2>3. \A i \in 1..MAX_REQUESTS : i > number => verdict[i] = None /\ i # request.of
    BY <1>3, <1>4 DEF LineInv, LineTypes, WirePending
  <2> QED
    BY <1>1, <1>6, <2>1, <2>2, <2>3 DEF WirePending
<1>9. Known \subseteq Known' /\ Own \subseteq Own'
  <2>1. ASSUME NEW b \in Groups, verdict[b.of] = b.verdict
        PROVE  verdict'[b.of] = b.verdict
    BY <1>4, <1>6, <2>1 DEF Groups
  <2> QED
    BY <1>1, <2>1 DEF Known, Own
<1>10. answering' \in Seq(Known')
  <2>1. frame = [n \in 1..length |->
                   [of |-> request.of, verdict |-> v, group |-> n, length |-> length]]
    BY DEF Line!Frame
  <2>2. \A n \in 1..length : frame[n] \in Known'
    BY <1>3, <1>6, <2>1 DEF Known, Groups, Verdicts
  <2>3. frame \in [1..length -> Known'] /\ None \in Known' /\ DOMAIN frame = 1..length
    BY <2>1, <2>2 DEF Known
  <2> HIDE DEF frame
  <2>4. length \in Nat
    BY <1>3
  <2>5. \A g \in [1..length -> Known'] : g \in Seq(Known')
    BY <2>4
  <2>6. \A n \in DOMAIN frame : [frame EXCEPT ![n] = None] \in [1..length -> Known']
    BY <2>3
  <2> QED
    BY <1>1, <2>3, <2>5, <2>6, EmptySeq
<1>11. BytesKnown' /\ BytesOwn' /\ Responding'
  BY <1>1, <1>9, <1>10, SeqGrows DEF LineInv, BytesKnown, BytesOwn, Responding
<1>12. Line!Outcome!Decide(request.of, v)
  BY <1>1, <1>3, <1>4 DEF Line!Outcome!Decide
<1> QED
  BY <1>3, <1>7, <1>8, <1>11, <1>12
     DEF LineInv, Line!Outcome!Next, Line!Outcome!Verdicts, Verdicts

\* A group that comes late is remembered as that; any other belongs where it goes.
LEMMA LineDeliver ==
  ASSUME LineInv, Line!Deliver
  PROVE  LineInv' /\ UNCHANGED Line!Outcome!vars
<1> DEFINE b == Head(answering)
<1>1. /\ UNCHANGED <<holder, line_pc, number, kind, response, outcome, is_open, wire, verdict>>
      /\ answering # <<>> /\ answering' = Tail(answering)
      /\ buffer' = IF is_open THEN Append(buffer, b) ELSE buffer
      /\ late' = (late \/ (b # None /\ b.of # number /\ line_pc = "receive"))
  BY DEF Line!Deliver, Line!client, Line!port
<1>2. b \in Known /\ Tail(answering) \in Seq(Known)
  BY <1>1, HeadTail DEF LineInv, BytesKnown
<1> HIDE DEF b
<1>3. late' \in BOOLEAN
  BY <1>1
<1>4. LineTypes' /\ WirePending' /\ Responding'
  BY <1>1, <1>3 DEF LineInv, LineTypes, WirePending, Responding
<1>5. BytesKnown'
  BY <1>1, <1>2, KnownStays DEF LineInv, BytesKnown
<1>6. BytesOwn'
  <2> SUFFICES ASSUME line_pc = "receive", ~late'
               PROVE  response' \in Seq(Own') /\ (is_open' => buffer' \in Seq(Own'))
    BY <1>1 DEF BytesOwn
  <2>1. ~late /\ b \in Own
    BY <1>1, <1>2 DEF Own
  <2>2. response \in Seq(Own) /\ (is_open => buffer \in Seq(Own))
    BY <2>1 DEF LineInv, BytesOwn
  <2> QED
    BY <1>1, <2>1, <2>2, OwnStays
<1> QED
  BY <1>1, <1>4, <1>5, <1>6 DEF LineInv, Line!Outcome!vars

\* Every step keeps the invariant and, until something came late, is a step of the
\* abstract transaction or none.
LEMMA LineStep ==
  ASSUME LineInv, [Line!Next]_(Line!vars)
  PROVE  LineInv' /\ (late' \/ Line!Outcome!Next \/ UNCHANGED Line!Outcome!vars)
<1>1. ASSUME NEW t \in Threads, Line!Begin(t)
      PROVE  LineInv' /\ Line!Outcome!Next
  BY <1>1, LineBegin
<1>2. CASE Line!Send
  BY <1>2, LineSend
<1>3. CASE \/ Line!Connect \/ Line!SendFails \/ Line!Receive
           \/ \E opened \in BOOLEAN : Line!AttemptConnection(opened)
           \/ Line!Disconnect \/ Line!Close \/ Line!Drop
  BY <1>3, LineClientKeeps
<1>4. CASE Line!Complete \/ Line!ReceiveTimesOut
  <2>1. line_pc = "receive" /\ Line!Return(Line!Parse(response)) /\ late' = late
    BY <1>4 DEF Line!Complete, Line!ReceiveTimesOut, Line!Return
  <2> QED
    BY <2>1, LineReturn, OwnParse
<1>5. CASE Line!ReceiveFails
  <2>1. line_pc = "receive" /\ Line!Return(None) /\ late' = late
    BY <1>5 DEF Line!ReceiveFails, Line!Return
  <2> QED
    BY <2>1, LineReturn
<1>6. ASSUME NEW v \in {"done", "refused"}, Line!Decide(v)
      PROVE  LineInv' /\ Line!Outcome!Next
  BY <1>6, LineDecide DEF Verdicts
<1>7. CASE Line!Deliver
  BY <1>7, LineDeliver
<1>8. CASE UNCHANGED Line!vars
  <2>1. UNCHANGED <<holder, line_pc, number, kind, response, outcome, is_open, wire, verdict,
                    answering, buffer, late>>
    BY <1>8 DEF Line!vars, Line!client, Line!port, Line!drive
  <2>2. LineTypes' /\ WirePending' /\ Responding'
    BY <2>1 DEF LineInv, LineTypes, WirePending, Responding
  <2>3. BytesKnown' /\ BytesOwn'
    BY <2>1, KnownStays, OwnStays DEF LineInv, BytesKnown, BytesOwn
  <2> QED
    BY <2>1, <2>2, <2>3 DEF LineInv, Line!Outcome!vars
<1> QED
  BY <1>1, <1>2, <1>3, <1>4, <1>5, <1>6, <1>7, <1>8 DEF Line!Next

\* LineInv holds in every reachable state of the line.
THEOREM LineInvariant == Line!Spec => []LineInv
<1>1. Line!Init => LineInv
  BY LineInit
<1>2. LineInv /\ [Line!Next]_(Line!vars) => LineInv'
  BY LineStep
<1> QED
  BY <1>1, <1>2, PTL DEF Line!Spec

\* For any number of threads and requests, and whatever the line loses, garbles or
\* delays: send_and_receive() is one transaction at a time that returns the decision
\* on its own request or nothing, until bytes of an answer arrive after the next
\* request has been sent.
THEOREM LineImplementsOutcome == Line!Spec => ImplementsOutcome
<1>1. Line!Init => Line!Outcome!Init
  BY DEF Line!Init, Line!Outcome!Init
<1>2. LineInv /\ [Line!Next]_(Line!vars) => [late' \/ Line!Outcome!Next]_(Line!Outcome!vars)
  BY LineStep
<1> QED
  BY <1>1, <1>2, LineInvariant, PTL DEF Line!Spec, ImplementsOutcome, Line!ImplementsOutcome

-----------------------------------------------------------------------------
(* The port. *)

\* After disconnect() has cleared keep_running, nobody gets as far as opening who
\* had not got there before.
PortInv ==
    /\ disconnecting # "no" => ~keep_running /\ (~raced => ~opening)
    /\ DisconnectIsFinal

\* A port that is disconnected stays closed, unless a thread had already found that
\* it may open it.
THEOREM PortDisconnectIsFinal == Line!Spec => []DisconnectIsFinal
<1> USE DEF PortInv, DisconnectIsFinal, Line!DisconnectIsFinal
<1>1. Line!Init => PortInv
  BY DEF Line!Init
<1>2. PortInv /\ [Line!Next]_(Line!vars) => PortInv'
  <2> SUFFICES ASSUME PortInv, [Line!Next]_(Line!vars) PROVE PortInv'
    OBVIOUS
  <2>1. CASE Line!Connect
    BY <2>1 DEF Line!Connect
  <2>2. ASSUME NEW opened \in BOOLEAN, Line!AttemptConnection(opened) PROVE PortInv'
    BY <2>2 DEF Line!AttemptConnection
  <2>3. CASE Line!Disconnect
    BY <2>3 DEF Line!Disconnect
  <2>4. CASE Line!Close
    BY <2>4 DEF Line!Close
  <2>5. CASE Line!Drop
    BY <2>5 DEF Line!Drop
  <2>6. CASE UNCHANGED <<opening, is_open, keep_running, disconnecting, raced>>
    BY <2>6
  <2> QED
    BY <2>1, <2>2, <2>3, <2>4, <2>5, <2>6
       DEF Line!Next, Line!Begin, Line!Send, Line!SendFails, Line!Receive, Line!Complete,
           Line!ReceiveTimesOut, Line!ReceiveFails, Line!Return, Line!Decide, Line!Deliver,
           Line!port, Line!vars
<1>3. PortInv => DisconnectIsFinal
  OBVIOUS
<1> QED
  BY <1>1, <1>2, <1>3, PTL DEF Line!Spec

-----------------------------------------------------------------------------
(* The configuration file implements ConfigStore. *)

Dictionaries == [Keys -> Values \union {None}]

ConfigTypes ==
    /\ file \in Dictionaries \union {None}
    /\ save_pc \in [Savers -> {"idle", "open", "dump"}]
    /\ config \in [Savers -> Dictionaries]
    /\ key \in [Savers -> Keys]
    /\ saved \in Dictionaries
    /\ disturbed \in BOOLEAN

\* While nothing has gone wrong: one saver at most is at work, with a copy of what
\* was saved and a new value for its key; the file is what was saved unless that
\* saver has truncated it.
Undisturbed ==
    /\ \A t, o \in Savers : save_pc[t] # "idle" /\ save_pc[o] # "idle" => t = o
    /\ \A t \in Savers : save_pc[t] # "idle" =>
         \E v \in Values : config[t] = [saved EXCEPT ![key[t]] = v]
    /\ (\A t \in Savers : save_pc[t] # "dump") => Config!LoadConfigDict = saved

ConfigInv == ConfigTypes /\ (~disturbed => Undisturbed)

\* Undisturbed, the store is what was saved.
LEMMA StoreIsSaved ==
  ASSUME ConfigInv, ~disturbed
  PROVE  (IF \E t \in Savers : save_pc[t] = "dump" THEN saved ELSE Config!LoadConfigDict) = saved
  BY DEF ConfigInv, Undisturbed

LEMMA ConfigInit == Config!Init => ConfigInv
<1> SUFFICES ASSUME Config!Init PROVE ConfigInv
  OBVIOUS
<1>1. Config!NoKeys \in Dictionaries
  BY DEF Config!NoKeys, Dictionaries
<1>2. (CHOOSE k \in Keys : TRUE) \in Keys
  BY KeysAssumption
<1>3. ConfigTypes
  BY <1>1, <1>2 DEF Config!Init, ConfigTypes
<1>4. Undisturbed
  BY DEF Config!Init, Undisturbed, Config!LoadConfigDict
<1> QED
  BY <1>3, <1>4 DEF ConfigInv

LEMMA ConfigBeginSave ==
  ASSUME ConfigInv, NEW t \in Savers, NEW k \in Keys, NEW v \in Values,
         Config!BeginSave(t, k, v)
  PROVE  /\ ConfigInv'
         /\ disturbed' \/ UNCHANGED <<saved, disturbed>>
<1>1. /\ save_pc[t] = "idle"
      /\ config' = [config EXCEPT ![t] = [Config!LoadConfigDict EXCEPT ![k] = v]]
      /\ key' = [key EXCEPT ![t] = k]
      /\ save_pc' = [save_pc EXCEPT ![t] = "open"]
      /\ disturbed' = (disturbed \/ \E o \in Savers : save_pc[o] # "idle")
      /\ UNCHANGED <<file, saved>>
  BY DEF Config!BeginSave
<1>2. ConfigTypes /\ Config!LoadConfigDict \in Dictionaries
  BY DEF ConfigInv, ConfigTypes, Config!LoadConfigDict, Config!NoKeys, Dictionaries
<1>3. [Config!LoadConfigDict EXCEPT ![k] = v] \in Dictionaries
  BY <1>2 DEF Dictionaries
<1>4. disturbed' \in BOOLEAN
  BY <1>1
<1>5. ConfigTypes'
  BY <1>1, <1>2, <1>3, <1>4 DEF ConfigTypes
<1>6. ASSUME ~disturbed'
      PROVE  Undisturbed' /\ UNCHANGED disturbed
  <2>1. ~disturbed /\ \A o \in Savers : save_pc[o] = "idle"
    BY <1>1, <1>6
  <2>2. Config!LoadConfigDict = saved
    BY <2>1 DEF ConfigInv, Undisturbed
  <2>3. \A o \in Savers : save_pc'[o] = IF o = t THEN "open" ELSE "idle"
    BY <1>1, <1>2, <2>1 DEF ConfigTypes
  <2>4. config'[t] = [saved EXCEPT ![k] = v] /\ key'[t] = k
    BY <1>1, <1>2, <2>2 DEF ConfigTypes
  <2>5. Config!LoadConfigDict' = Config!LoadConfigDict
    BY <1>1 DEF Config!LoadConfigDict
  <2>6. Undisturbed'
    BY <1>1, <2>2, <2>3, <2>4, <2>5 DEF Undisturbed
  <2>7. disturbed' = disturbed
    BY <1>2, <1>4, <1>6, <2>1 DEF ConfigTypes
  <2> QED
    BY <2>6, <2>7
<1> QED
  BY <1>1, <1>5, <1>6 DEF ConfigInv

LEMMA ConfigTruncate ==
  ASSUME ConfigInv, NEW t \in Savers, Config!Truncate(t)
  PROVE  ConfigInv' /\ UNCHANGED <<saved, disturbed>>
<1>1. /\ save_pc[t] = "open" /\ file' = None
      /\ save_pc' = [save_pc EXCEPT ![t] = "dump"]
      /\ UNCHANGED <<config, key, saved, disturbed>>
  BY DEF Config!Truncate
<1>2. ConfigTypes /\ ConfigTypes'
  BY <1>1 DEF ConfigInv, ConfigTypes
<1>3. ASSUME ~disturbed PROVE Undisturbed'
  <2>1. \A o \in Savers : save_pc'[o] = IF o = t THEN "dump" ELSE save_pc[o]
    BY <1>1, <1>2 DEF ConfigTypes
  <2> QED
    BY <1>1, <1>3, <2>1 DEF ConfigInv, Undisturbed
<1> QED
  BY <1>1, <1>2, <1>3 DEF ConfigInv

\* The write puts one value and changes no other key.
LEMMA ConfigDump ==
  ASSUME ConfigInv, NEW t \in Savers, Config!Dump(t)
  PROVE  /\ ConfigInv'
         /\ UNCHANGED disturbed
         /\ ~disturbed => \E v \in Values : saved' = [saved EXCEPT ![key[t]] = v]
<1>1. /\ save_pc[t] = "dump" /\ file' = config[t]
      /\ save_pc' = [save_pc EXCEPT ![t] = "idle"]
      /\ config' = [config EXCEPT ![t] = Config!NoKeys]
      /\ saved' = [saved EXCEPT ![key[t]] = config[t][key[t]]]
      /\ UNCHANGED <<key, disturbed>>
  BY DEF Config!Dump
<1>2. ConfigTypes /\ config[t] \in Dictionaries /\ key[t] \in Keys
  BY DEF ConfigInv, ConfigTypes
<1>3. config[t][key[t]] \in Values \union {None}
  BY <1>2 DEF Dictionaries
<1>4. saved' \in Dictionaries
  BY <1>1, <1>2, <1>3 DEF ConfigTypes, Dictionaries
<1>5. Config!NoKeys \in Dictionaries
  BY DEF Config!NoKeys, Dictionaries
<1>6. ConfigTypes'
  BY <1>1, <1>2, <1>4, <1>5 DEF ConfigTypes
<1>7. ASSUME ~disturbed
      PROVE  Undisturbed' /\ \E v \in Values : saved' = [saved EXCEPT ![key[t]] = v]
  <2>1. PICK v \in Values : config[t] = [saved EXCEPT ![key[t]] = v]
    BY <1>1, <1>7 DEF ConfigInv, Undisturbed
  <2>2. config[t][key[t]] = v /\ saved' = [saved EXCEPT ![key[t]] = v]
    BY <1>1, <1>2, <2>1 DEF ConfigTypes, Dictionaries
  <2>3. Config!LoadConfigDict' = saved'
    BY <1>1, <1>2, <2>1, <2>2 DEF Config!LoadConfigDict, Dictionaries
  <2>4. \A o \in Savers : save_pc'[o] = "idle"
    BY <1>1, <1>2, <1>7 DEF ConfigInv, ConfigTypes, Undisturbed
  <2> QED
    BY <2>2, <2>3, <2>4 DEF Undisturbed
<1> QED
  BY <1>1, <1>6, <1>7 DEF ConfigInv

LEMMA ConfigFailure ==
  ASSUME ConfigInv, (\E t \in Savers : Config!DumpFails(t)) \/ Config!Crash
  PROVE  ConfigInv' /\ disturbed'
<1>1. Config!NoKeys \in Dictionaries
  BY DEF Config!NoKeys, Dictionaries
<1>2. ASSUME NEW t \in Savers, Config!DumpFails(t)
      PROVE  ConfigTypes' /\ disturbed'
  BY <1>1, <1>2 DEF Config!DumpFails, ConfigInv, ConfigTypes
<1>3. CASE Config!Crash
  BY <1>1, <1>3 DEF Config!Crash, ConfigInv, ConfigTypes
<1> QED
  BY <1>2, <1>3 DEF ConfigInv

\* Reading the whole file, truncating it and writing it back puts one value into a
\* store and changes no other, for any number of savers and keys, until saves
\* overlap, a write fails or the program dies in one.
THEOREM ConfigImplementsStore == Config!Spec => ImplementsStore
<1> DEFINE store == IF \E t \in Savers : save_pc[t] = "dump" THEN saved
                    ELSE Config!LoadConfigDict
<1>1. Config!Init => Config!Store!StoreInit
  BY DEF Config!Init, Config!Store!StoreInit, Config!LoadConfigDict, Config!NoKeys
<1>2. ConfigInv /\ [Config!Next]_(Config!vars) =>
        /\ ConfigInv'
        /\ [Config!Store!StoreNext]_<<store, disturbed>>
  <2> SUFFICES ASSUME ConfigInv, [Config!Next]_(Config!vars)
               PROVE  ConfigInv' /\ [Config!Store!StoreNext]_<<store, disturbed>>
    OBVIOUS
  <2>1. ASSUME disturbed' PROVE Config!Store!StoreNext
    BY <2>1 DEF Config!Store!StoreNext, Config!Store!Break
  <2>2. ASSUME ~disturbed', UNCHANGED <<saved, disturbed>>, ConfigInv'
        PROVE  UNCHANGED <<store, disturbed>>
    BY <2>2, StoreIsSaved DEF ConfigInv, Undisturbed
  <2>3. ASSUME NEW t \in Savers, NEW k \in Keys, NEW v \in Values, Config!BeginSave(t, k, v)
        PROVE  ConfigInv' /\ [Config!Store!StoreNext]_<<store, disturbed>>
    BY <2>1, <2>2, <2>3, ConfigBeginSave
  <2>4. ASSUME NEW t \in Savers, Config!Truncate(t)
        PROVE  ConfigInv' /\ [Config!Store!StoreNext]_<<store, disturbed>>
    BY <2>1, <2>2, <2>4, ConfigTruncate
  <2>5. ASSUME NEW t \in Savers, Config!Dump(t)
        PROVE  ConfigInv' /\ [Config!Store!StoreNext]_<<store, disturbed>>
    <3>1. ConfigInv' /\ UNCHANGED disturbed
      BY <2>5, ConfigDump
    <3>2. ASSUME ~disturbed PROVE Config!Store!StoreNext
      <4>1. PICK v \in Values : saved' = [saved EXCEPT ![key[t]] = v]
        BY <2>5, <3>2, ConfigDump
      <4>2. store = saved /\ store' = saved'
        BY <3>1, <3>2 DEF ConfigInv, Undisturbed
      <4>3. key[t] \in Keys
        BY DEF ConfigInv, ConfigTypes
      <4>4. Config!Store!Put(key[t], v)
        BY <3>1, <3>2, <4>1, <4>2 DEF Config!Store!Put
      <4> QED
        BY <4>3, <4>4 DEF Config!Store!StoreNext
    <3> QED
      BY <2>1, <3>1, <3>2
  <2>6. ASSUME (\E t \in Savers : Config!DumpFails(t)) \/ Config!Crash
        PROVE  ConfigInv' /\ [Config!Store!StoreNext]_<<store, disturbed>>
    BY <2>1, <2>6, ConfigFailure
  <2>7. ASSUME UNCHANGED Config!vars
        PROVE  ConfigInv' /\ UNCHANGED <<store, disturbed>>
    BY <2>7 DEF Config!vars, ConfigInv, ConfigTypes, Undisturbed, Config!LoadConfigDict
  <2> QED
    BY <2>3, <2>4, <2>5, <2>6, <2>7 DEF Config!Next
<1> QED
  BY <1>1, <1>2, ConfigInit, PTL
     DEF Config!Spec, ImplementsStore, Config!ImplementsStore, Config!Store!StoreSpec

-----------------------------------------------------------------------------
(* The OSC server. *)

Filtering == {"compare", "record", "call"}
Idle == \A h \in Handlers : pc[h] = "idle"

OscTypes ==
    /\ started \in Nat
    /\ server \in Nat \union {None}
    /\ stopping \in {"no", "shutdown", "close"}
    /\ listeners \subseteq Nat
    /\ previous_data \in BOOLEAN \union {None} /\ last \in BOOLEAN \union {None}
    /\ pc \in [Handlers -> {"idle", "command"} \union Filtering]
    /\ data \in [Handlers -> BOOLEAN \union {None}]
    /\ \A h \in Handlers : pc[h] \in Filtering => data[h] \in BOOLEAN
    /\ servo \in BOOLEAN
    /\ changes \in Nat /\ calls \in Nat
    /\ overlapped \in BOOLEAN /\ foreign \in BOOLEAN /\ failed \in BOOLEAN

\* The listeners of an instance are registered exactly while it has not begun to
\* stop, and there are no others until a start fails.
Registered ==
    /\ server = None => Idle /\ stopping = "no"
    /\ server # None /\ stopping = "no" => server \in listeners
    /\ ~failed => listeners \subseteq {server}
    /\ ~failed /\ stopping # "no" => listeners = {}

\* While no two handlers of /servo have run together, the one that runs is at the
\* last message; the filter remembers the one before until it has recorded this
\* one; and a call is still to be made only for a message unlike the one before.
Filtered ==
    /\ \A h, g \in Handlers : pc[h] \in Filtering /\ pc[g] \in Filtering => h = g
    /\ \A h \in Handlers :
         /\ pc[h] \in Filtering => data[h] = last /\ last # None
         /\ pc[h] = "record" => data[h] # previous_data
         /\ pc[h] = "call" => previous_data = data[h]
         /\ /\ pc[h] = "record" \/ pc[h] = "call"
               \/ (pc[h] = "compare" /\ data[h] # previous_data)
            => calls < changes
    /\ (\A h \in Handlers : pc[h] \notin Filtering) => previous_data = last
    /\ /\ server # None /\ ~foreign /\ previous_data # None
       /\ \A h \in Handlers : pc[h] # "call"
       => servo = previous_data
    /\ calls <= changes

OscInv == OscTypes /\ Registered /\ (~overlapped => Filtered)

LEMMA OscInit == Osc!Init => OscInv
<1> SUFFICES ASSUME Osc!Init PROVE OscInv
  OBVIOUS
<1>1. OscTypes
  BY DEF Osc!Init, OscTypes, Filtering
<1>2. Registered
  BY DEF Osc!Init, Registered, Idle
<1>3. Filtered
  BY DEF Osc!Init, Filtered, Filtering
<1> QED
  BY <1>1, <1>2, <1>3 DEF OscInv

LEMMA OscStart ==
  ASSUME OscInv, NEW bound \in BOOLEAN, Osc!Start(bound)
  PROVE  OscInv'
<1>1. /\ server = None /\ started' = started + 1 /\ previous_data' = None
      /\ changes' = 0 /\ calls' = 0 /\ last' = None
      /\ overlapped' = FALSE /\ foreign' = FALSE
      /\ listeners' = listeners \union {started + 1}
      /\ server' = IF bound THEN started + 1 ELSE None
      /\ failed' = (failed \/ ~bound)
      /\ UNCHANGED <<stopping, pc, data, servo>>
  BY DEF Osc!Start, Osc!New
<1>2. OscTypes /\ Idle /\ stopping = "no"
  BY <1>1 DEF OscInv, Registered
<1>3. failed' \in BOOLEAN /\ started + 1 \in Nat
  BY <1>1, <1>2 DEF OscTypes
<1>4. OscTypes'
  BY <1>1, <1>2, <1>3 DEF OscTypes
<1>5. Registered'
  <2>1. ASSUME ~failed' PROVE listeners' = {started + 1} /\ server' = started + 1
    <3>1. ~failed /\ bound
      BY <1>1, <2>1
    <3>2. listeners \subseteq {None} /\ listeners \subseteq Nat
      BY <1>1, <1>2, <3>1 DEF OscInv, OscTypes, Registered
    <3> QED
      BY <1>1, <3>1, <3>2
  <2>2. server' # None => server' \in listeners'
    BY <1>1
  <2>3. Idle' /\ stopping' = "no"
    BY <1>1, <1>2 DEF Idle
  <2> QED
    BY <2>1, <2>2, <2>3 DEF Registered
<1>6. Filtered'
  BY <1>1, <1>2 DEF Filtered, Filtering, Idle
<1> QED
  BY <1>4, <1>5, <1>6 DEF OscInv

\* What a stop does to the registrations, and a close, which waits for the handlers.
LEMMA OscStop ==
  ASSUME OscInv, Osc!BeginStop \/ Osc!Shutdown \/ Osc!Close
  PROVE  OscInv'
<1>1. UNCHANGED <<started, failed, previous_data, changes, calls, last, overlapped, pc, data,
                  servo, foreign>>
  BY DEF Osc!BeginStop, Osc!Shutdown, Osc!Close, Osc!filter
<1>2. OscTypes'
  BY <1>1 DEF Osc!BeginStop, Osc!Shutdown, Osc!Close, OscInv, OscTypes
<1>3. Registered'
  <2>1. CASE Osc!BeginStop
    <3>1. server # None /\ stopping' = "shutdown" /\ server' = server
          /\ listeners' = listeners \ {server}
      BY <2>1 DEF Osc!BeginStop
    <3>2. ~failed => listeners \subseteq {server}
      BY DEF OscInv, Registered
    <3>3. ~failed => listeners' = {}
      BY <3>1, <3>2
    <3> QED
      BY <1>1, <3>1, <3>3 DEF Registered
  <2>2. CASE Osc!Shutdown
    BY <1>1, <2>2 DEF Osc!Shutdown, OscInv, OscTypes, Registered, Idle
  <2>3. CASE Osc!Close
    BY <1>1, <2>3 DEF Osc!Close, Osc!CloseWaits, OscInv, OscTypes, Registered, Idle
  <2> QED
    BY <2>1, <2>2, <2>3
<1>4. server' \in {server, None}
  BY DEF Osc!BeginStop, Osc!Shutdown, Osc!Close
<1>5. ~overlapped' => Filtered'
  BY <1>1, <1>4 DEF OscInv, Filtered
<1> QED
  BY <1>2, <1>3, <1>5 DEF OscInv

LEMMA OscMessage ==
  ASSUME OscInv, NEW h \in Handlers, NEW d \in BOOLEAN, Osc!Message(h, d)
  PROVE  OscInv'
<1>1. /\ server # None /\ pc[h] = "idle"
      /\ pc' = [pc EXCEPT ![h] = "compare"]
      /\ data' = [data EXCEPT ![h] = d]
      /\ changes' = IF d = last THEN changes ELSE changes + 1
      /\ last' = d
      /\ overlapped' = (overlapped \/ \E o \in Handlers : pc[o] \in Filtering)
      /\ UNCHANGED <<started, server, stopping, listeners, failed, previous_data, calls, servo,
                     foreign>>
  BY DEF Osc!Message, Osc!Serving, Osc!life, Filtering
<1>2. OscTypes /\ overlapped' \in BOOLEAN
  BY <1>1 DEF OscInv
<1>3. OscTypes'
  BY <1>1, <1>2 DEF OscTypes, Filtering
<1>4. Registered'
  BY <1>1 DEF OscInv, Registered
<1>5. ASSUME ~overlapped'
      PROVE  Filtered'
  <2>1. Filtered /\ \A o \in Handlers : pc[o] \notin Filtering
    BY <1>1, <1>5 DEF OscInv
  <2>2. /\ pc'[h] = "compare" /\ data'[h] = d
        /\ \A o \in Handlers : o # h => pc'[o] \notin Filtering
        /\ "compare" \in Filtering /\ "call" \in Filtering
    BY <1>1, <1>2, <2>1 DEF OscTypes, Filtering
  <2>3. previous_data = last /\ calls <= changes
        /\ (~foreign /\ previous_data # None => servo = previous_data)
    BY <1>1, <2>1, <2>2 DEF Filtered
  <2>4. d # previous_data => calls < changes'
    BY <1>1, <1>2, <2>3 DEF OscTypes
  <2>5. calls <= changes'
    BY <1>1, <1>2, <2>3 DEF OscTypes
  <2> QED
    BY <1>1, <2>2, <2>3, <2>4, <2>5 DEF Filtered, Filtering
<1> QED
  BY <1>3, <1>4, <1>5 DEF OscInv

LEMMA OscCompare ==
  ASSUME OscInv, NEW h \in Handlers, Osc!Compare(h) \/ Osc!Record(h)
  PROVE  OscInv'
<1>1. /\ pc[h] \in {"compare", "record"}
      /\ UNCHANGED <<started, server, stopping, listeners, failed, changes, calls, last,
                     overlapped, data, servo, foreign>>
  BY DEF Osc!Compare, Osc!Record, Osc!filter, Osc!life
<1>2. CASE Osc!Compare(h)
  <2>1. /\ pc[h] = "compare" /\ UNCHANGED previous_data
        /\ pc' = [pc EXCEPT ![h] = IF data[h] # previous_data THEN "record" ELSE "idle"]
    BY <1>2 DEF Osc!Compare, Osc!filter
  <2>2. OscTypes'
    BY <1>1, <2>1 DEF OscInv, OscTypes, Filtering
  <2>3. Registered'
    BY <1>1, <2>1 DEF OscInv, Registered, Idle
  <2>4. ASSUME ~overlapped PROVE Filtered'
    <3>1. \A o \in Handlers : pc'[o] = IF o # h THEN pc[o]
                                      ELSE IF data[h] # previous_data THEN "record" ELSE "idle"
      BY <2>1 DEF OscInv, OscTypes
    <3> QED
      BY <1>1, <2>1, <2>4, <3>1 DEF OscInv, Filtered, Filtering
  <2> QED
    BY <1>1, <2>2, <2>3, <2>4 DEF OscInv
<1>3. CASE Osc!Record(h)
  <2>1. /\ pc[h] = "record" /\ previous_data' = data[h]
        /\ pc' = [pc EXCEPT ![h] = "call"]
    BY <1>3 DEF Osc!Record
  <2>2. OscTypes'
    BY <1>1, <2>1 DEF OscInv, OscTypes, Filtering
  <2>3. Registered'
    BY <1>1, <2>1 DEF OscInv, Registered, Idle
  <2>4. ASSUME ~overlapped PROVE Filtered'
    <3>1. \A o \in Handlers : pc'[o] = IF o # h THEN pc[o] ELSE "call"
      BY <2>1 DEF OscInv, OscTypes
    <3> QED
      BY <1>1, <2>1, <2>4, <3>1 DEF OscInv, Filtered, Filtering
  <2> QED
    BY <1>1, <2>2, <2>3, <2>4 DEF OscInv
<1> QED
  BY <1>2, <1>3

LEMMA OscCall ==
  ASSUME OscInv, NEW h \in Handlers, Osc!Call(h)
  PROVE  OscInv'
<1>1. /\ pc[h] = "call" /\ calls' = calls + 1
      /\ \/ servo' = data[h] /\ UNCHANGED foreign
         \/ UNCHANGED servo /\ foreign' = TRUE
      /\ pc' = [pc EXCEPT ![h] = "idle"]
      /\ UNCHANGED <<started, server, stopping, listeners, failed, previous_data, changes, last,
                     overlapped, data>>
  BY DEF Osc!Call, Osc!life
<1>2. OscTypes
  BY DEF OscInv
<1>3. Registered'
  BY <1>1 DEF OscInv, Registered, Idle
<1>4. \A o \in Handlers : pc'[o] = IF o # h THEN pc[o] ELSE "idle"
  BY <1>1, <1>2 DEF OscTypes
<1>5. ASSUME ~overlapped PROVE Filtered'
  <2>1. /\ Filtered /\ data[h] = last /\ last # None /\ previous_data = last
        /\ calls < changes
        /\ \A o \in Handlers : o # h => pc[o] \notin Filtering
    BY <1>1, <1>5 DEF OscInv, Filtered, Filtering
  <2>2. calls' <= changes'
    BY <1>1, <1>2, <2>1 DEF OscTypes
  <2> QED
    BY <1>1, <1>4, <2>1, <2>2 DEF Filtered, Filtering
<1>6. OscTypes'
  <2>1. data[h] \in BOOLEAN
    BY <1>1, <1>2 DEF OscTypes, Filtering
  <2>2. servo' \in BOOLEAN /\ foreign' \in BOOLEAN
    BY <1>1, <1>2, <2>1 DEF OscTypes
  <2> QED
    BY <1>1, <1>2, <1>4, <2>2 DEF OscTypes, Filtering
<1> QED
  BY <1>1, <1>3, <1>5, <1>6 DEF OscInv

\* Whoever else switches the servo is remembered as that.
LEMMA OscForeign ==
  ASSUME OscInv, (\E h \in Handlers : Osc!Command(h)) \/ (\E level \in BOOLEAN : Osc!Web(level))
  PROVE  OscInv'
<1>1. ASSUME NEW h \in Handlers, Osc!Command(h) PROVE OscInv'
  <2>1. /\ pc[h] \in {"idle", "command"} /\ (pc[h] = "idle" => server # None)
        /\ pc' = [pc EXCEPT ![h] = IF pc[h] = "idle" THEN "command" ELSE "idle"]
        /\ servo' \in {servo, FALSE} /\ (pc[h] = "idle" => UNCHANGED <<servo, foreign>>)
        /\ foreign' = (foreign \/ servo' # servo)
        /\ UNCHANGED <<started, server, stopping, listeners, failed, previous_data, changes,
                       calls, last, overlapped, data>>
    <3>1. OscTypes
      BY DEF OscInv
    <3> QED
      BY <1>1, <3>1 DEF Osc!Command, Osc!Serving, Osc!life, Osc!filter, OscTypes
  <2>2. OscTypes /\ foreign' \in BOOLEAN /\ servo' \in BOOLEAN
    BY <2>1 DEF OscInv, OscTypes
  <2>3. \A o \in Handlers : pc'[o] = IF o # h THEN pc[o]
                                    ELSE IF pc[h] = "idle" THEN "command" ELSE "idle"
    BY <2>1, <2>2 DEF OscTypes
  <2>4. \A o \in Handlers : pc'[o] \in Filtering => pc'[o] = pc[o]
    BY <2>1, <2>3 DEF Filtering
  <2>5. \A o \in Handlers : pc[o] \in Filtering => pc'[o] = pc[o]
    BY <2>1, <2>3 DEF Filtering
  <2>6. OscTypes'
    <3>1. pc' \in [Handlers -> {"idle", "command"} \union Filtering]
      BY <2>1, <2>2 DEF OscTypes
    <3> QED
      BY <2>1, <2>2, <2>4, <3>1 DEF OscTypes
  <2>7. Registered'
    BY <2>1, <2>3 DEF OscInv, Registered, Idle
  <2>8. ASSUME ~overlapped PROVE Filtered'
    <3>1. ~foreign' => ~foreign /\ servo' = servo
      BY <2>1
    <3> QED
      BY <2>1, <2>4, <2>5, <2>8, <3>1 DEF OscInv, Filtered, Filtering
  <2> QED
    BY <2>1, <2>6, <2>7, <2>8 DEF OscInv
<1>2. ASSUME NEW level \in BOOLEAN, Osc!Web(level) PROVE OscInv'
  <2>1. /\ servo' = level /\ foreign' = (foreign \/ server # None)
        /\ UNCHANGED <<started, server, stopping, listeners, failed, previous_data, changes,
                       calls, last, overlapped, pc, data>>
    BY <1>2 DEF Osc!Web, Osc!life, Osc!filter
  <2>2. foreign' \in BOOLEAN /\ servo' \in BOOLEAN
    BY <2>1 DEF OscInv, OscTypes
  <2>3. OscTypes' /\ Registered'
    BY <2>1, <2>2 DEF OscInv, OscTypes, Registered, Idle
  <2>4. ASSUME ~overlapped PROVE Filtered'
    <3>1. ~foreign' => server' = None
      BY <2>1
    <3> QED
      BY <2>1, <2>4, <3>1 DEF OscInv, Filtered
  <2> QED
    BY <2>1, <2>3, <2>4 DEF OscInv
<1> QED
  BY <1>1, <1>2

\* OscInv holds in every reachable state of the OSC server.
THEOREM OscInvariant == Osc!Spec => []OscInv
<1>1. Osc!Init => OscInv
  BY OscInit
<1>2. OscInv /\ [Osc!Next]_(Osc!vars) => OscInv'
  <2> SUFFICES ASSUME OscInv, [Osc!Next]_(Osc!vars) PROVE OscInv'
    OBVIOUS
  <2>1. CASE UNCHANGED Osc!vars
    BY <2>1 DEF Osc!vars, Osc!life, Osc!filter, OscInv, OscTypes, Registered, Filtered, Idle
  <2> QED
    BY <2>1, OscStart, OscStop, OscMessage, OscCompare, OscCall, OscForeign DEF Osc!Next
<1> QED
  BY <1>1, <1>2, PTL DEF Osc!Spec

\* For any number of handler threads and messages: once its handlers are done the
\* servo is what the last message said, unless two ran together or somebody else
\* had a hand in it, and there is at most one call for each change.
THEOREM OscServoFollowsSender == Osc!Spec => []ServoFollowsSender
<1>1. OscInv => ServoFollowsSender
  BY DEF OscInv, OscTypes, Filtered, Filtering, ServoFollowsSender, Osc!ServoFollowsSender
<1> QED
  BY <1>1, OscInvariant, PTL

\* No handler of a stopped server runs, and until a start fails its listeners are
\* registered just while it serves.
THEOREM OscStoppedIsSilent == Osc!Spec => []StoppedIsSilent
<1>1. OscInv => StoppedIsSilent
  BY DEF OscInv, Registered, Idle, StoppedIsSilent, Osc!StoppedIsSilent
<1> QED
  BY <1>1, OscInvariant, PTL

-----------------------------------------------------------------------------
(* The triggers of Art-Net. *)

\* The number of the frame that was sent n frames before the one with number s.
Behind(s, n) == IF s > n THEN s - n ELSE s - n + SEQUENCES - 1

ArtnetFrames == [sequence : 1..(SEQUENCES - 1), levels : SUBSET UNION Presses]

\* What is under way was sent in a row.
FlightInv ==
    /\ flight \in Seq(ArtnetFrames)
    /\ Len(flight) \in 1..WINDOW
    /\ \A i, j \in 1..Len(flight) :
         i < j => flight[j].sequence = Behind(flight[i].sequence, j - i)

\* Channel ch is up in frame i, as far as the server can tell.
Up(ch, i) == Artnet!Present(ch) /\ ch \in flight[i].levels

\* How often the sender had raised ch when it sent each frame: more often than
\* before when the channel came up in between.
Raises(ch, r) ==
    /\ r \in [1..Len(flight) -> Nat]
    /\ r[1] = raised[ch]
    /\ \A i, j \in 1..Len(flight) :
         i < j => /\ r[j] <= r[i]
                  /\ Up(ch, i) /\ ~Up(ch, j) => r[j] < r[i]

\* The server has reached frame p: older ones are refused, and on what it has still
\* to see it acts no more often than the sender had raised the channel.
Reach(ch, r, p) ==
    /\ p \in 1..Len(flight)
    /\ \A i \in 1..Len(flight) : i > p => ~Artnet!SequenceIsCurrent(flight[i].sequence)
    /\ \A i \in 1..p : /\ fired[ch] <= r[i]
                       /\ Up(ch, i) /\ ch \notin last_trigger_states => fired[ch] < r[i]

FiredInv(ch) ==
    /\ fired[ch] \in Nat /\ raised[ch] \in Nat
    /\ ch \in Artnet!Dangerous /\ ~enable_dangerous => fired[ch] = 0
    /\ \E r \in [1..Len(flight) -> Nat], p \in 1..Len(flight) : Raises(ch, r) /\ Reach(ch, r, p)

TriggerInv == FlightInv /\ \A ch \in Artnet!Triggers : FiredInv(ch)

\* The remainder of a number that is in range, and of one that is a turn below it.
LEMMA Remainder ==
  ASSUME NEW n \in Nat, NEW a \in 0..(n - 1)
  PROVE  a % n = a /\ (a - n) % n = a
  OBVIOUS

\* An older frame that is still under way is refused, across the wrap of the
\* sequence byte too, where the difference is one more: 0 is not used.
LEMMA OlderIsRefused ==
  ASSUME NEW s \in 1..(SEQUENCES - 1), NEW n \in 1..(WINDOW - 1)
  PROVE  (s - Behind(s, n)) % SEQUENCES \in 1..(SEQUENCES \div 2 - 1)
<1>1. n \in 0..(SEQUENCES - 1) /\ n + 1 \in 0..(SEQUENCES - 1) /\ n + 1 <= SEQUENCES \div 2 - 1
  OBVIOUS
<1>2. CASE s > n
  <2>1. s - Behind(s, n) = n
    BY <1>2 DEF Behind
  <2> QED
    BY <1>1, <2>1, Remainder
<1>3. CASE ~(s > n)
  <2>1. s - Behind(s, n) = (n + 1) - SEQUENCES
    BY <1>3 DEF Behind
  <2>2. ((n + 1) - SEQUENCES) % SEQUENCES = n + 1
    BY <1>1, Remainder
  <2> QED
    BY <1>1, <2>1, <2>2
<1> QED
  BY <1>2, <1>3

\* One more frame puts all others one further behind.
LEMMA NextIsAhead ==
  ASSUME NEW s \in 1..(SEQUENCES - 1), NEW n \in 0..(WINDOW - 1)
  PROVE  /\ Artnet!NextSequence(s) \in 1..(SEQUENCES - 1)
         /\ Behind(Artnet!NextSequence(s), n + 1) = Behind(s, n)
         /\ Behind(s, 0) = s
  BY DEF Artnet!NextSequence, Behind

LEMMA ArtnetInit == Artnet!Init => TriggerInv
<1> SUFFICES ASSUME Artnet!Init PROVE TriggerInv
  OBVIOUS
<1>1. Artnet!Rest \in ArtnetFrames
  BY DEF Artnet!Rest, ArtnetFrames
<1>2. flight = <<Artnet!Rest>> /\ Len(flight) = 1 /\ flight[1] = Artnet!Rest
  BY DEF Artnet!Init
<1>3. FlightInv
  BY <1>1, <1>2 DEF FlightInv
<1>4. ASSUME NEW ch \in Artnet!Triggers PROVE FiredInv(ch)
  <2> DEFINE r == [i \in 1..1 |-> 0]
  <2>1. fired[ch] = 0 /\ raised[ch] = 0 /\ ~Up(ch, 1)
    BY <1>2, <1>4 DEF Artnet!Init, Artnet!Rest, Up
  <2>2. Raises(ch, r)
    BY <1>2, <2>1 DEF Raises
  <2>3. Reach(ch, r, 1)
    BY <1>2, <2>1 DEF Reach
  <2>4. r \in [1..Len(flight) -> Nat] /\ 1 \in 1..Len(flight)
    BY <1>2
  <2> QED
    BY <2>1, <2>2, <2>3, <2>4 DEF FiredInv
<1> QED
  BY <1>3, <1>4 DEF TriggerInv

\* What is in flight when one more frame has been sent.
LEMMA FlightOfSend ==
  ASSUME FlightInv, Artnet!Send
  PROVE  \E levels \in SUBSET UNION Presses :
           /\ flight'[1] = [sequence |-> Artnet!NextSequence(flight[1].sequence),
                            levels |-> levels]
           /\ raised' = [ch \in Artnet!Triggers |->
                            raised[ch] + (IF ch \in levels \ flight[1].levels THEN 1 ELSE 0)]
           /\ flight' \in Seq(ArtnetFrames) /\ Len(flight') \in 1..WINDOW
           /\ Len(flight') <= Len(flight) + 1
           /\ \A i \in 1..Len(flight') : i > 1 => i - 1 \in 1..Len(flight) /\ flight'[i] = flight[i - 1]
<1> DEFINE k == Artnet!Min({Len(flight), WINDOW - 1})
           next(levels) == [sequence |-> Artnet!NextSequence(flight[1].sequence),
                            levels |-> levels]
<1>1. PICK levels \in {flight[1].levels, {}} \union {flight[1].levels \union p : p \in Presses} :
        /\ raised' = [ch \in Artnet!Triggers |->
                         raised[ch] + (IF ch \in levels \ flight[1].levels THEN 1 ELSE 0)]
        /\ flight' = <<next(levels)>> \o SubSeq(flight, 1, k)
  BY DEF Artnet!Send
<1>2. /\ flight \in Seq(ArtnetFrames) /\ Len(flight) \in 1..WINDOW /\ flight[1] \in ArtnetFrames
  BY DEF FlightInv
<1>3. k = IF Len(flight) <= WINDOW - 1 THEN Len(flight) ELSE WINDOW - 1
  BY <1>2 DEF Artnet!Min
<1>4. k \in 0..(WINDOW - 1) /\ k <= Len(flight)
  BY <1>2, <1>3
<1>5. levels \in SUBSET UNION Presses
  BY <1>2 DEF ArtnetFrames
<1>6. next(levels) \in ArtnetFrames
  BY <1>2, <1>5, NextIsAhead DEF ArtnetFrames
<1> HIDE DEF k, next
<1>7. /\ SubSeq(flight, 1, k) \in Seq(ArtnetFrames) /\ Len(SubSeq(flight, 1, k)) = k
      /\ \A i \in 1..k : SubSeq(flight, 1, k)[i] = flight[i]
  BY <1>2, <1>4
<1>8. /\ flight' \in Seq(ArtnetFrames) /\ Len(flight') = k + 1 /\ flight'[1] = next(levels)
      /\ \A i \in 1..Len(flight') : i > 1 => i - 1 \in 1..k /\ flight'[i] = SubSeq(flight, 1, k)[i - 1]
  BY <1>1, <1>4, <1>6, <1>7
<1>9. Len(flight') \in 1..WINDOW /\ Len(flight') <= Len(flight) + 1
  BY <1>2, <1>4, <1>8
<1>10. \A i \in 1..Len(flight') : i > 1 => i - 1 \in 1..Len(flight) /\ flight'[i] = flight[i - 1]
  BY <1>2, <1>4, <1>7, <1>8
<1>11. flight'[1] = [sequence |-> Artnet!NextSequence(flight[1].sequence), levels |-> levels]
  BY <1>8 DEF next
<1> QED
  BY <1>1, <1>5, <1>8, <1>9, <1>10, <1>11

LEMMA ArtnetSend ==
  ASSUME TriggerInv, Artnet!Send
  PROVE  TriggerInv'
<1>1. PICK levels \in SUBSET UNION Presses :
        /\ flight'[1] = [sequence |-> Artnet!NextSequence(flight[1].sequence), levels |-> levels]
        /\ raised' = [ch \in Artnet!Triggers |->
                         raised[ch] + (IF ch \in levels \ flight[1].levels THEN 1 ELSE 0)]
        /\ flight' \in Seq(ArtnetFrames) /\ Len(flight') \in 1..WINDOW
        /\ Len(flight') <= Len(flight) + 1
        /\ \A i \in 1..Len(flight') : i > 1 => i - 1 \in 1..Len(flight) /\ flight'[i] = flight[i - 1]
  BY FlightOfSend DEF TriggerInv
<1>2. UNCHANGED <<enable_dangerous, frame_bytes, last_sequence, last_trigger_states, fired>>
  BY DEF Artnet!Send, Artnet!chosen, Artnet!received
<1>3. FlightInv /\ Len(flight) \in 1..WINDOW /\ flight[1].sequence \in 1..(SEQUENCES - 1)
  <2>1. FlightInv /\ flight \in Seq(ArtnetFrames) /\ Len(flight) \in 1..WINDOW
    BY DEF TriggerInv, FlightInv
  <2>2. flight[1] \in ArtnetFrames
    BY <2>1
  <2> QED
    BY <2>1, <2>2 DEF ArtnetFrames
<1>4. FlightInv'
  <2>1. ASSUME NEW i \in 1..Len(flight'), NEW j \in 1..Len(flight'), i < j
        PROVE  flight'[j].sequence = Behind(flight'[i].sequence, j - i)
    <3>1. j > 1 /\ flight'[j] = flight[j - 1] /\ j - 1 \in 1..Len(flight)
      BY <1>1, <2>1
    <3>2. CASE i > 1
      <4>1. flight'[i] = flight[i - 1] /\ i - 1 \in 1..Len(flight)
        BY <1>1, <3>2
      <4>2. PICK a \in 1..Len(flight), b \in 1..Len(flight) : a = i - 1 /\ b = j - 1
        BY <3>1, <4>1
      <4>3. a < b /\ b - a = j - i
        BY <1>1, <2>1, <4>2
      <4>4. flight[b].sequence = Behind(flight[a].sequence, b - a)
        BY <1>3, <4>3 DEF FlightInv
      <4> QED
        BY <3>1, <4>1, <4>2, <4>3, <4>4
    <3>3. CASE i = 1
      <4>1. flight'[1].sequence = Artnet!NextSequence(flight[1].sequence)
        BY <1>1
      <4>2. PICK n \in 0..(WINDOW - 1) : n = j - 2 /\ n + 1 = j - 1
        BY <1>1, <3>1
      <4>3. Behind(Artnet!NextSequence(flight[1].sequence), n + 1) = Behind(flight[1].sequence, n)
        BY <1>3, NextIsAhead
      <4>4. flight[j - 1].sequence = Behind(flight[1].sequence, j - 2)
        <5>1. CASE j = 2
          <6>1. Behind(flight[1].sequence, 0) = flight[1].sequence
            BY <1>3 DEF Behind
          <6> QED
            BY <5>1, <6>1
        <5>2. CASE j > 2
          <6>1. 1 < j - 1 /\ (j - 1) - 1 = j - 2 /\ 1 \in 1..Len(flight)
            BY <1>3, <5>2
          <6> QED
            BY <1>3, <3>1, <6>1 DEF FlightInv
        <5> QED
          BY <3>1, <5>1, <5>2
      <4> QED
        BY <3>1, <3>3, <4>1, <4>2, <4>3, <4>4
    <3> QED
      BY <3>2, <3>3
  <2> QED
    BY <1>1, <2>1 DEF FlightInv
<1>5. ASSUME NEW ch \in Artnet!Triggers PROVE FiredInv(ch)'
  <2>1. FiredInv(ch)
    BY DEF TriggerInv
  <2>2. PICK r \in [1..Len(flight) -> Nat], p \in 1..Len(flight) : Raises(ch, r) /\ Reach(ch, r, p)
    BY <2>1 DEF FiredInv
  <2>a. PICK s : s = [i \in 1..Len(flight') |-> IF i = 1 THEN raised'[ch] ELSE r[i - 1]]
    OBVIOUS
  <2>b. PICK q : q = IF p + 1 <= Len(flight') THEN p + 1 ELSE Len(flight')
    OBVIOUS
  <2>3. /\ raised'[ch] = raised[ch] + (IF ch \in levels \ flight[1].levels THEN 1 ELSE 0)
        /\ fired[ch] \in Nat /\ raised[ch] \in Nat /\ raised'[ch] \in Nat /\ raised[ch] <= raised'[ch]
    BY <1>1, <2>1 DEF FiredInv
  <2>4. s \in [1..Len(flight') -> Nat] /\ s[1] = raised'[ch]
        /\ \A i \in 1..Len(flight') : i > 1 => s[i] = r[i - 1]
    BY <1>1, <2>3, <2>a
  <2>5. \A i \in 1..Len(flight') : i > 1 => (Up(ch, i)' <=> Up(ch, i - 1))
    BY <1>1, <1>2 DEF Up, Artnet!Present
  <2>6. Up(ch, 1)' /\ ~Up(ch, 1) => raised[ch] < raised'[ch]
    BY <1>1, <1>2, <2>3 DEF Up, Artnet!Present
  <2>7. /\ r[1] = raised[ch] /\ 1 \in 1..Len(flight)
        /\ \A j \in 1..Len(flight) : r[j] <= r[1] /\ (Up(ch, 1) /\ ~Up(ch, j) => r[j] < r[1])
    BY <1>3, <2>2 DEF Raises
  <2>8. Raises(ch, s)'
    <3>1. ASSUME NEW i \in 1..Len(flight'), NEW j \in 1..Len(flight'), i < j
          PROVE  s[j] <= s[i] /\ (Up(ch, i)' /\ ~Up(ch, j)' => s[j] < s[i])
      <4>1. j > 1 /\ j - 1 \in 1..Len(flight) /\ s[j] = r[j - 1] /\ (Up(ch, j)' <=> Up(ch, j - 1))
        BY <1>1, <2>4, <2>5, <3>1
      <4>2. CASE i > 1
        <5>1. i - 1 \in 1..Len(flight) /\ s[i] = r[i - 1] /\ (Up(ch, i)' <=> Up(ch, i - 1))
              /\ i - 1 < j - 1
          BY <1>1, <2>4, <2>5, <3>1, <4>2
        <5> QED
          BY <2>2, <4>1, <5>1 DEF Raises
      <4>3. CASE i = 1
        <5>1. r[j - 1] \in Nat
          BY <2>2, <4>1
        <5>2. s[i] = raised'[ch] /\ r[j - 1] <= raised[ch]
          BY <2>4, <2>7, <4>1, <4>3
        <5>3. Up(ch, 1)' /\ ~Up(ch, j - 1) => r[j - 1] < raised'[ch]
          <6>1. CASE Up(ch, 1)
            BY <2>3, <2>7, <4>1, <5>1, <6>1
          <6>2. CASE ~Up(ch, 1)
            BY <2>3, <2>6, <5>1, <5>2, <6>2
          <6> QED
            BY <6>1, <6>2
        <5> QED
          BY <2>3, <4>1, <4>3, <5>1, <5>2, <5>3
      <4> QED
        BY <4>2, <4>3
    <3> QED
      BY <2>4, <3>1 DEF Raises
  <2>9. q \in 1..Len(flight') /\ q <= p + 1 /\ (q < Len(flight') => q = p + 1)
    BY <1>1, <1>3, <2>b
  <2>10. Reach(ch, s, q)'
    <3>1. ASSUME NEW i \in 1..Len(flight'), i > q
          PROVE  (~Artnet!SequenceIsCurrent(flight[i].sequence))'
      <4>1. i > 1 /\ i - 1 > p /\ i - 1 \in 1..Len(flight) /\ flight'[i] = flight[i - 1]
        BY <1>1, <2>9, <3>1
      <4>2. ~Artnet!SequenceIsCurrent(flight[i - 1].sequence)
        BY <2>2, <4>1 DEF Reach
      <4> QED
        BY <1>2, <4>1, <4>2 DEF Artnet!SequenceIsCurrent
    <3>2. ASSUME NEW i \in 1..q
          PROVE  fired[ch] <= s[i] /\ (Up(ch, i)' /\ ch \notin last_trigger_states => fired[ch] < s[i])
      <4>1. CASE i > 1
        <5>1. i \in 1..Len(flight') /\ i - 1 \in 1..p
          BY <1>1, <2>9, <4>1
        <5> QED
          BY <2>2, <2>4, <2>5, <4>1, <5>1 DEF Reach
      <4>2. CASE i = 1
        <5>1. 1 \in 1..p
          BY <1>3
        <5>2. fired[ch] <= raised[ch] /\ (Up(ch, 1) /\ ch \notin last_trigger_states => fired[ch] < raised[ch])
          BY <2>2, <2>7, <5>1 DEF Reach
        <5> QED
          BY <2>3, <2>4, <2>6, <4>2, <5>2
      <4> QED
        BY <4>1, <4>2
    <3> QED
      BY <1>2, <2>9, <3>1, <3>2 DEF Reach
  <2> QED
    BY <1>2, <2>1, <2>3, <2>4, <2>8, <2>9, <2>10 DEF FiredInv
<1> QED
  BY <1>4, <1>5 DEF TriggerInv

\* A frame that is accepted is as new as the last one, and everything older is
\* refused from then on.
LEMMA ArtnetReceive ==
  ASSUME TriggerInv, NEW n \in 1..Len(flight), NEW raising \in {None, 10, 11},
         Artnet!Receive(n, raising)
  PROVE  TriggerInv'
<1> DEFINE acts == {ch \in Artnet!Triggers : /\ Artnet!Reached(ch, raising)
                                            /\ Artnet!Accepted(ch, flight[n].levels)}
<1>1. /\ Artnet!SequenceIsCurrent(flight[n].sequence)
      /\ last_sequence' = flight[n].sequence
      /\ last_trigger_states' =
           {ch \in flight[n].levels \ {8} : Artnet!Present(ch) /\ Artnet!Reached(ch, raising)}
             \union {ch \in last_trigger_states : ~Artnet!Reached(ch, raising)}
      /\ fired' = [ch \in Artnet!Triggers |-> fired[ch] + (IF ch \in acts THEN 1 ELSE 0)]
      /\ UNCHANGED <<enable_dangerous, frame_bytes, flight, raised>>
  BY DEF Artnet!Receive, Artnet!HandleFrame, Artnet!chosen
<1>2. FlightInv /\ FlightInv' /\ Len(flight) \in 1..WINDOW
  BY <1>1 DEF TriggerInv, FlightInv
<1>3. ASSUME NEW i \in 1..Len(flight), i > n
      PROVE  (~Artnet!SequenceIsCurrent(flight[i].sequence))'
  <2>1. flight[n].sequence \in 1..(SEQUENCES - 1)
    <3>1. flight[n] \in ArtnetFrames
      BY <1>2 DEF FlightInv
    <3> QED
      BY <3>1 DEF ArtnetFrames
  <2>2. PICK m \in 1..(WINDOW - 1) : m = i - n
    BY <1>2, <1>3
  <2>3. flight[i].sequence = Behind(flight[n].sequence, m)
    BY <1>2, <1>3, <2>2 DEF FlightInv
  <2>4. (flight[n].sequence - flight[i].sequence) % SEQUENCES \in 1..(SEQUENCES \div 2 - 1)
    BY <2>1, <2>3, OlderIsRefused
  <2>5. last_sequence' # None
    BY <1>1, <2>1
  <2> QED
    BY <1>1, <2>4, <2>5 DEF Artnet!SequenceIsCurrent
<1>4. ASSUME NEW ch \in Artnet!Triggers PROVE FiredInv(ch)'
  <2>1. FiredInv(ch)
    BY DEF TriggerInv
  <2>2. PICK r \in [1..Len(flight) -> Nat], p \in 1..Len(flight) : Raises(ch, r) /\ Reach(ch, r, p)
    BY <2>1 DEF FiredInv
  <2>3. n \in 1..p
    BY <1>1, <2>2 DEF Reach
  <2>4. \A i \in 1..n : i \in 1..p /\ r[i] \in Nat /\ r[n] <= r[i]
    BY <1>2, <2>2, <2>3 DEF Raises
  <2>5. fired[ch] \in Nat /\ fired'[ch] = fired[ch] + (IF ch \in acts THEN 1 ELSE 0)
    BY <1>1, <2>1 DEF FiredInv
  <2>6. \A i \in 1..Len(flight) : Up(ch, i)' <=> Up(ch, i)
    BY <1>1 DEF Up, Artnet!Present
  <2>7. ch # 8
    BY DEF Artnet!Triggers
  <2>8. ch \in acts =>
          /\ Up(ch, n) /\ ch \notin last_trigger_states /\ Artnet!Reached(ch, raising)
          /\ ch \in Artnet!Dangerous => enable_dangerous
    BY DEF Artnet!Accepted, Artnet!RisingEdge, Up
  <2>9. ASSUME Artnet!Reached(ch, raising)
        PROVE  \A i \in 1..n : /\ fired'[ch] <= r[i]
                               /\ Up(ch, i)' /\ ch \notin last_trigger_states' => fired'[ch] < r[i]
    <3>1. ch \in last_trigger_states' <=> Up(ch, n)
      BY <1>1, <2>7, <2>9 DEF Up
    <3>2. ASSUME NEW i \in 1..n
          PROVE  /\ fired'[ch] <= r[i]
                 /\ Up(ch, i)' /\ ch \notin last_trigger_states' => fired'[ch] < r[i]
      <4>1. fired[ch] <= r[n] /\ (Up(ch, n) /\ ch \notin last_trigger_states => fired[ch] < r[n])
        BY <2>2, <2>3, <2>4 DEF Reach
      <4>2. fired'[ch] <= r[n]
        BY <2>4, <2>5, <2>8, <4>1
      <4>3. Up(ch, i) /\ ~Up(ch, n) => r[n] < r[i]
        <5>1. CASE i = n
          BY <5>1
        <5>2. CASE i < n
          BY <1>2, <2>2, <5>2 DEF Raises
        <5> QED
          BY <5>1, <5>2
      <4> QED
        BY <1>2, <2>4, <2>5, <2>6, <3>1, <4>2, <4>3
    <3> QED
      BY <3>2
  <2>10. ASSUME ~Artnet!Reached(ch, raising)
        PROVE  \A i \in 1..n : /\ fired'[ch] <= r[i]
                               /\ Up(ch, i)' /\ ch \notin last_trigger_states' => fired'[ch] < r[i]
    <3>1. (ch \in last_trigger_states' <=> ch \in last_trigger_states) /\ ch \notin acts
      BY <1>1, <2>10
    <3> QED
      BY <1>1, <1>2, <2>2, <2>4, <2>5, <2>6, <3>1 DEF Reach
  <2>11. \A i \in 1..n : /\ fired'[ch] <= r[i]
                         /\ Up(ch, i)' /\ ch \notin last_trigger_states' => fired'[ch] < r[i]
    BY <2>9, <2>10
  <2>12. Reach(ch, r, n)'
    BY <1>1, <1>3, <2>11 DEF Reach
  <2>13. Raises(ch, r)'
    BY <1>1, <2>2, <2>6 DEF Raises
  <2>14. /\ fired'[ch] \in Nat /\ raised'[ch] \in Nat
         /\ ch \in Artnet!Dangerous /\ ~enable_dangerous' => fired'[ch] = 0
    BY <1>1, <2>1, <2>5, <2>8 DEF FiredInv
  <2> QED
    BY <1>1, <2>12, <2>13, <2>14 DEF FiredInv
<1> QED
  BY <1>2, <1>4 DEF TriggerInv

\* After a quiet second only the newest frame is under way.
LEMMA ArtnetQuiet ==
  ASSUME TriggerInv, Artnet!Quiet
  PROVE  TriggerInv'
<1>1. /\ last_sequence' = None /\ flight' = <<flight[1]>>
      /\ UNCHANGED <<enable_dangerous, frame_bytes, last_trigger_states, raised, fired>>
  BY DEF Artnet!Quiet, Artnet!chosen
<1>2. /\ FlightInv /\ 1 \in 1..Len(flight) /\ flight[1] \in ArtnetFrames
      /\ Len(flight') = 1 /\ flight'[1] = flight[1]
  BY <1>1 DEF TriggerInv, FlightInv
<1>3. FlightInv'
  BY <1>1, <1>2 DEF FlightInv
<1>4. ASSUME NEW ch \in Artnet!Triggers PROVE FiredInv(ch)'
  <2>1. FiredInv(ch)
    BY DEF TriggerInv
  <2>2. PICK r \in [1..Len(flight) -> Nat], p \in 1..Len(flight) : Raises(ch, r) /\ Reach(ch, r, p)
    BY <2>1 DEF FiredInv
  <2>3. PICK s : s = [i \in 1..1 |-> r[1]]
    OBVIOUS
  <2>4. s \in [1..1 -> Nat] /\ s[1] = r[1] /\ 1 \in 1..p
    BY <1>2, <2>2, <2>3
  <2>5. Up(ch, 1)' <=> Up(ch, 1)
    BY <1>1, <1>2 DEF Up, Artnet!Present
  <2>6. Raises(ch, s)'
    BY <1>1, <1>2, <2>2, <2>4 DEF Raises
  <2>7. Reach(ch, s, 1)'
    BY <1>1, <1>2, <2>2, <2>4, <2>5 DEF Reach
  <2> QED
    BY <1>1, <1>2, <2>1, <2>4, <2>6, <2>7 DEF FiredInv
<1> QED
  BY <1>3, <1>4 DEF TriggerInv

\* A new instance of the server has acted upon nothing.
LEMMA ArtnetRestart ==
  ASSUME TriggerInv, Artnet!Restart
  PROVE  TriggerInv'
<1>1. /\ last_sequence' = None /\ flight' = <<flight[1]>>
      /\ last_trigger_states' = {}
      /\ raised' = [ch \in Artnet!Triggers |-> IF ch \in flight[1].levels THEN 1 ELSE 0]
      /\ fired' = [ch \in Artnet!Triggers |-> 0]
  BY DEF Artnet!Restart
<1>2. /\ FlightInv /\ flight[1] \in ArtnetFrames
      /\ Len(flight') = 1 /\ flight'[1] = flight[1]
  BY <1>1 DEF TriggerInv, FlightInv
<1>3. FlightInv'
  BY <1>1, <1>2 DEF FlightInv
<1>4. ASSUME NEW ch \in Artnet!Triggers PROVE FiredInv(ch)'
  <2>1. PICK s : s = [i \in 1..1 |-> raised'[ch]]
    OBVIOUS
  <2>2. fired'[ch] = 0 /\ raised'[ch] \in Nat /\ (ch \in flight'[1].levels => raised'[ch] = 1)
    BY <1>1, <1>2
  <2>3. s \in [1..1 -> Nat] /\ s[1] = raised'[ch]
    BY <2>1, <2>2
  <2>4. Raises(ch, s)'
    BY <1>2, <2>3 DEF Raises
  <2>5. Reach(ch, s, 1)'
    BY <1>2, <2>2, <2>3 DEF Reach, Up
  <2> QED
    BY <1>2, <2>2, <2>3, <2>4, <2>5 DEF FiredInv
<1> QED
  BY <1>3, <1>4 DEF TriggerInv

\* What the invariant speaks of, left alone.
LEMMA ArtnetUnchanged ==
  ASSUME TriggerInv,
         UNCHANGED <<enable_dangerous, frame_bytes, flight, last_sequence,
                     last_trigger_states, raised, fired>>
  PROVE  TriggerInv'
<1>1. FlightInv'
  BY DEF TriggerInv, FlightInv
<1>2. ASSUME NEW ch \in Artnet!Triggers PROVE FiredInv(ch)'
  <2>1. FiredInv(ch)
    BY DEF TriggerInv
  <2>2. PICK r \in [1..Len(flight) -> Nat], p \in 1..Len(flight) : Raises(ch, r) /\ Reach(ch, r, p)
    BY <2>1 DEF FiredInv
  <2>3. \A i : Up(ch, i)' <=> Up(ch, i)
    BY DEF Up, Artnet!Present
  <2>4. Raises(ch, r)'
    BY <2>2, <2>3 DEF Raises
  <2>5. Reach(ch, r, p)'
    BY <2>2, <2>3 DEF Reach, Artnet!SequenceIsCurrent
  <2> QED
    BY <2>1, <2>4, <2>5 DEF FiredInv
<1> QED
  BY <1>1, <1>2 DEF TriggerInv

\* TriggerInv holds in every reachable state of the triggers.
THEOREM ArtnetTriggerInvariant == Artnet!Spec => []TriggerInv
<1>1. TriggerInv /\ [Artnet!Next]_(Artnet!vars) => TriggerInv'
  <2> SUFFICES ASSUME TriggerInv, [Artnet!Next]_(Artnet!vars) PROVE TriggerInv'
    OBVIOUS
  <2>1. CASE UNCHANGED Artnet!vars
    BY <2>1, ArtnetUnchanged DEF Artnet!vars, Artnet!chosen, Artnet!received
  <2>2. CASE Artnet!CooldownOver
    BY <2>2, ArtnetUnchanged DEF Artnet!CooldownOver, Artnet!chosen
  <2> QED
    BY <2>1, <2>2, ArtnetSend, ArtnetReceive, ArtnetQuiet, ArtnetRestart DEF Artnet!Next
<1> QED
  BY <1>1, ArtnetInit, PTL DEF Artnet!Spec

\* For any sets of channels, any number of sequence values and any window shorter
\* than half of them: an instance of the server acts on a channel at most once for
\* each time the sender raised it, and never on one that is disabled.
THEOREM ArtnetOncePerPress == Artnet!Spec => []OncePerPress
<1>1. TriggerInv => OncePerPress
  <2> SUFFICES ASSUME TriggerInv, NEW ch \in Artnet!Triggers
               PROVE  fired[ch] <= IF ch \in Artnet!Dangerous /\ ~enable_dangerous
                                   THEN 0 ELSE raised[ch]
    BY DEF OncePerPress, Artnet!OncePerPress
  <2>1. FiredInv(ch) /\ 1 \in 1..Len(flight)
    BY DEF TriggerInv, FlightInv
  <2>2. PICK r \in [1..Len(flight) -> Nat], p \in 1..Len(flight) : Raises(ch, r) /\ Reach(ch, r, p)
    BY <2>1 DEF FiredInv
  <2>3. fired[ch] <= r[1] /\ r[1] = raised[ch]
    BY <2>1, <2>2 DEF Raises, Reach
  <2> QED
    BY <2>1, <2>3 DEF FiredInv
<1> QED
  BY <1>1, ArtnetTriggerInvariant, PTL
=============================================================================
