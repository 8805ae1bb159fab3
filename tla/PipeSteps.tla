----------------------------- MODULE PipeSteps ------------------------------
(***************************************************************************)
(* The inductive invariant behind PipeSound, and the steps that keep it    *)
(* without counting anything: returns, sleeps, timeouts, reads and writes, *)
(* which copy in parts and must not be cut up to PIPE_BUF.                 *)
(***************************************************************************)
EXTENDS Pipe, TLAPS

(* The ring: byte i of those not yet read is at read_pos + i, around the   *)
(* page, and the next one is written after the last.                       *)
At(i) == ring.data[Wrap(ring.read_pos + i)]

RingInv ==
    /\ nread + ring.count = Len(sent)
    /\ ring.write_pos = Wrap(ring.read_pos + ring.count)
    /\ \A i \in 0..(ring.count - 1) : At(i) = sent[nread + 1 + i]

(* Calls have numbers of their own, and a short write that is still in its *)
(* loop has written nothing.                                               *)
Writing(p) == pc[p].op = "write"
Absent(c) == \A i \in 1..Len(sent) : sent[i] # c

CallsInv ==
    /\ \A i \in 1..Len(sent) : sent[i].call \in 1..calls
    /\ \A p \in Procs : Writing(p) =>
         /\ pc[p].c.call \in 1..calls /\ pc[p].c.len \in Lengths
         /\ pc[p].done < pc[p].c.len
         /\ pc[p].c.len <= PipeBuf => pc[p].done = 0 /\ Absent(pc[p].c)
    /\ \A p, q \in Procs : Writing(p) /\ Writing(q) /\ p # q => pc[p].c.call # pc[q].c.call

(* The end of the pipe a call is made on.                                  *)
EndOf(p) ==
    IF pc[p].op = "read" THEN "r" ELSE IF pc[p].op = "write" THEN "w" ELSE pc[p].e

(* A call is made on a descriptor its process holds; a wait node belongs   *)
(* to a call on the end whose queue it is in.                              *)
WaitInv ==
    /\ \A p \in Procs : pc[p].op # "idle" =>
         fds[p][EndOf(p)] = 1 /\ st[p] \notin {"NONE", "ZOMBIE"}
    /\ \A p \in Procs : st[p] = "NONE" => fds[p] = [e \in Ends |-> 0]
    /\ w[Elsewhere] \subseteq Others
    /\ \A e \in Ends : w[QueueOf(e)] \subseteq Procs
    /\ \A e \in Ends, p \in Procs : p \in w[QueueOf(e)] =>
         pc[p].op # "idle" /\ EndOf(p) = e /\ st[p] \in {"WAITING", "SLEEPING", "RUNNING"}

IInv ==
    /\ TypeOK /\ RingInv /\ CallsInv /\ AtomicWrites
    /\ WaitInv /\ RefsExact /\ NoLostWakeup

-----------------------------------------------------------------------------
(* Positions in the page wrap around once at most.                         *)
LEMMA Wraps ==
    /\ \A x \in Int : Wrap(x) \in 0..(Size - 1)
    /\ \A x \in 0..(Size - 1) : Wrap(x) = x
    /\ \A x \in Size..(Size + Size - 1) : Wrap(x) = x - Size
    /\ \A x \in (-Size)..(-1) : Wrap(x) = x + Size
<1>0. Size \in Nat \ {0}
  BY PipeAssumption, Zenon
<1>1. \A x \in Int : Wrap(x) \in 0..(Size - 1)
  BY <1>0 DEF Wrap
<1>2. ASSUME NEW x \in 0..(Size - 1) PROVE Wrap(x) = x
  BY <1>0 DEF Wrap
<1>3. ASSUME NEW x \in Size..(Size + Size - 1) PROVE Wrap(x) = x - Size
  BY <1>0 DEF Wrap
<1>4. ASSUME NEW x \in (-Size)..(-1) PROVE Wrap(x) = x + Size
  BY <1>0 DEF Wrap
<1>. QED  BY <1>1, <1>2, <1>3, <1>4, Zenon

(* What the type invariant says of the numbers.                            *)
LEMMA Numbers ==
    ASSUME TypeOK
    PROVE  /\ Size \in Nat \ {0} /\ PipeBuf \in 1..Size
           /\ ring.read_pos \in 0..(Size-1) /\ ring.write_pos \in 0..(Size-1)
           /\ ring.count \in 0..Size /\ Free = Size - ring.count
           /\ Len(sent) \in Nat /\ nread \in Nat /\ calls \in 0..MaxCalls
           /\ refs["r"] \in Nat /\ refs["w"] \in Nat
  BY PipeAssumption DEF TypeOK, Free, Ends

(* The lengths of calls are positive numbers.                              *)
LEMMA LengthsAreNat == \A x \in Lengths : x \in Nat \ {0} /\ x \in Int
  BY PipeAssumption

(* Going round the page in two parts or at once comes to the same place.   *)
LEMMA WrapTwice ==
    ASSUME NEW r \in 0..(Size-1), NEW n \in 0..Size, NEW i \in 0..Size, n + i <= Size
    PROVE  Wrap(Wrap(r + n) + i) = Wrap(r + (n + i))
<1>0. Size \in Nat \ {0}
  BY PipeAssumption, Zenon
<1>1. CASE r + n < Size
  BY <1>0, <1>1, Wraps
<1>2. CASE r + n >= Size
  <2>1. Wrap(r + n) = (r + n) - Size
    BY <1>0, <1>2, Wraps
  <2>2. Wrap(r + (n + i)) = (r + (n + i)) - Size
    BY <1>0, <1>2, Wraps
  <2>3. Wrap(((r + n) - Size) + i) = ((r + n) - Size) + i
    BY <1>0, <1>2, Wraps
  <2>. QED  BY <1>0, <2>1, <2>2, <2>3
<1>. QED  BY <1>0, <1>1, <1>2

RingType == [data : [0..(Size-1) -> Bytes], read_pos : 0..(Size-1),
             write_pos : 0..(Size-1), count : 0..Size]

(* Reading n bytes takes the n oldest.                                     *)
LEMMA TakeStep ==
    ASSUME TypeOK, RingInv, NEW n \in 0..ring.count,
           ring' = Take(n), nread' = nread + n, sent' = sent
    PROVE  RingInv' /\ ring' \in RingType /\ nread' \in Nat /\ ring'.count = ring.count - n
<1> DEFINE r == ring.read_pos
           m == ring.count
<1>1. /\ Size \in Nat \ {0} /\ nread \in Nat
      /\ r \in 0..(Size-1) /\ m \in 0..Size /\ n \in 0..Size
  BY Numbers
<1>2. ring'.read_pos = Wrap(r + n) /\ ring'.count = m - n
  BY Zenon DEF Take, TypeOK
<1>3. ring'.data = ring.data /\ ring'.write_pos = ring.write_pos
  BY Zenon DEF Take, TypeOK
<1>4. Wrap(r + n) \in 0..(Size-1) /\ m - n \in 0..Size
  BY <1>1, Wraps
<1>5. ring' \in RingType
  BY <1>4, Zenon DEF Take, TypeOK, RingType
<1>6. ASSUME NEW i \in 0..(m - n)
      PROVE  Wrap(ring'.read_pos + i) = Wrap(r + (n + i)) /\ n + i \in 0..m
  BY <1>1, <1>2, WrapTwice
<1>7. ring'.write_pos = Wrap(ring'.read_pos + ring'.count)
  <2>1. m - n \in 0..(m - n) /\ n + (m - n) = m
    BY <1>1
  <2>. QED  BY <1>2, <1>3, <1>6, <2>1, Zenon DEF RingInv
<1>8. ASSUME NEW i \in 0..(m - n - 1) PROVE At(i)' = sent[nread + n + 1 + i]
  <2>1. n + i \in 0..(m - 1) /\ i \in 0..(m - n)
    BY <1>1
  <2>2. At(i)' = At(n + i)
    BY <2>1, <1>3, <1>6, Zenon DEF At
  <2>3. At(n + i) = sent[nread + 1 + (n + i)]
    BY <2>1, Zenon DEF RingInv
  <2>4. nread + 1 + (n + i) = nread + n + 1 + i
    BY <1>1, <2>1
  <2>. QED  BY <2>2, <2>3, <2>4, Zenon
<1>9. (nread + n) + (m - n) = nread + m /\ nread + n \in Nat
  BY <1>1
<1>. QED  BY <1>2, <1>5, <1>7, <1>8, <1>9, Zenon DEF RingInv

(* How far place i of the ring is from place m.                            *)
LEMMA WrapApart ==
    ASSUME NEW r \in 0..(Size-1), NEW i \in 0..(Size-1), NEW m \in 0..Size
    PROVE  Wrap(Wrap(r + i) - Wrap(r + m)) = IF i >= m THEN i - m ELSE (i - m) + Size
<1>0. Size \in Nat \ {0}
  BY PipeAssumption, Zenon
<1>1. Wrap(r + i) = IF r + i < Size THEN r + i ELSE (r + i) - Size
  BY <1>0, Wraps
<1>2. Wrap(r + m) = IF r + m < Size THEN r + m ELSE (r + m) - Size
  BY <1>0, Wraps
<1> DEFINE d == Wrap(r + i) - Wrap(r + m)
<1>3. CASE i >= m
  <2>1. d = i - m \/ d = (i - m) - Size
    BY <1>0, <1>1, <1>2, <1>3
  <2>2. i - m \in 0..(Size-1) /\ ((i - m) - Size) \in (-Size)..(-1)
    BY <1>0, <1>3
  <2>. QED  BY <1>0, <1>3, <2>1, <2>2, Wraps
<1>4. CASE i < m
  <2>1. d = i - m \/ d = (i - m) + Size
    BY <1>0, <1>1, <1>2, <1>4
  <2>2. i - m \in (-Size)..(-1) /\ ((i - m) + Size) \in 0..(Size-1)
    BY <1>0, <1>4
  <2>. QED  BY <1>0, <1>4, <2>1, <2>2, Wraps
<1>. QED  BY <1>0, <1>3, <1>4

(* The arithmetic of PutStep: place i of a ring with n more bytes.         *)
LEMMA PutPlaces ==
    ASSUME NEW r \in 0..(Size-1), NEW m \in 0..Size, NEW n \in 0..(Size - m),
           NEW i \in 0..(m + n - 1), NEW from \in Nat, NEW L \in Nat, from + m = L
    PROVE  /\ i \in 0..(Size-1) /\ Wrap(r + i) \in 0..(Size-1)
           /\ i < m => /\ i \in 0..(m - 1) /\ from + 1 + i \in 1..L
                       /\ ~(Wrap(Wrap(r + i) - Wrap(r + m)) < n)
           /\ ~(i < m) => /\ from + 1 + i \in (L + 1)..(L + n)
                          /\ Wrap(Wrap(r + i) - Wrap(r + m)) < n
<1>0. Size \in Nat \ {0}
  BY PipeAssumption, Zenon
<1>1. i \in 0..(Size-1)
  BY <1>0
<1>2. Wrap(r + i) \in 0..(Size-1)
  BY <1>0, <1>1, Wraps
<1>3. Wrap(Wrap(r + i) - Wrap(r + m)) = IF i >= m THEN i - m ELSE (i - m) + Size
  BY <1>1, WrapApart, Zenon
<1>4. CASE i < m
  BY <1>0, <1>1, <1>2, <1>3, <1>4
<1>5. CASE ~(i < m)
  BY <1>0, <1>1, <1>2, <1>3, <1>5
<1>. QED  BY <1>1, <1>2, <1>4, <1>5, Zenon

(* The positions a write computes are positions of the page.               *)
LEMMA PutSums ==
    ASSUME NEW wp \in 0..(Size-1), NEW m \in 0..Size, NEW n \in 0..(Size - m)
    PROVE  /\ n \in Nat /\ n \in 0..Size /\ m + n <= Size /\ m + n \in 0..Size
           /\ Wrap(wp + n) \in 0..(Size-1)
<1>0. Size \in Nat \ {0}
  BY PipeAssumption, Zenon
<1>1. n \in 0..Size /\ m + n \in 0..Size
  BY <1>0
<1>2. wp + n \in Int
  BY <1>0, <1>1
<1>. QED  BY <1>0, <1>1, <1>2, Wraps

(* What a write that copies n bytes does to the ring and the stream.       *)
Puts(n, c) == ring' = Put(n, c) /\ nread' = nread /\ sent' = sent \o [i \in 1..n |-> c]

(* Writing n bytes of call c puts them after the bytes not yet read, and   *)
(* overwrites none of these.                                               *)
LEMMA PutStep ==
    ASSUME TypeOK, RingInv, NEW n \in 0..Free, NEW c \in Bytes,
           Puts(n, c)
    PROVE  /\ RingInv' /\ ring' \in RingType /\ ring'.count = ring.count + n
           /\ sent' \in Seq(Bytes) /\ Len(sent') = Len(sent) + n
           /\ \A i \in 1..Len(sent) : sent'[i] = sent[i]
           /\ \A i \in (Len(sent) + 1)..(Len(sent) + n) : sent'[i] = c
<1> DEFINE r == ring.read_pos
           m == ring.count
           L == Len(sent)
           new == [i \in 1..n |-> c]
<1>1. /\ Size \in Nat \ {0} /\ nread \in Nat /\ L \in Nat
      /\ r \in 0..(Size-1) /\ m \in 0..Size /\ n \in 0..(Size - m)
      /\ ring.write_pos \in 0..(Size-1)
  BY Numbers, Zenon
<1>3. nread + m = L /\ ring.write_pos = Wrap(r + m)
  BY Zenon DEF RingInv
<1>2. /\ n \in Nat /\ n \in 0..Size /\ m + n <= Size /\ m + n \in 0..Size
      /\ Wrap(ring.write_pos + n) \in 0..(Size-1)
  BY <1>1, PutSums, Zenon
<1>4. /\ sent \in Seq(Bytes) /\ new \in Seq(Bytes) /\ Len(new) = n
      /\ \A i \in 1..n : new[i] = c
  BY <1>2 DEF TypeOK
<1>5. /\ sent' \in Seq(Bytes) /\ Len(sent') = L + n
      /\ \A i \in 1..L : sent'[i] = sent[i]
  BY <1>4 DEF Puts
<1>6. ASSUME NEW i \in (L + 1)..(L + n) PROVE sent'[i] = c
  <2>1. i - L \in 1..n /\ i \in 1..(L + n) /\ ~(i <= L)
    BY <1>1, <1>2
  <2>2. sent'[i] = new[i - L]
    BY <1>2, <1>4, <2>1 DEF Puts
  <2>. QED  BY <1>4, <2>1, <2>2, Zenon
<1>7. /\ ring'.read_pos = r /\ ring'.count = m + n
      /\ ring'.write_pos = Wrap(ring.write_pos + n)
  BY Zenon DEF Puts, Put, TypeOK
<1>8. \A i \in 0..(Size-1) :
        ring'.data[i] = IF Wrap(i - ring.write_pos) < n THEN c ELSE ring.data[i]
  BY Zenon DEF Puts, Put, TypeOK
<1>9. ring' \in RingType
  BY <1>2, Zenon DEF Puts, Put, TypeOK, RingType
<1>10. Wrap(Wrap(r + m) + n) = Wrap(r + (m + n))
  BY <1>1, <1>2, WrapTwice, Zenon
<1>11. ASSUME NEW i \in 0..(m + n - 1) PROVE At(i)' = sent'[nread + 1 + i]
  <2>1. /\ i \in 0..(Size-1) /\ Wrap(r + i) \in 0..(Size-1)
        /\ i < m => /\ i \in 0..(m - 1) /\ nread + 1 + i \in 1..L
                    /\ ~(Wrap(Wrap(r + i) - Wrap(r + m)) < n)
        /\ ~(i < m) => /\ nread + 1 + i \in (L + 1)..(L + n)
                       /\ Wrap(Wrap(r + i) - Wrap(r + m)) < n
    BY <1>1, <1>3, PutPlaces, Zenon
  <2>2. At(i)' = IF Wrap(Wrap(r + i) - ring.write_pos) < n THEN c ELSE At(i)
    BY <1>7, <1>8, <2>1 DEF At
  <2>3. CASE i < m
    <3>1. At(i) = sent[nread + 1 + i]
      BY <2>1, <2>3, Zenon DEF RingInv
    <3>. QED  BY <1>3, <1>5, <2>1, <2>2, <2>3, <3>1, Zenon
  <2>4. CASE ~(i < m)
    BY <1>3, <1>6, <2>1, <2>2, <2>4, Zenon
  <2>. QED  BY <2>3, <2>4, Zenon
<1>12. ASSUME NEW i \in 0..(ring'.count - 1) PROVE At(i)' = sent'[nread' + 1 + i]
  <2>1. nread' = nread
    BY Zenon DEF Puts
  <2>0. m \in Int /\ n \in Int /\ ring'.count = m + n
    BY <1>1, <1>2, <1>7
  <2>2. ring'.count - 1 = m + n - 1
    BY <2>0
  <2>3. i \in 0..(m + n - 1)
    BY <2>2, Zenon
  <2>. QED  BY <1>11, <2>1, <2>3, Zenon
<1>0. nread + (m + n) = L + n
  <2>1. nread \in Int /\ L \in Int /\ m \in Int /\ n \in Int
    BY <1>1, <1>2
  <2>2. nread + m = L
    BY <1>3, Zenon
  <2>. QED  BY <2>1, <2>2
<1>13. /\ nread' + ring'.count = Len(sent')
       /\ ring'.write_pos = Wrap(ring'.read_pos + ring'.count)
  BY <1>0, <1>3, <1>5, <1>7, <1>10, Zenon DEF Puts
<1>14. RingInv'
  BY <1>12, <1>13, Zenon DEF RingInv
<1>. QED  BY <1>5, <1>6, <1>7, <1>9, <1>14, Zenon

-----------------------------------------------------------------------------
(* The queues of the two ends are two queues.                              *)
LEMMA QueueNames ==
    /\ R # W /\ R # Elsewhere /\ W # Elsewhere /\ Queues = {R, W, Elsewhere}
    /\ R \in Queues /\ W \in Queues /\ Elsewhere \in Queues
    /\ Ends = {"r", "w"} /\ QueueOf("r") = R /\ QueueOf("w") = W
  BY PipeAssumption, Zenon DEF R, W, Elsewhere, QueueOf, Ends

(* Steps that leave the stream, or the descriptors, alone.                 *)
LEMMA StreamKept ==
    ASSUME RingInv, AtomicWrites, UNCHANGED <<ring, sent, nread>>
    PROVE  RingInv' /\ AtomicWrites'
  BY Zenon DEF RingInv, At, AtomicWrites

(* read_refs and write_refs stay exact while no descriptor changes.        *)
LEMMA RefsKept ==
    ASSUME RefsExact, UNCHANGED <<refs, fds>>
    PROVE  RefsExact'
  BY Zenon DEF RefsExact, Holding

(* What holds of the writes under way stays true while nothing is written. *)
LEMMA MoreCalls ==
    ASSUME TypeOK, CallsInv, sent' = sent, calls' \in 0..MaxCalls, calls' >= calls,
           \A q \in Procs : Writing(q)' =>
             Writing(q) /\ pc'[q].c = pc[q].c /\ pc'[q].done = pc[q].done
    PROVE  CallsInv'
<1>1. \A c \in 1..calls : c \in 1..calls'
  BY Numbers
<1>2. \A i \in 1..Len(sent') : sent'[i].call \in 1..calls'
  BY <1>1, Zenon DEF CallsInv
<1>3. ASSUME NEW q \in Procs, Writing(q)'
      PROVE  /\ pc'[q].c.call \in 1..calls' /\ pc'[q].c.len \in Lengths
             /\ pc'[q].done < pc'[q].c.len
             /\ pc'[q].c.len <= PipeBuf => pc'[q].done = 0 /\ Absent(pc[q].c)'
  <2>1. Writing(q) /\ pc'[q].c = pc[q].c /\ pc'[q].done = pc[q].done
    BY <1>3, Zenon
  <2>2. Absent(pc[q].c)' <=> Absent(pc[q].c)
    BY <2>1, Zenon DEF Absent
  <2>. QED  BY <1>1, <2>1, <2>2, Zenon DEF CallsInv
<1>4. ASSUME NEW q \in Procs, NEW o \in Procs, Writing(q)', Writing(o)', q # o
      PROVE  pc'[q].c.call # pc'[o].c.call
  BY <1>4, Zenon DEF CallsInv
<1>. QED  BY <1>2, <1>3, <1>4, Zenon DEF CallsInv

(* A call that returns, and one that starts to wait.                       *)
LEMMA Returns ==
    ASSUME TypeOK, NEW p \in Procs, NEW c \in Calls, pc' = [pc EXCEPT ![p] = c]
    PROVE  pc' \in [Procs -> Calls] /\ pc'[p] = c /\ \A q \in Procs \ {p} : pc'[q] = pc[q]
  BY Zenon DEF TypeOK

(* The calls that park are calls of the model.                             *)
LEMMA CallKinds ==
    /\ Idle \in Calls /\ Idle.op = "idle"
    /\ \A len \in Lengths : [op |-> "read", len |-> len] \in Calls
    /\ \A c \in Bytes, done \in Nat : [op |-> "write", c |-> c, done |-> done] \in Calls
    /\ \A e \in Ends, timed \in BOOLEAN, late \in BOOLEAN :
          [op |-> "poll", e |-> e, timed |-> timed, late |-> late] \in Calls
  BY Zenon DEF Calls, Idle

(* The fields of a call, by its kind.                                      *)
LEMMA CallParts ==
    ASSUME NEW c \in Calls
    PROVE  /\ c.op \in {"idle", "read", "write", "poll"}
           /\ c.op = "read" => c.len \in Lengths
           /\ c.op = "write" => c.c \in Bytes /\ c.done \in Nat
           /\ c.op = "poll" => c.e \in Ends /\ c.timed \in BOOLEAN /\ c.late \in BOOLEAN
<1>1. CASE c = Idle
  BY <1>1, Zenon DEF Idle
<1>2. CASE c \in [op : {"read"}, len : Lengths]
  BY <1>2, Zenon
<1>3. CASE c \in [op : {"write"}, c : Bytes, done : Nat]
  BY <1>3, Zenon
<1>4. CASE c \in [op : {"poll"}, e : Ends, timed : BOOLEAN, late : BOOLEAN]
  BY <1>4, Zenon
<1>. QED  BY <1>1, <1>2, <1>3, <1>4, Zenon DEF Calls

(* The operations of the wait queues.                                      *)
LEMMA QueueSteps ==
    ASSUME TypeOK, NEW v \in [Queues -> SUBSET (Procs \cup Others)]
    PROVE  /\ \A p : /\ RemoveProc(v, p) \in [Queues -> SUBSET (Procs \cup Others)]
                     /\ \A q \in Queues : RemoveProc(v, p)[q] = v[q] \ {p}
           /\ \A q \in Queues :
                /\ WakeAll(v, q) \in [Queues -> SUBSET (Procs \cup Others)]
                /\ \A o \in Queues : WakeAll(v, q)[o] = v[o] \ v[q]
           /\ \A q \in Queues, p \in Procs \cup Others : ~AddFails(v, q, p) =>
                /\ Add(v, q, p) \in [Queues -> SUBSET (Procs \cup Others)]
                /\ Add(v, q, p)[q] = v[q] \cup {p}
                /\ \A o \in Queues \ {q} : Add(v, q, p)[o] = v[o]
<1>1. ASSUME NEW p
      PROVE  /\ RemoveProc(v, p) \in [Queues -> SUBSET (Procs \cup Others)]
             /\ \A q \in Queues : RemoveProc(v, p)[q] = v[q] \ {p}
  BY Zenon DEF RemoveProc
<1>2. ASSUME NEW q \in Queues
      PROVE  /\ WakeAll(v, q) \in [Queues -> SUBSET (Procs \cup Others)]
             /\ \A o \in Queues : WakeAll(v, q)[o] = v[o] \ v[q]
  BY Zenon DEF WakeAll
<1>3. ASSUME NEW q \in Queues, NEW p \in Procs \cup Others, ~AddFails(v, q, p)
      PROVE  /\ Add(v, q, p) \in [Queues -> SUBSET (Procs \cup Others)]
             /\ Add(v, q, p)[q] = v[q] \cup {p}
             /\ \A o \in Queues \ {q} : Add(v, q, p)[o] = v[o]
  BY <1>3, Zenon DEF Add
<1>. QED  BY <1>1, <1>2, <1>3, Zenon

(* What such a step does to the other processes: it may wake some.         *)
OnlyWakes(p) ==
    /\ st' \in [Procs -> States]
    /\ \A q \in Procs \ {p} : st'[q] = st[q] \/
         (st[q] \in {"WAITING", "SLEEPING"} /\ st'[q] = "RUNNING")

(* A step after which p is out of the queues and its call over.            *)
Finishes(p) ==
    /\ UNCHANGED <<refs, fds>>
    /\ pc' = [pc EXCEPT ![p] = Idle]
    /\ w' \in [Queues -> SUBSET (Procs \cup Others)]
    /\ \A q \in Queues : w'[q] \subseteq w[q] \ {p}
    /\ st[p] = "RUNNING" /\ st'[p] = "RUNNING" /\ OnlyWakes(p)

(* A call that returns takes its wait node with it.                        *)
LEMMA ReturnStep ==
    ASSUME IInv, NEW p \in Procs, Finishes(p)
    PROVE  pc' \in [Procs -> Calls] /\ WaitInv' /\ RefsExact'
<1>0. UNCHANGED <<refs, fds>> /\ st[p] = "RUNNING" /\ st'[p] = "RUNNING"
  BY Zenon DEF Finishes
<1>1. RefsExact'
  BY <1>0, RefsKept, Zenon DEF IInv
<1>2. /\ pc' \in [Procs -> Calls] /\ pc'[p] = Idle /\ Idle.op = "idle"
      /\ \A q \in Procs \ {p} : pc'[q] = pc[q]
  BY Returns, CallKinds, Zenon DEF IInv, Finishes
<1>3. \A q \in Procs \ {p} : EndOf(q)' = EndOf(q)
  BY <1>2, Zenon DEF EndOf
<1>4. ASSUME NEW q \in Procs, pc'[q].op # "idle"
      PROVE  fds'[q][EndOf(q)'] = 1 /\ st'[q] \notin {"NONE", "ZOMBIE"}
  BY <1>0, <1>2, <1>3, <1>4 DEF IInv, WaitInv, Finishes, OnlyWakes
<1>5. ASSUME NEW q \in Procs, st'[q] = "NONE" PROVE fds'[q] = [e \in Ends |-> 0]
  BY <1>0, <1>5, Zenon DEF IInv, WaitInv, Finishes, OnlyWakes
<1>6. w'[Elsewhere] \subseteq Others /\ \A e \in Ends : w'[QueueOf(e)] \subseteq Procs
  BY QueueNames, Zenon DEF IInv, WaitInv, Finishes
<1>7. ASSUME NEW e \in Ends, NEW q \in Procs, q \in w'[QueueOf(e)]
      PROVE  pc'[q].op # "idle" /\ EndOf(q)' = e /\ st'[q] \in {"WAITING", "SLEEPING", "RUNNING"}
  <2>1. q \in w[QueueOf(e)] /\ q # p
    BY <1>7, QueueNames, Zenon DEF Finishes
  <2>. QED  BY <1>2, <1>3, <2>1 DEF IInv, WaitInv, Finishes, OnlyWakes
<1>8. WaitInv'
  BY <1>4, <1>5, <1>6, <1>7, Zenon DEF WaitInv
<1>. QED  BY <1>1, <1>2, <1>8, Zenon

(* A step after which p waits, in a call c on its descriptor of end e.     *)
Parks(p, e, c) ==
    /\ UNCHANGED <<refs, fds>>
    /\ fds[p][e] = 1 /\ c.op # "idle"
    /\ pc' = [pc EXCEPT ![p] = c] /\ EndOf(p)' = e
    /\ w' \in [Queues -> SUBSET (Procs \cup Others)]
    /\ \A q \in Queues : w'[q] \subseteq IF q = QueueOf(e) THEN w[q] \cup {p} ELSE w[q] \ {p}
    /\ st[p] = "RUNNING" /\ st'[p] \in {"WAITING", "SLEEPING"} /\ OnlyWakes(p)

(* A call that parks on an end has its node in the queue of that end.      *)
LEMMA ParkStep ==
    ASSUME IInv, NEW p \in Procs, NEW e \in Ends, NEW c \in Calls, Parks(p, e, c)
    PROVE  pc' \in [Procs -> Calls] /\ WaitInv' /\ RefsExact'
<1>0. /\ UNCHANGED <<refs, fds>> /\ st[p] = "RUNNING" /\ st'[p] \in {"WAITING", "SLEEPING"}
      /\ fds[p][e] = 1 /\ c.op # "idle" /\ EndOf(p)' = e
  BY Zenon DEF Parks
<1>1. RefsExact'
  BY <1>0, RefsKept, Zenon DEF IInv
<1>2. /\ pc' \in [Procs -> Calls] /\ pc'[p] = c
      /\ \A q \in Procs \ {p} : pc'[q] = pc[q]
  BY Returns, Zenon DEF IInv, Parks
<1>3. \A q \in Procs \ {p} : EndOf(q)' = EndOf(q)
  BY <1>2, Zenon DEF EndOf
<1>4. ASSUME NEW q \in Procs, pc'[q].op # "idle"
      PROVE  fds'[q][EndOf(q)'] = 1 /\ st'[q] \notin {"NONE", "ZOMBIE"}
  <2>1. CASE q = p
    BY <1>0, <2>1, Zenon
  <2>2. CASE q # p
    BY <1>0, <1>2, <1>3, <1>4, <2>2 DEF IInv, WaitInv, Parks, OnlyWakes
  <2>. QED  BY <2>1, <2>2, Zenon
<1>5. ASSUME NEW q \in Procs, st'[q] = "NONE" PROVE fds'[q] = [d \in Ends |-> 0]
  BY <1>0, <1>5 DEF IInv, WaitInv, Parks, OnlyWakes
<1>6. w'[Elsewhere] \subseteq Others
  BY QueueNames, Zenon DEF IInv, WaitInv, Parks
<1>7. ASSUME NEW d \in Ends
      PROVE  /\ w'[QueueOf(d)] \subseteq Procs
             /\ \A q \in w'[QueueOf(d)] : q \in w[QueueOf(d)] \/ (q = p /\ d = e)
  <2>1. w[QueueOf(d)] \subseteq Procs
    BY Zenon DEF IInv, WaitInv
  <2>2. d # e => w'[QueueOf(d)] \subseteq w[QueueOf(d)] \ {p}
    BY QueueNames, Zenon DEF Parks
  <2>3. w'[QueueOf(d)] \subseteq w[QueueOf(d)] \cup {p}
    BY QueueNames, Zenon DEF Parks
  <2>4. ASSUME NEW q \in w'[QueueOf(d)] PROVE q \in Procs /\ (q \in w[QueueOf(d)] \/ (q = p /\ d = e))
    BY <2>1, <2>2, <2>3, Zenon
  <2>. QED  BY <2>4, Zenon
<1>8. ASSUME NEW d \in Ends, NEW q \in Procs, q \in w'[QueueOf(d)]
      PROVE  pc'[q].op # "idle" /\ EndOf(q)' = d /\ st'[q] \in {"WAITING", "SLEEPING", "RUNNING"}
  <2>0. (q \in w[QueueOf(d)] /\ (d # e => q # p)) \/ (q = p /\ d = e)
    BY <1>7, <1>8, QueueNames, Zenon DEF Parks
  <2>1. CASE q = p
    BY <1>0, <1>2, <2>0, <2>1, Zenon
  <2>2. CASE q # p
    BY <1>2, <1>3, <2>0, <2>2 DEF IInv, WaitInv, Parks, OnlyWakes
  <2>. QED  BY <2>1, <2>2, Zenon
<1>9. WaitInv'
  BY <1>4, <1>5, <1>6, <1>7, <1>8, Zenon DEF WaitInv
<1>. QED  BY <1>1, <1>2, <1>9, Zenon

(* What the wait queues promise a sleeper (the body of NoLostWakeup).      *)
Waits(p) ==
    \/ pc[p].op = "read" /\ p \in w[R] /\ ring.count = 0 /\ refs.w > 0
    \/ /\ pc[p].op = "write" /\ p \in w[W]
       /\ Free < Needed(pc[p].c.len) /\ refs.r > 0
    \/ pc[p].op = "poll" /\ p \in w[QueueOf(pc[p].e)] /\ ~Ready(pc[p].e)

(* No wake-up is lost: whoever sleeps has something to wait for.           *)
LEMMA Sleepers ==
    NoLostWakeup <=> \A p \in Procs : st[p] \in {"WAITING", "SLEEPING"} => Waits(p)
  BY Zenon DEF NoLostWakeup, Waits

(* What a sleeping read, write or poll waits for.                          *)
LEMMA WaitsFor ==
    ASSUME NEW p \in Procs, Waits(p)
    PROVE  /\ pc[p].op \in {"read", "write", "poll"}
           /\ pc[p].op = "read" => p \in w[R] /\ ring.count = 0 /\ refs.w > 0
           /\ pc[p].op = "write" => p \in w[W] /\ Free < Needed(pc[p].c.len) /\ refs.r > 0
           /\ pc[p].op = "poll" => p \in w[QueueOf(pc[p].e)] /\ ~Ready(pc[p].e)
  BY Zenon DEF Waits

(* Whoever a step does not touch waits on, if the step takes nothing out   *)
(* of its queue and does not bring the event it waits for.                 *)
LEMMA SleepsOn ==
    ASSUME IInv, NEW q \in Procs, Waits(q), pc'[q] = pc[q], UNCHANGED <<refs, ring>>,
           \A e \in Ends : q \in w[QueueOf(e)] => q \in w'[QueueOf(e)]
    PROVE  Waits(q)'
<1>1. pc[q].op = "poll" => pc[q].e \in Ends
  BY CallParts, Zenon DEF IInv, TypeOK
<1>2. /\ pc[q].op = "poll" => QueueOf(pc[q].e)' = QueueOf(pc[q].e) /\ Ready(pc[q].e)' = Ready(pc[q].e)
      /\ Free' = Free /\ (q \in w[R] => q \in w'[R]) /\ (q \in w[W] => q \in w'[W])
  BY QueueNames, Zenon DEF Ready, Free, QueueOf
<1>. QED  BY <1>1, <1>2, Zenon DEF Waits

-----------------------------------------------------------------------------
(* A call that gives up, or is over at once, without touching the pipe.    *)
GivesUp(p) ==
    /\ w' = RemoveProc(w, p) /\ pc' = [pc EXCEPT ![p] = Idle]
    /\ UNCHANGED <<ring, nread, sent, st, refs, fds>>

(* A call that returns without having moved a byte keeps the invariant.    *)
LEMMA GiveUpStep ==
    ASSUME IInv, NEW p \in Procs, st[p] = "RUNNING", GivesUp(p),
           calls' \in 0..MaxCalls, calls' >= calls
    PROVE  IInv'
<1>0. TypeOK /\ RingInv /\ CallsInv /\ AtomicWrites /\ WaitInv /\ RefsExact /\ NoLostWakeup
  BY Zenon DEF IInv
<1>1. /\ w' \in [Queues -> SUBSET (Procs \cup Others)]
      /\ \A q \in Queues : w'[q] = w[q] \ {p}
  BY <1>0, QueueSteps DEF TypeOK, GivesUp
<1>2. /\ pc' \in [Procs -> Calls] /\ pc'[p] = Idle /\ Idle.op = "idle"
      /\ \A q \in Procs \ {p} : pc'[q] = pc[q]
  BY <1>0, Returns, CallKinds, Zenon DEF GivesUp
<1>3. RingInv' /\ AtomicWrites'
  BY <1>0, StreamKept, Zenon DEF GivesUp
<1>4. OnlyWakes(p)
  BY <1>0, Zenon DEF OnlyWakes, GivesUp, TypeOK
<1>5. WaitInv' /\ RefsExact'
  BY <1>1, <1>4, ReturnStep, Zenon DEF Finishes, GivesUp
<1>6. TypeOK'
  BY <1>0, <1>1, <1>2, Zenon DEF TypeOK, GivesUp
<1>7. CallsInv'
  <2>1. \A q \in Procs : Writing(q)' => q # p /\ pc'[q] = pc[q] /\ Writing(q)
    BY <1>2, Zenon DEF Writing
  <2>2. sent' = sent
    BY Zenon DEF GivesUp
  <2>. QED  BY <1>0, <2>1, <2>2, MoreCalls, Zenon
<1>8. ASSUME NEW q \in Procs, st'[q] \in {"WAITING", "SLEEPING"} PROVE Waits(q)'
  <2>1. q # p /\ pc'[q] = pc[q] /\ Waits(q)
    BY <1>0, <1>2, <1>8, Sleepers, Zenon DEF GivesUp
  <2>2. \A e \in Ends : q \in w[QueueOf(e)] => q \in w'[QueueOf(e)]
    BY <1>1, <2>1, QueueNames, Zenon
  <2>3. UNCHANGED <<refs, ring>>
    BY Zenon DEF GivesUp
  <2>. QED  BY <2>1, <2>2, <2>3, SleepsOn, Zenon
<1>9. NoLostWakeup'
  BY <1>8, Zenon DEF NoLostWakeup, Waits
<1>. QED  BY <1>3, <1>5, <1>6, <1>7, <1>9, Zenon DEF IInv

(* A call other than a write that starts to wait, and is right to.         *)
Sleeps(p, e, c, s) ==
    /\ ~AddFails(RemoveProc(w, p), QueueOf(e), p)
    /\ w' = Add(RemoveProc(w, p), QueueOf(e), p) /\ pc' = [pc EXCEPT ![p] = c]
    /\ c.op \notin {"idle", "write"} /\ st' = [st EXCEPT ![p] = s]
    /\ UNCHANGED <<ring, nread, sent, refs, fds, calls>>

(* A call that goes to sleep when it cannot go on keeps the invariant.     *)
LEMMA SleepStep ==
    ASSUME IInv, NEW p \in Procs, NEW e \in Ends, NEW c \in Calls,
           NEW s \in {"WAITING", "SLEEPING"}, st[p] = "RUNNING", fds[p][e] = 1,
           Sleeps(p, e, c, s), EndOf(p)' = e, Waits(p)'
    PROVE  IInv'
<1>0. TypeOK /\ RingInv /\ CallsInv /\ AtomicWrites /\ WaitInv /\ RefsExact /\ NoLostWakeup
  BY Zenon DEF IInv
<1>1. /\ w' \in [Queues -> SUBSET (Procs \cup Others)]
      /\ w'[QueueOf(e)] = (w[QueueOf(e)] \ {p}) \cup {p}
      /\ \A q \in Queues \ {QueueOf(e)} : w'[q] = w[q] \ {p}
  <2> DEFINE out == RemoveProc(w, p)
  <2>1. /\ out \in [Queues -> SUBSET (Procs \cup Others)]
        /\ \A q \in Queues : out[q] = w[q] \ {p}
    BY <1>0, QueueSteps, Zenon DEF TypeOK
  <2>2. QueueOf(e) \in Queues /\ p \in Procs \cup Others
    BY QueueNames, Zenon
  <2>3. w' = Add(out, QueueOf(e), p) /\ ~AddFails(out, QueueOf(e), p)
    BY Zenon DEF Sleeps
  <2>4. /\ w' \in [Queues -> SUBSET (Procs \cup Others)]
        /\ w'[QueueOf(e)] = out[QueueOf(e)] \cup {p}
        /\ \A q \in Queues \ {QueueOf(e)} : w'[q] = out[q]
    BY <1>0, <2>1, <2>2, <2>3, QueueSteps
  <2>. QED  BY <2>1, <2>2, <2>4, Zenon
<1>2. /\ pc' \in [Procs -> Calls] /\ pc'[p] = c
      /\ \A q \in Procs \ {p} : pc'[q] = pc[q]
  BY <1>0, Returns, Zenon DEF Sleeps
<1>3. RingInv' /\ AtomicWrites'
  BY <1>0, StreamKept, Zenon DEF Sleeps
<1>4. OnlyWakes(p) /\ st'[p] = s /\ \A q \in Procs \ {p} : st'[q] = st[q]
  BY <1>0, Zenon DEF OnlyWakes, Sleeps, TypeOK, States
<1>5. WaitInv' /\ RefsExact'
  <2>1. \A q \in Queues : w'[q] \subseteq IF q = QueueOf(e) THEN w[q] \cup {p} ELSE w[q] \ {p}
    BY <1>1, Zenon
  <2>2. Parks(p, e, c)
    BY <1>1, <1>4, <2>1, Zenon DEF Parks, Sleeps
  <2>. QED  BY <2>2, ParkStep, Zenon
<1>6. TypeOK'
  BY <1>0, <1>1, <1>2, <1>4, Zenon DEF TypeOK, Sleeps, OnlyWakes
<1>7. CallsInv'
  <2>1. \A q \in Procs : Writing(q)' => q # p /\ pc'[q] = pc[q] /\ Writing(q)
    BY <1>2, Zenon DEF Writing, Sleeps
  <2>2. sent' = sent /\ calls' \in 0..MaxCalls /\ calls' >= calls
    BY <1>0, Numbers, PipeAssumption DEF Sleeps
  <2>. QED  BY <1>0, <2>1, <2>2, MoreCalls, Zenon
<1>8. ASSUME NEW q \in Procs, q # p, st'[q] \in {"WAITING", "SLEEPING"} PROVE Waits(q)'
  <2>1. pc'[q] = pc[q] /\ Waits(q)
    BY <1>0, <1>2, <1>4, <1>8, Sleepers, Zenon
  <2>2. \A d \in Ends : q \in w[QueueOf(d)] => q \in w'[QueueOf(d)]
    BY <1>1, <1>8, QueueNames, Zenon
  <2>3. UNCHANGED <<refs, ring>>
    BY Zenon DEF Sleeps
  <2>. QED  BY <2>1, <2>2, <2>3, SleepsOn, Zenon
<1>9. NoLostWakeup'
  BY <1>8 DEF NoLostWakeup, Waits
<1>. QED  BY <1>3, <1>5, <1>6, <1>7, <1>9, Zenon DEF IInv

(* process_handle_pipe_read: one pass of its loop, whether it reads, sees  *)
(* the end of file, gives up or sleeps.                                    *)
LEMMA ReadStep ==
    ASSUME IInv, NEW p \in Procs, NEW len \in Lengths, NEW nonblock \in BOOLEAN,
           st[p] = "RUNNING", fds[p]["r"] = 1, ReadBody(p, len, nonblock),
           UNCHANGED <<refs, fds, sent, calls>>
    PROVE  IInv'
<1> DEFINE n == Least(len, ring.count)
           out == RemoveProc(w, p)
<1>0. TypeOK /\ RingInv /\ CallsInv /\ AtomicWrites /\ WaitInv /\ RefsExact /\ NoLostWakeup
  BY Zenon DEF IInv
<1>1. /\ out \in [Queues -> SUBSET (Procs \cup Others)]
      /\ \A q \in Queues : out[q] = w[q] \ {p}
  BY <1>0, QueueSteps, Zenon DEF TypeOK
<1>2. len \in Nat \ {0} /\ ring.count \in Nat /\ n \in 0..ring.count /\ (n = 0 <=> ring.count = 0)
  BY <1>0, PipeAssumption, Numbers DEF Least
<1>5. calls' \in 0..MaxCalls /\ calls' >= calls
  BY <1>0, Numbers, PipeAssumption
<1>3. CASE ring.count # 0 \/ refs.w = 0
  <2>1. /\ ring' = Take(n) /\ nread' = nread + n
        /\ w' = IF n # 0 THEN WakeAll(out, W) ELSE out
        /\ st' = IF n # 0 THEN WakeStates(out, W, st) ELSE st
        /\ pc' = [pc EXCEPT ![p] = Idle]
    BY <1>3, Zenon DEF ReadBody, Return
  <2>2. RingInv' /\ ring' \in RingType /\ nread' \in Nat /\ ring'.count = ring.count - n
    BY <1>0, <1>2, <2>1, TakeStep, Zenon
  <2>3. /\ w' \in [Queues -> SUBSET (Procs \cup Others)]
        /\ \A q \in Queues : w'[q] = IF n # 0 THEN out[q] \ out[W] ELSE out[q]
    <3>1. /\ WakeAll(out, W) \in [Queues -> SUBSET (Procs \cup Others)]
          /\ \A q \in Queues : WakeAll(out, W)[q] = out[q] \ out[W]
      BY <1>0, <1>1, QueueSteps, QueueNames, Zenon
    <3>. QED  BY <1>1, <2>1, <3>1, Zenon
  <2>4. /\ st' \in [Procs -> States]
        /\ \A q \in Procs : st'[q] =
             IF n # 0 /\ q \in out[W] /\ st[q] \in {"WAITING", "SLEEPING"}
             THEN "RUNNING" ELSE st[q]
    <3>1. st \in [Procs -> States]
      BY <1>0, Zenon DEF TypeOK
    <3>2. /\ WakeStates(out, W, st) \in [Procs -> States]
          /\ \A q \in Procs : WakeStates(out, W, st)[q] =
               IF q \in out[W] /\ st[q] \in {"WAITING", "SLEEPING"} THEN "RUNNING" ELSE st[q]
      BY <3>1, Zenon DEF WakeStates, Woken, States
    <3>3. CASE n # 0
      BY <2>1, <3>2, <3>3, Zenon
    <3>4. CASE n = 0
      BY <2>1, <3>1, <3>4, Zenon
    <3>. QED  BY <3>3, <3>4, Zenon
  <2>5. pc' \in [Procs -> Calls] /\ WaitInv' /\ RefsExact'
    <3>1. OnlyWakes(p) /\ st'[p] = "RUNNING"
      BY <1>1, <2>4, QueueNames, Zenon DEF OnlyWakes
    <3>2. \A q \in Queues : w'[q] \subseteq w[q] \ {p}
      BY <1>1, <2>3, Zenon
    <3>. QED  BY <2>1, <2>3, <3>1, <3>2, ReturnStep, Zenon DEF Finishes
  <2>6. TypeOK'
    BY <1>0, <2>2, <2>3, <2>4, <2>5, Zenon DEF TypeOK, RingType
  <2>7. \A q \in Procs \ {p} : pc'[q] = pc[q]
    BY <1>0, <2>1, Returns, CallKinds, Zenon
  <2>8. pc'[p].op = "idle"
    BY <1>0, <2>1, Returns, CallKinds, Zenon
  <2>9. CallsInv'
    <3>1. \A q \in Procs : Writing(q)' => q # p /\ pc'[q] = pc[q] /\ Writing(q)
      BY <2>7, <2>8, Zenon DEF Writing
    <3>. QED  BY <1>0, <1>5, <3>1, MoreCalls, Zenon
  <2>10. AtomicWrites'
    BY <1>0, Zenon DEF AtomicWrites
  <2>11. ASSUME NEW q \in Procs, st'[q] \in {"WAITING", "SLEEPING"} PROVE Waits(q)'
    <3>1. q # p /\ pc'[q] = pc[q] /\ st[q] \in {"WAITING", "SLEEPING"} /\ ~(n # 0 /\ q \in out[W])
      BY <2>4, <2>7, <2>11, Zenon
    <3>2. Waits(q)
      BY <1>0, <3>1, Sleepers, Zenon
    <3>3. pc[q].op = "poll" => pc[q].e \in Ends
      BY <1>0, CallParts, Zenon DEF TypeOK
    <3>4. q \in w[W] /\ (pc[q].op = "write" \/ (pc[q].op = "poll" /\ pc[q].e = "w"))
      <4>1. CASE pc[q].op = "read"
        BY <1>3, <1>0, <3>2, <4>1, Numbers, WaitsFor
      <4>2. CASE pc[q].op = "write"
        BY <3>2, <4>2, WaitsFor, Zenon
      <4>3. CASE pc[q].op = "poll" /\ pc[q].e = "r"
        BY <1>3, <3>2, <4>3, WaitsFor, Zenon DEF Ready
      <4>4. CASE pc[q].op = "poll" /\ pc[q].e = "w"
        BY <3>2, <4>4, QueueNames, WaitsFor, Zenon
      <4>. QED  BY <3>2, <3>3, <4>1, <4>2, <4>3, <4>4, QueueNames, WaitsFor, Zenon
    <3>5. n = 0 /\ q \in w'[W]
      BY <1>1, <2>3, <3>1, <3>4, QueueNames, Zenon
    <3>6. ring'.count = ring.count
      BY <1>2, <2>2, <3>5
    <3>7. Free' = Free /\ Ready("w")' = Ready("w")
      BY <3>6, Zenon DEF Free, Ready
    <3>. QED  BY <3>1, <3>2, <3>4, <3>5, <3>7, QueueNames, Zenon DEF Waits, QueueOf
  <2>. QED  BY <2>2, <2>5, <2>6, <2>9, <2>10, <2>11, Sleepers, Zenon DEF IInv, NoLostWakeup, Waits
<1>4. CASE ring.count = 0 /\ refs.w # 0
  <2>1. UNCHANGED <<ring, nread, sent>>
    BY <1>4, Zenon DEF ReadBody
  <2>2. RingInv' /\ AtomicWrites'
    BY <1>0, <2>1, StreamKept, Zenon
  <2>3. CASE nonblock \/ AddFails(out, R, p)
    <3>1. w' = out /\ pc' = [pc EXCEPT ![p] = Idle] /\ st' = st
      BY <1>4, <2>3, Zenon DEF ReadBody, Return
    <3>2. GivesUp(p)
      BY <2>1, <3>1, Zenon DEF GivesUp
    <3>. QED  BY <1>5, <3>2, GiveUpStep, Zenon
  <2>4. CASE ~(nonblock \/ AddFails(out, R, p))
    <3> DEFINE c == [op |-> "read", len |-> len]
    <3>1. /\ w' = Add(out, R, p) /\ st' = [st EXCEPT ![p] = "WAITING"]
          /\ pc' = [pc EXCEPT ![p] = c]
      BY <1>4, <2>4, Zenon DEF ReadBody
    <3>2. c \in Calls /\ c.op = "read"
      BY CallKinds, Zenon
    <3>3. pc'[p] = c
      BY <1>0, <3>1, <3>2, Returns, Zenon
    <3>4. EndOf(p)' = "r"
      BY <3>2, <3>3, Zenon DEF EndOf
    <3>5. Sleeps(p, "r", c, "WAITING")
      BY <2>1, <2>4, <3>1, <3>2, QueueNames, Zenon DEF Sleeps
    <3>6. p \in w'[R] /\ ring'.count = 0 /\ refs'.w > 0
      <4>1. Add(out, R, p)[R] = out[R] \cup {p}
        BY <1>1, <2>4, QueueNames, Zenon DEF Add
      <4>2. refs.w > 0
        BY <1>0, <1>4, Numbers
      <4>. QED  BY <1>4, <2>1, <3>1, <4>1, <4>2, Zenon
    <3>7. Waits(p)'
      BY <3>2, <3>3, <3>6, Zenon DEF Waits
    <3>. QED  BY <1>0, <3>2, <3>4, <3>5, <3>7, SleepStep, QueueNames, Numbers, Zenon
  <2>. QED  BY <2>3, <2>4, Zenon
<1>. QED  BY <1>3, <1>4, Zenon DEF ReadBody

-----------------------------------------------------------------------------
(* How many bytes a write copies in one go: all it has left when it is     *)
(* short, and otherwise what fits, so that it only waits on a ring with    *)
(* less room than it needs.                                                *)
Copied(len, done, free) == IF free >= Needed(len) THEN Least(len - done, free) ELSE 0

(* The arithmetic of the copying loop of process_handle_pipe_write.        *)
LEMMA CopyNumbers ==
    ASSUME NEW free \in 0..Size, NEW len \in Lengths, NEW done \in Nat, done < len,
           len <= PipeBuf => done = 0
    PROVE  /\ Copied(len, done, free) \in 0..free /\ Copied(len, done, free) \in Nat
           /\ done + Copied(len, done, free) \in Nat
           /\ done + Copied(len, done, free) <= len
           /\ (free >= Needed(len) /\ len <= PipeBuf) => Copied(len, done, free) = len - done
           /\ Needed(len) \in Nat \ {0}
           /\ done + Copied(len, done, free) # len => free - Copied(len, done, free) < Needed(len)
<1>1. Size \in Nat /\ len \in Nat \ {0} /\ PipeBuf \in Nat /\ free \in Nat
  BY PipeAssumption
<1>2. Needed(len) \in Nat \ {0} /\ (len <= PipeBuf => Needed(len) = len)
  BY <1>1 DEF Needed
<1> HIDE DEF Needed
<1>3. CASE free >= Needed(len) /\ len - done <= free
  BY <1>1, <1>2, <1>3 DEF Copied, Least
<1>4. CASE free >= Needed(len) /\ ~(len - done <= free)
  BY <1>1, <1>2, <1>4 DEF Copied, Least
<1>5. CASE ~(free >= Needed(len))
  BY <1>1, <1>2, <1>5 DEF Copied
<1>. QED  BY <1>3, <1>4, <1>5, Zenon

(* A write the rest of the proof can be about: call c, done bytes of it    *)
(* written, none of them if it is short.                                   *)
WriteCall(p, c, done) ==
    /\ c \in Bytes /\ done \in Nat /\ c.len \in Lengths /\ done < c.len
    /\ c.call \in 1..calls' /\ calls' \in 0..MaxCalls /\ calls' >= calls
    /\ c.len <= PipeBuf => done = 0 /\ Absent(c)
    /\ \A q \in Procs \ {p} : Writing(q) => pc[q].c.call # c.call

(* The stream after a write that copied n bytes: short writes stay whole.  *)
LEMMA WholeWrites ==
    ASSUME IInv, NEW p, NEW c, NEW done, WriteCall(p, c, done), NEW n \in Nat,
           c.len <= PipeBuf => n \in {0, c.len},
           sent' \in Seq(Bytes), Len(sent') = Len(sent) + n,
           \A i \in 1..Len(sent) : sent'[i] = sent[i],
           \A i \in (Len(sent) + 1)..(Len(sent) + n) : sent'[i] = c
    PROVE  AtomicWrites'
<1> DEFINE L == Len(sent)
<1>1. L \in Nat /\ sent \in Seq(Bytes) /\ DOMAIN sent = 1..L /\ DOMAIN sent' = 1..(L + n)
  BY DEF IInv, TypeOK
<1>2. \A i \in 1..(L + n) : i \in 1..L \/ i \in (L + 1)..(L + n)
  BY <1>1
<1>3. \A i \in 1..L : i \in 1..(L + n)
  BY <1>1
<1>4. ASSUME NEW i \in 1..(L + n), sent'[i].len <= PipeBuf
      PROVE  \E k \in 1..(L + n) :
               {j \in 1..(L + n) : sent'[j] = sent'[i]} = k..(k + sent'[i].len - 1)
  <2>1. CASE sent'[i] # c
    <3>1. i \in 1..L /\ sent'[i] = sent[i]
      BY <1>2, <2>1, Zenon
    <3>2. {j \in 1..(L + n) : sent'[j] = sent'[i]} = {j \in 1..L : sent[j] = sent[i]}
      BY <1>2, <1>3, <2>1, <3>1, Zenon
    <3>3. PICK k \in 1..L : {j \in 1..L : sent[j] = sent[i]} = k..(k + sent[i].len - 1)
      BY <1>1, <1>4, <3>1, Zenon DEF IInv, AtomicWrites
    <3>. QED  BY <1>3, <3>1, <3>2, <3>3, Zenon
  <2>2. CASE sent'[i] = c
    <3>1. Absent(c) /\ c.len \in Nat /\ n \in {0, c.len}
      BY <1>4, <2>2, PipeAssumption, Zenon DEF WriteCall
    <3>2. \A j \in 1..L : sent'[j] # c
      BY <3>1, Zenon DEF Absent
    <3>3. i \in (L + 1)..(L + n) /\ n = c.len /\ L + 1 \in 1..(L + n)
      BY <1>1, <1>2, <2>2, <3>1, <3>2
    <3>4. {j \in 1..(L + n) : sent'[j] = c} = (L + 1)..(L + n)
      BY <1>1, <1>2, <3>2
    <3>5. L + n = (L + 1) + c.len - 1
      <4>1. L \in Int /\ n \in Int /\ c.len = n
        BY <1>1, <3>3
      <4>. QED  BY <4>1
    <3>. QED  BY <2>2, <3>3, <3>4, <3>5, Zenon
  <2>. QED  BY <2>1, <2>2, Zenon
<1>. QED  BY <1>1, <1>4, Zenon DEF AtomicWrites

(* The calls after a write that copied n bytes and returned or waits on.   *)
LEMMA WriteCalls ==
    ASSUME IInv, NEW p \in Procs, NEW c, NEW done, WriteCall(p, c, done), NEW n \in Nat,
           sent' \in Seq(Bytes), Len(sent') = Len(sent) + n,
           \A i \in 1..Len(sent) : sent'[i] = sent[i],
           \A i \in (Len(sent) + 1)..(Len(sent) + n) : sent'[i] = c,
           \A q \in Procs \ {p} : pc'[q] = pc[q],
           Writing(p)' => /\ pc'[p].c = c /\ pc'[p].done = done + n /\ done + n < c.len
                          /\ c.len <= PipeBuf => n = 0
    PROVE  CallsInv'
<1> DEFINE L == Len(sent)
<1>0. TypeOK /\ CallsInv
  BY Zenon DEF IInv
<1>1. L \in Nat /\ \A i \in 1..(L + n) : i \in 1..L \/ i \in (L + 1)..(L + n)
  BY <1>0, Numbers
<1>2. \A k \in 1..calls : k \in 1..calls'
  BY <1>0, Numbers DEF WriteCall
<1>3. \A i \in 1..Len(sent') : sent'[i].call \in 1..calls'
  BY <1>0, <1>1, <1>2, Zenon DEF WriteCall, CallsInv
<1>4. ASSUME NEW q \in Procs, Writing(q)'
      PROVE  /\ pc'[q].c.call \in 1..calls' /\ pc'[q].c.len \in Lengths
             /\ pc'[q].done < pc'[q].c.len
             /\ pc'[q].c.len <= PipeBuf => pc'[q].done = 0 /\ Absent(pc[q].c)'
  <2>1. CASE q = p
    <3>1. /\ pc'[p].c = c /\ pc'[p].done = done + n /\ done + n < c.len
          /\ c.len <= PipeBuf => n = 0
      BY <1>4, <2>1, Zenon
    <3>2. /\ c.call \in 1..calls' /\ c.len \in Lengths
          /\ c.len <= PipeBuf => done = 0 /\ Absent(c)
      BY Zenon DEF WriteCall
    <3>3. c.len <= PipeBuf => done + n = 0 /\ Absent(pc[p].c)'
      BY <1>1, <3>1, <3>2 DEF Absent
    <3>. QED  BY <2>1, <3>1, <3>2, <3>3, Zenon
  <2>2. CASE q # p
    <3>1. pc'[q] = pc[q] /\ Writing(q)
      BY <1>4, <2>2, Zenon DEF Writing
    <3>2. /\ pc[q].c.call \in 1..calls /\ pc[q].c.len \in Lengths
          /\ pc[q].done < pc[q].c.len
          /\ pc[q].c.len <= PipeBuf => pc[q].done = 0 /\ Absent(pc[q].c)
      BY <1>0, <3>1, Zenon DEF CallsInv
    <3>3. pc[q].c # c
      BY <2>2, <3>1, Zenon DEF WriteCall
    <3>4. Absent(pc[q].c) => Absent(pc[q].c)'
      BY <1>1, <3>1, <3>3, Zenon DEF Absent
    <3>. QED  BY <1>2, <3>1, <3>2, <3>4, Zenon
  <2>. QED  BY <2>1, <2>2, Zenon
<1>5. ASSUME NEW q \in Procs, NEW o \in Procs, Writing(q)', Writing(o)', q # o
      PROVE  pc'[q].c.call # pc'[o].c.call
  <2>1. \A k \in Procs \ {p} : Writing(k)' => Writing(k) /\ pc'[k].c.call = pc[k].c.call
    BY Zenon DEF Writing
  <2>2. \A k \in Procs \ {p} : Writing(k)' => pc'[k].c.call # c.call
    BY <2>1, Zenon DEF WriteCall
  <2>3. Writing(p)' => pc'[p].c.call = c.call
    OBVIOUS
  <2>4. CASE q # p /\ o # p
    <3>1. Writing(q) /\ Writing(o) /\ pc'[q].c.call = pc[q].c.call /\ pc'[o].c.call = pc[o].c.call
      BY <1>5, <2>1, <2>4, Zenon
    <3>. QED  BY <1>0, <1>5, <3>1, Zenon DEF CallsInv
  <2>5. CASE q = p
    BY <1>5, <2>2, <2>3, <2>5, Zenon
  <2>6. CASE o = p
    BY <1>5, <2>2, <2>3, <2>6, Zenon
  <2>. QED  BY <2>4, <2>5, <2>6, Zenon
<1>. QED  BY <1>3, <1>4, <1>5, Zenon DEF CallsInv

(* process_handle_pipe_write: one pass of its loop, whether it writes all, *)
(* a part or nothing.                                                      *)
LEMMA WriteStep ==
    ASSUME IInv, NEW p \in Procs, NEW c, NEW done, NEW nonblock, WriteCall(p, c, done),
           st[p] = "RUNNING", fds[p]["w"] = 1, WriteBody(p, c, done, nonblock),
           UNCHANGED <<refs, fds, nread>>
    PROVE  IInv'
<1> DEFINE n == Copied(c.len, done, Free)
           gone == RemoveProc(w, p)
           room == Free >= Needed(c.len)
           out == IF room THEN WakeAll(gone, R) ELSE gone
           woken == IF room THEN WakeStates(w, R, st) ELSE st
<1>0. TypeOK /\ RingInv /\ CallsInv /\ AtomicWrites /\ WaitInv /\ RefsExact /\ NoLostWakeup
  BY Zenon DEF IInv
<1>1. CASE refs.r = 0
  <2>1. GivesUp(p)
    BY <1>1, Zenon DEF WriteBody, GivesUp, Return
  <2>. QED  BY <2>1, GiveUpStep, Zenon DEF WriteCall
<1>2. CASE refs.r # 0
  <2>1. /\ Free \in 0..Size /\ Size \in Nat /\ Free = Size - ring.count /\ ring.count \in Nat
        /\ c.len \in Lengths /\ c \in Bytes /\ done \in Nat
    BY <1>0, Numbers DEF WriteCall
  <2>2. /\ n \in 0..Free /\ n \in Nat /\ done + n \in Nat /\ done + n <= c.len
        /\ (room /\ c.len <= PipeBuf) => n = c.len - done
        /\ Needed(c.len) \in Nat \ {0}
        /\ done + n # c.len => Free - n < Needed(c.len)
    BY <2>1, CopyNumbers, Zenon DEF WriteCall
  <2>3. Puts(n, c)
    BY <1>2, Zenon DEF WriteBody, Puts, Copied
  <2>4. /\ RingInv' /\ ring' \in RingType /\ ring'.count = ring.count + n
        /\ sent' \in Seq(Bytes) /\ Len(sent') = Len(sent) + n
        /\ \A i \in 1..Len(sent) : sent'[i] = sent[i]
        /\ \A i \in (Len(sent) + 1)..(Len(sent) + n) : sent'[i] = c
    BY <1>0, <2>1, <2>2, <2>3, PutStep, Zenon
  <2>7. ~room => n = 0
    BY Zenon DEF Copied
  <2>5. AtomicWrites'
    <3>1. c.len <= PipeBuf => n \in {0, c.len}
      <4>1. c.len \in Int
        BY <2>1, LengthsAreNat, Zenon
      <4>3. c.len <= PipeBuf => done = 0
        BY Zenon DEF WriteCall
      <4>2. (c.len <= PipeBuf /\ room) => n = c.len
        BY <2>2, <4>1, <4>3
      <4>. QED  BY <2>7, <4>2, Zenon
    <3>. QED  BY <2>2, <2>4, <3>1, WholeWrites, Zenon
  <2>6. Free' = Free - n
    <3>1. Size \in Int /\ ring.count \in Int /\ n \in Int
      BY <2>1, <2>2
    <3>. QED  BY <2>1, <2>4, <3>1 DEF Free
  <2>8. /\ gone \in [Queues -> SUBSET (Procs \cup Others)]
        /\ \A q \in Queues : gone[q] = w[q] \ {p}
    BY <1>0, QueueSteps, Zenon DEF TypeOK
  <2>9. /\ out \in [Queues -> SUBSET (Procs \cup Others)]
        /\ \A q \in Queues : out[q] = IF room THEN gone[q] \ gone[R] ELSE gone[q]
    <3>1. /\ WakeAll(gone, R) \in [Queues -> SUBSET (Procs \cup Others)]
          /\ \A q \in Queues : WakeAll(gone, R)[q] = gone[q] \ gone[R]
      BY <1>0, <2>8, QueueSteps, QueueNames, Zenon
    <3>. QED  BY <2>8, <3>1, Zenon
  <2>10. /\ woken \in [Procs -> States]
         /\ \A q \in Procs : woken[q] =
              IF room /\ q \in w[R] /\ st[q] \in {"WAITING", "SLEEPING"} THEN "RUNNING" ELSE st[q]
    <3>1. st \in [Procs -> States]
      BY <1>0, Zenon DEF TypeOK
    <3>. QED  BY <3>1, Zenon DEF WakeStates, Woken, States
  <2>11. \/ /\ w' = out /\ st' = woken
            /\ pc' = [pc EXCEPT ![p] = Idle]
         \/ /\ done + n # c.len /\ ~AddFails(out, W, p)
            /\ w' = Add(out, W, p) /\ st' = [woken EXCEPT ![p] = "WAITING"]
            /\ pc' = [pc EXCEPT ![p] = [op |-> "write", c |-> c, done |-> done + n]]
    BY <1>2, Zenon DEF WriteBody, Return, Copied
  <2>12. ASSUME NEW q \in Procs \ {p}, woken[q] \in {"WAITING", "SLEEPING"}, pc'[q] = pc[q],
                q \in out[R] => q \in w'[R], q \in out[W] => q \in w'[W]
         PROVE  Waits(q)'
    <3>1. st[q] \in {"WAITING", "SLEEPING"} /\ ~(room /\ q \in w[R])
      BY <2>10, <2>12, Zenon
    <3>2. Waits(q)
      BY <1>0, <3>1, Sleepers, Zenon
    <3>3. pc[q].op = "poll" => pc[q].e \in {"r", "w"}
      BY <1>0, CallParts, QueueNames, Zenon DEF TypeOK
    <3>4. CASE pc[q].op = "read" \/ (pc[q].op = "poll" /\ pc[q].e = "r")
      <4>1. q \in w[R]
        BY <3>2, <3>4, WaitsFor, QueueNames, Zenon
      <4>2. n = 0 /\ ring'.count = ring.count
        BY <2>1, <2>4, <2>7, <3>1, <4>1
      <4>3. q \in w'[R]
        BY <2>8, <2>9, <2>12, <3>1, <4>1, QueueNames, Zenon
      <4>4. Ready("r")' = Ready("r")
        BY <4>2, Zenon DEF Ready
      <4>. QED  BY <2>12, <3>2, <3>4, <4>2, <4>3, <4>4, WaitsFor, QueueNames, Zenon DEF Waits, QueueOf
    <3>5. CASE pc[q].op = "write" \/ (pc[q].op = "poll" /\ pc[q].e = "w")
      <4>1. q \in w[W] /\ EndOf(q) = "w"
        BY <3>2, <3>5, WaitsFor, QueueNames, Zenon DEF EndOf
      <4>2. q \notin w[R]
        BY <1>0, <4>1, QueueNames, Zenon DEF WaitInv
      <4>3. q \in w'[W]
        BY <2>8, <2>9, <2>12, <4>1, <4>2, QueueNames, Zenon
      <4>4. ~Ready("w") => ~Ready("w")'
        <5>1. ring.count \in Int /\ n \in Nat /\ Size \in Int /\ ring'.count = ring.count + n
          BY <2>1, <2>2, <2>4
        <5>2. ~(ring.count < Size) => ~(ring'.count < Size)
          BY <5>1
        <5>. QED  BY <5>2, Zenon DEF Ready
      <4>5. pc[q].op = "write" => (Free < Needed(pc[q].c.len))'
        <5>1. Free \in Int /\ n \in Nat /\ Free' = Free - n
          BY <2>1, <2>2, <2>6
        <5>2. pc[q].op = "write" => pc[q].c.len \in Nat /\ Free < Needed(pc[q].c.len)
          BY <1>0, <3>2, WaitsFor, PipeAssumption, Zenon DEF CallsInv, Writing
        <5>3. pc[q].op = "write" => Needed(pc[q].c.len) \in Int /\ Needed(pc[q].c.len)' = Needed(pc[q].c.len)
          BY <2>12, <5>2 DEF Needed
        <5>. QED  BY <5>1, <5>2, <5>3
      <4>. QED  BY <2>12, <3>2, <3>5, <4>3, <4>4, <4>5, WaitsFor, QueueNames, Zenon DEF Waits, QueueOf
    <3>. QED  BY <3>2, <3>3, <3>4, <3>5, WaitsFor, Zenon
  <2>13. CASE w' = out /\ st' = woken /\ pc' = [pc EXCEPT ![p] = Idle]
    <3>1. /\ pc' \in [Procs -> Calls] /\ pc'[p] = Idle /\ Idle.op = "idle"
          /\ \A q \in Procs \ {p} : pc'[q] = pc[q]
      BY <1>0, <2>13, Returns, CallKinds, Zenon
    <3>2. OnlyWakes(p) /\ st'[p] = "RUNNING"
      BY <2>10, <2>13, Zenon DEF OnlyWakes
    <3>3. \A q \in Queues : w'[q] \subseteq w[q] \ {p}
      BY <2>8, <2>9, <2>13, Zenon
    <3>4. Finishes(p)
      BY <2>9, <2>13, <3>2, <3>3, Zenon DEF Finishes
    <3>5. WaitInv' /\ RefsExact'
      BY <3>4, ReturnStep, Zenon
    <3>6. CallsInv'
      BY <2>2, <2>4, <3>1, WriteCalls, Zenon DEF Writing
    <3>7. TypeOK'
      BY <1>0, <2>4, <2>9, <2>10, <2>13, <3>1, Zenon DEF TypeOK, RingType, WriteCall
    <3>8. \A q \in Procs : st'[q] \in {"WAITING", "SLEEPING"} => Waits(q)'
      BY <2>12, <2>13, <3>1, <3>2, Zenon
    <3>9. NoLostWakeup'
      BY <3>8, Zenon DEF NoLostWakeup, Waits
    <3>. QED  BY <2>4, <2>5, <3>5, <3>6, <3>7, <3>9, Zenon DEF IInv
  <2>14. CASE /\ done + n # c.len /\ ~AddFails(out, W, p)
              /\ w' = Add(out, W, p) /\ st' = [woken EXCEPT ![p] = "WAITING"]
              /\ pc' = [pc EXCEPT ![p] = [op |-> "write", c |-> c, done |-> done + n]]
    <3> DEFINE k == [op |-> "write", c |-> c, done |-> done + n]
    <3>1. k \in Calls /\ k.op = "write" /\ k.c = c /\ k.done = done + n
      BY <2>1, <2>2, CallKinds, Zenon
    <3>2. /\ pc' \in [Procs -> Calls] /\ pc'[p] = k
          /\ \A q \in Procs \ {p} : pc'[q] = pc[q]
      BY <1>0, <2>14, <3>1, Returns, Zenon
    <3>3. /\ w' \in [Queues -> SUBSET (Procs \cup Others)]
          /\ w'[W] = out[W] \cup {p}
          /\ \A q \in Queues \ {W} : w'[q] = out[q]
      BY <2>9, <2>14, QueueNames DEF Add
    <3>4. st' \in [Procs -> States] /\ st'[p] = "WAITING" /\ \A q \in Procs \ {p} : st'[q] = woken[q]
      BY <2>10, <2>14, Zenon DEF States
    <3>5. OnlyWakes(p)
      BY <2>10, <3>4, Zenon DEF OnlyWakes
    <3>6. EndOf(p)' = "w"
      BY <3>1, <3>2, Zenon DEF EndOf
    <3>7. \A q \in Queues : w'[q] \subseteq IF q = QueueOf("w") THEN w[q] \cup {p} ELSE w[q] \ {p}
      BY <2>8, <2>9, <3>3, QueueNames
    <3>8. Parks(p, "w", k)
      BY <2>14, <3>1, <3>3, <3>4, <3>5, <3>6, <3>7, Zenon DEF Parks
    <3>9. WaitInv' /\ RefsExact'
      BY <3>1, <3>8, ParkStep, QueueNames, Zenon
    <3>10. done + n < c.len /\ (c.len <= PipeBuf => n = 0)
      <4>1. done \in Int /\ n \in Int /\ c.len \in Int
        BY <2>1, <2>2, LengthsAreNat
      <4>2. done + n < c.len
        BY <2>2, <2>14, <4>1
      <4>3. c.len <= PipeBuf => ~room
        BY <2>2, <4>1, <4>2
      <4>. QED  BY <2>7, <4>2, <4>3, Zenon
    <3>11. CallsInv'
      <4>1. Writing(p)' => /\ pc'[p].c = c /\ pc'[p].done = done + n /\ done + n < c.len
                           /\ c.len <= PipeBuf => n = 0
        BY <3>1, <3>2, <3>10, Zenon
      <4>. QED  BY <2>2, <2>4, <3>2, <4>1, WriteCalls, Zenon
    <3>12. TypeOK'
      BY <1>0, <2>4, <3>2, <3>3, <3>4, Zenon DEF TypeOK, RingType, WriteCall
    <3>13. ASSUME NEW q \in Procs \ {p}, st'[q] \in {"WAITING", "SLEEPING"} PROVE Waits(q)'
      BY <2>12, <3>2, <3>3, <3>4, <3>13, QueueNames, Zenon
    <3>14. Waits(p)'
      <4>1. p \in w'[W] /\ refs'.r > 0
        BY <1>0, <1>2, <3>3, Numbers
      <4>2. (Free < Needed(pc[p].c.len))'
        BY <2>2, <2>6, <2>14, <3>1, <3>2, Zenon DEF Needed
      <4>. QED  BY <3>1, <3>2, <4>1, <4>2, Zenon DEF Waits
    <3>15. NoLostWakeup'
      BY <3>13, <3>14, Zenon DEF NoLostWakeup, Waits
    <3>. QED  BY <2>4, <2>5, <3>9, <3>11, <3>12, <3>15, Zenon DEF IInv
  <2>. QED  BY <2>11, <2>13, <2>14, Zenon
<1>. QED  BY <1>1, <1>2, Zenon
=============================================================================
