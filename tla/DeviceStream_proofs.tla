-------------------------- MODULE DeviceStream_proofs --------------------------
(***************************************************************************)
(* Of DeviceStream, for all GPUs, types, strategies and bounds: its types, *)
(* that a beat tells the truth, and that no GPU is offered twice.          *)
(***************************************************************************)
EXTENDS DeviceStream, SequenceTheorems, FiniteSetTheorems, TLAPS

World ==
  /\ kind \in Kinds /\ strategy \in {"single", "mixed"} /\ names \subseteq Resources
  /\ listed \subseteq GPUs /\ openable \subseteq GPUs /\ sick \subseteq GPUs
  /\ exporter \in {"up", "down"} /\ known \in [Resources -> SUBSET GPUs]
  /\ pulse \in {"off", "sleep", "beat"}

\* kubelet gets one connection more than there were broken ones.
Connections ==
  /\ conns \in [Resources -> Nat] /\ live \in [Resources -> Nat] /\ seen \in [Resources -> Lists]
  /\ changes \in 0 .. MaxChanges
  /\ \A r \in Resources : /\ live[r] \in {0, conns[r]}
                          /\ conns[r] <= changes + 1 /\ (live[r] = 0 => conns[r] <= changes)

StreamsInv ==
  /\ stream \in [Streams -> StreamState]
  /\ \A s \in Streams : s[2] > conns[s[1]] => stream[s].pc = "none"

\* The queue of receivers holds each stream once that waits.
Queue(w, S) ==
  /\ w \in Seq(Streams) /\ {w[k] : k \in DOMAIN w} = S
  /\ \A k, l \in DOMAIN w : w[k] = w[l] => k = l
Waiters == {s \in Streams : At(s, "wait")}
QueueInv == Queue(waiting, Waiters)

TypeInv == World /\ Connections /\ StreamsInv /\ QueueInv

LEMMA InvHasTypes == TypeInv => TypeOK
<1> SUFFICES ASSUME TypeInv PROVE TypeOK
  OBVIOUS
<1>1. \A r \in Resources : conns[r] \in 0 .. MaxChanges + 1 /\ live[r] \in 0 .. MaxChanges + 1
  BY StreamAssumption DEF TypeInv, Connections
<1>2. conns \in [Resources -> 0 .. MaxChanges + 1] /\ live \in [Resources -> 0 .. MaxChanges + 1]
  BY <1>1 DEF TypeInv, Connections
<1> QED BY <1>2 DEF TypeInv, World, Connections, StreamsInv, QueueInv, Queue, Waiters, TypeOK

-------------------------------------------------------------------------------
(* The queue                                                               *)

LEMMA QueueAppend ==
  ASSUME NEW w, NEW S, Queue(w, S), NEW s \in Streams, s \notin S
  PROVE  Queue(Append(w, s), S \cup {s})
<1>1. w \in Seq(Streams) /\ Append(w, s) \in Seq(Streams) /\ Len(Append(w, s)) = Len(w) + 1
  BY DEF Queue
<1>2. /\ \A k \in 1 .. Len(w) : Append(w, s)[k] = w[k]
      /\ Append(w, s)[Len(w) + 1] = s
      /\ DOMAIN w = 1 .. Len(w) /\ DOMAIN Append(w, s) = 1 .. Len(w) + 1 /\ Len(w) \in Nat
  BY <1>1
<1> DEFINE u == Append(w, s)
<1> HIDE DEF u
<1>3. \A k \in 1 .. Len(w) : w[k] \in S
  BY <1>2 DEF Queue
<1>4. {u[k] : k \in DOMAIN u} = S \cup {s}
  <2>1. \A k \in DOMAIN u : u[k] \in S \cup {s}
    BY <1>2, <1>3 DEF u
  <2>2. \A x \in S : \E k \in DOMAIN u : u[k] = x
    BY <1>2 DEF u, Queue
  <2>3. \E k \in DOMAIN u : u[k] = s
    BY <1>2 DEF u
  <2> QED BY <2>1, <2>2, <2>3
<1>5. \A k, l \in DOMAIN u : u[k] = u[l] => k = l
  BY <1>2, <1>3 DEF u, Queue
<1> QED BY <1>1, <1>4, <1>5 DEF Queue, u

\* Taking the k-th receiver out.
Without(w, k) == SubSeq(w, 1, k - 1) \o SubSeq(w, k + 1, Len(w))

LEMMA QueueWithout ==
  ASSUME NEW w, NEW S, Queue(w, S), NEW k \in 1 .. Len(w)
  PROVE  Queue(Without(w, k), S \ {w[k]})
<1>1. w \in Seq(Streams) /\ Len(w) \in Nat /\ DOMAIN w = 1 .. Len(w)
  BY DEF Queue
<1> DEFINE a == SubSeq(w, 1, k - 1)
           b == SubSeq(w, k + 1, Len(w))
           u == Without(w, k)
<1>2. a \in Seq(Streams) /\ Len(a) = k - 1 /\ \A j \in 1 .. k - 1 : a[j] = w[j]
  BY <1>1
<1>3. b \in Seq(Streams) /\ Len(b) = Len(w) - k /\ \A j \in 1 .. Len(w) - k : b[j] = w[k + j]
  <2> DEFINE n == Len(w)
             m == k + 1
  <2>1. n \in Int /\ m \in Int /\ \A j \in m .. n : w[j] \in Streams
    BY <1>1
  <2>2. k \in Int /\ k <= n
    BY <1>1
  <2>3. b = SubSeq(w, m, n)
    OBVIOUS
  <2> HIDE DEF b, n
  <2>4. /\ b \in Seq(Streams) /\ Len(b) = IF m <= n THEN n - m + 1 ELSE 0
        /\ \A j \in 1 .. n - m + 1 : b[j] = w[m + j - 1]
    BY <2>1, <2>3, SubSeqProperties
  <2>5. n - m + 1 = n - k /\ (m <= n \/ n - k = 0)
    BY <2>1, <2>2
  <2>6. ASSUME NEW j \in 1 .. n - k PROVE b[j] = w[k + j]
    <3>1. j \in 1 .. n - m + 1 /\ m + j - 1 = k + j
      BY <2>1, <2>2, <2>5
    <3>2. b[j] = w[m + j - 1]
      BY <2>4, <3>1
    <3> QED BY <3>1, <3>2
  <2> QED BY <2>4, <2>5, <2>6 DEF n
<1>4. /\ u \in Seq(Streams) /\ Len(u) = Len(w) - 1 /\ DOMAIN u = 1 .. Len(w) - 1
      /\ \A j \in 1 .. Len(w) - 1 : u[j] = IF j < k THEN w[j] ELSE w[j + 1]
  <2> HIDE DEF a, b
  <2>1. u = a \o b
    BY DEF u, a, b, Without
  <2>2. u \in Seq(Streams) /\ Len(u) = Len(a) + Len(b)
        /\ \A j \in 1 .. Len(a) + Len(b) : u[j] = IF j <= Len(a) THEN a[j] ELSE b[j - Len(a)]
    BY <1>2, <1>3, <2>1, ConcatProperties
  <2>3. Len(u) = Len(w) - 1 /\ DOMAIN u = 1 .. Len(w) - 1
    BY <1>1, <1>2, <1>3, <2>2
  <2>4. ASSUME NEW j \in 1 .. Len(w) - 1 PROVE u[j] = IF j < k THEN w[j] ELSE w[j + 1]
    <3>1. CASE j < k
      BY <1>1, <1>2, <1>3, <2>2, <3>1
    <3>2. CASE j >= k
      <4>1. ~(j <= Len(a)) /\ j - Len(a) = j - (k - 1) /\ j - (k - 1) \in 1 .. Len(w) - k
            /\ j \in 1 .. Len(a) + Len(b)
        BY <1>1, <1>2, <1>3, <3>2
      <4>0. u[j] = b[j - (k - 1)]
        BY <2>2, <4>1
      <4>2. b[j - (k - 1)] = w[k + (j - (k - 1))] /\ k + (j - (k - 1)) = j + 1
        BY <1>1, <1>3, <4>1
      <4> QED BY <3>2, <4>0, <4>2
    <3> QED BY <1>1, <3>1, <3>2
  <2> QED BY <2>2, <2>3, <2>4
<1> HIDE DEF u
<1>5. \A j, l \in DOMAIN w : w[j] = w[l] => j = l
  BY DEF Queue
<1>6. \A j \in DOMAIN u : u[j] \in S \ {w[k]}
  BY <1>1, <1>4, <1>5 DEF Queue
<1>7. \A x \in S \ {w[k]} : \E j \in DOMAIN u : u[j] = x
  <2> SUFFICES ASSUME NEW x \in S \ {w[k]} PROVE \E j \in DOMAIN u : u[j] = x
    OBVIOUS
  <2>1. PICK j \in 1 .. Len(w) : w[j] = x /\ j # k
    BY <1>1 DEF Queue
  <2>2. CASE j < k
    BY <1>1, <1>4, <2>1, <2>2
  <2>3. CASE j > k
    <3>1. j - 1 \in DOMAIN u /\ u[j - 1] = w[j]
      BY <1>1, <1>4, <2>1, <2>3
    <3> QED BY <2>1, <3>1
  <2> QED BY <2>1, <2>2, <2>3
<1>8. \A j, l \in DOMAIN u : u[j] = u[l] => j = l
  <2> DEFINE at(j) == IF j < k THEN j ELSE j + 1
  <2>1. \A j \in DOMAIN u : at(j) \in DOMAIN w /\ u[j] = w[at(j)]
    BY <1>1, <1>4
  <2>2. \A j, l \in DOMAIN u : at(j) = at(l) => j = l
    BY <1>1, <1>4
  <2> HIDE DEF at
  <2> QED BY <1>5, <2>1, <2>2
<1>9. {u[j] : j \in DOMAIN u} = S \ {w[k]}
  BY <1>6, <1>7
<1> QED BY <1>4, <1>8, <1>9 DEF Queue, u

LEMMA QueueTail ==
  ASSUME NEW w, NEW S, Queue(w, S), w # <<>>
  PROVE  Head(w) \in S /\ Head(w) \in Streams /\ Queue(Tail(w), S \ {Head(w)})
<1>1. w \in Seq(Streams) /\ Len(w) \in Nat \ {0} /\ 1 \in DOMAIN w /\ Head(w) = w[1] /\ Tail(w) \in Seq(Streams)
  BY DEF Queue
<1>2. SubSeq(w, 1, 0) = <<>> /\ SubSeq(w, 2, Len(w)) = Tail(w)
  BY <1>1, SubSeqEmpty, TailIsSubSeq
<1>3. Without(w, 1) = <<>> \o Tail(w)
  BY <1>2 DEF Without
<1>4. Without(w, 1) = Tail(w)
  BY <1>1, <1>3, ConcatEmptySeq
<1>5. Queue(Without(w, 1), S \ {w[1]})
  BY <1>1, QueueWithout
<1>6. w[1] \in S /\ w[1] \in Streams
  BY <1>1 DEF Queue
<1> QED BY <1>1, <1>4, <1>5, <1>6

-------------------------------------------------------------------------------
(* Types                                                                   *)

LEMMA EmptyList == <<>> \in Lists
<1>1. <<>> \in [{} -> Healths]
  OBVIOUS
<1> QED BY <1>1 DEF Lists

LEMMA IdleTypes == Idle \in StreamState /\ [Idle EXCEPT !.pc = "list"] \in StreamState /\ Ended \in StreamState
  BY EmptyList DEF Idle, Ended, StreamState, Labels

LEMMA ListTypes ==
  ASSUME NEW S, S \subseteq GPUs, NEW d, d \in [S -> Healths] PROVE d \in Lists /\ DOMAIN d = S
  BY DEF Lists

LEMMA ListDomains == ASSUME NEW d \in Lists PROVE DOMAIN d \subseteq GPUs /\ d \in [DOMAIN d -> Healths]
  BY DEF Lists

\* Steps that leave the streams where they are.
LEMMA PcsStay ==
  ASSUME StreamsInv, QueueInv, stream' \in [Streams -> StreamState],
         \A s \in Streams : stream'[s].pc = stream[s].pc, UNCHANGED <<conns, waiting>>
  PROVE  StreamsInv' /\ QueueInv'
<1>1. Waiters' = Waiters
  BY DEF Waiters, At
<1> QED BY <1>1 DEF StreamsInv, QueueInv

\* A stream that is there takes a step to state x.
LEMMA StreamMoves ==
  ASSUME StreamsInv, NEW s \in Streams, stream[s].pc # "none", NEW x \in StreamState, Set(s, x),
         UNCHANGED conns
  PROVE  /\ StreamsInv' /\ stream'[s] = x /\ \A t \in Streams \ {s} : stream'[t] = stream[t]
         /\ Waiters' = IF x.pc = "wait" THEN Waiters \cup {s} ELSE Waiters \ {s}
<1>1. stream'[s] = x /\ \A t \in Streams \ {s} : stream'[t] = stream[t]
  BY DEF Set, StreamsInv
<1>2. StreamsInv'
  BY <1>1 DEF Set, StreamsInv
<1>3. Waiters' = IF x.pc = "wait" THEN Waiters \cup {s} ELSE Waiters \ {s}
  BY <1>1 DEF Waiters, At
<1> QED BY <1>1, <1>2, <1>3

\* One that waits neither before nor after leaves the queue alone.
LEMMA StreamWorks ==
  ASSUME StreamsInv, QueueInv, NEW s \in Streams, stream[s].pc \notin {"none", "wait"},
         NEW x \in StreamState, x.pc # "wait", Set(s, x), UNCHANGED <<conns, waiting>>
  PROVE  StreamsInv' /\ QueueInv'
<1>1. StreamsInv' /\ Waiters' = Waiters
  BY StreamMoves DEF Waiters, At
<1> QED BY <1>1 DEF QueueInv

\* The map of a plugin is replaced, or GPUs change.
LEMMA ReplaceTypes ==
  ASSUME StreamsInv, NEW r, NEW S
  PROVE  /\ Replace(r, S) \in [Streams -> StreamState]
         /\ \A s \in Streams : Replace(r, S)[s].pc = stream[s].pc
<1> DEFINE x(s) == IF s[1] # r THEN stream[s]
                   ELSE [stream[s] EXCEPT !.steady = {g \in @ : g \in known[r] <=> g \in S}]
<1>1. ASSUME NEW s \in Streams PROVE x(s) \in StreamState /\ x(s).pc = stream[s].pc
  BY DEF StreamsInv, StreamState
<1>2. Replace(r, S) = [s \in Streams |-> x(s)]
  BY DEF Replace
<1> HIDE DEF x
<1> QED BY <1>1, <1>2

LEMMA UnsteadyTypes ==
  ASSUME StreamsInv, NEW S, Unsteady(S)
  PROVE  /\ stream' \in [Streams -> StreamState] /\ \A s \in Streams : stream'[s].pc = stream[s].pc
         /\ \A s \in Streams : stream'[s] = [stream[s] EXCEPT !.steady = stream[s].steady \ S]
<1>1. \A s \in Streams : LET x == [stream[s] EXCEPT !.steady = @ \ S]
                          IN  x \in StreamState /\ x.pc = stream[s].pc
  BY DEF StreamsInv, StreamState
<1> QED BY <1>1 DEF Unsteady

LEMMA InitTypes == ASSUME Init PROVE TypeInv
<1>1. names \subseteq Resources
  BY StreamAssumption DEF Init, ResourceNames, PartitionTypes, Resources
<1>2. World
  BY <1>1, StreamAssumption DEF Init, World
<1>3. Connections
  BY EmptyList, StreamAssumption DEF Init, Connections
<1>4. StreamsInv
  BY IdleTypes, StreamAssumption DEF Init, StreamsInv, Streams, Idle
<1>5. Waiters = {}
  BY DEF Init, Waiters, At, Idle
<1>6. QueueInv
  BY <1>5 DEF Init, QueueInv, Queue
<1> QED BY <1>2, <1>3, <1>4, <1>6 DEF TypeInv

LEMMA EnvironmentTypes == ASSUME TypeInv, Environment PROVE TypeInv'
<1> USE DEF TypeInv
<1>1. ASSUME NEW g \in GPUs, GPUChanges(g) PROVE TypeInv'
  <2>1. World'
    BY <1>1 DEF GPUChanges, World, Flip, started
  <2>2. Connections'
    BY <1>1, StreamAssumption DEF GPUChanges, Change, Connections, kubelet
  <2> QED BY <1>1, <2>1, <2>2, UnsteadyTypes, PcsStay DEF GPUChanges, kubelet
<1>2. CASE ExporterChanges
  <2>1. World'
    BY <1>2 DEF ExporterChanges, World, started
  <2>2. Connections'
    BY <1>2, StreamAssumption DEF ExporterChanges, Change, Connections, kubelet
  <2> QED BY <1>2, <2>1, <2>2, UnsteadyTypes, PcsStay DEF ExporterChanges, kubelet
<1>3. ASSUME NEW r \in names, Disconnect(r) PROVE TypeInv'
  <2>1. World'
    BY <1>3 DEF Disconnect, World, started, hw
  <2>2. Connections'
    <3>1. r \in Resources /\ changes' = changes + 1 /\ changes < MaxChanges /\ conns' = conns
      BY <1>3 DEF Disconnect, Change, World
    <3>2. live' = [live EXCEPT ![r] = 0] /\ seen' = [seen EXCEPT ![r] = <<>>]
      BY <1>3 DEF Disconnect
    <3>3. seen' \in [Resources -> Lists] /\ live' \in [Resources -> Nat]
      BY <3>2, EmptyList DEF Connections
    <3>4. changes' \in 0 .. MaxChanges
      BY <3>1, StreamAssumption DEF Connections
    <3>5. ASSUME NEW q \in Resources
          PROVE  live'[q] \in {0, conns[q]} /\ conns[q] <= changes' /\ conns[q] \in Nat
      BY <3>1, <3>2, <3>5 DEF Connections
    <3>6. \A q \in Resources : conns[q] <= changes' + 1
      BY <3>4, <3>5
    <3> QED BY <3>1, <3>3, <3>4, <3>5, <3>6 DEF Connections
  <2>3. StreamsInv' /\ QueueInv'
    BY <1>3 DEF Disconnect, StreamsInv, QueueInv, Waiters, At
  <2> QED BY <2>1, <2>2, <2>3
<1> QED BY <1>1, <1>2, <1>3 DEF Environment

LEMMA ProcessTypes ==
  ASSUME TypeInv, Tick \/ Beat \/ \E r \in names : Connect(r) \/ Publish(r)
  PROVE  TypeInv'
<1> USE DEF TypeInv
<1>1. CASE Tick
  <2>1. World'
    BY <1>1 DEF Tick, World, started, hw
  <2> QED BY <1>1, <2>1 DEF Tick, Connections, kubelet, StreamsInv, QueueInv, Waiters, At
<1>2. CASE Beat
  <2> DEFINE s == Head(waiting)
             x == [stream[s] EXCEPT !.pc = "snapshot", !.devs = ExporterHealth(@), !.steady = GPUs]
  <2>1. World'
    BY <1>2 DEF Beat, World, started, hw
  <2>2. s \in Streams /\ stream[s].pc = "wait" /\ Queue(Tail(waiting), Waiters \ {s})
    <3>1. s \in Waiters /\ s \in Streams /\ Queue(Tail(waiting), Waiters \ {s})
      BY <1>2, QueueTail DEF Beat, QueueInv
    <3> QED BY <3>1 DEF Waiters, At
  <2>3. stream[s] \in StreamState /\ ExporterHealth(stream[s].devs) \in Lists
    <3>1. stream[s] \in StreamState /\ DOMAIN stream[s].devs \subseteq GPUs
      BY <2>2, ListDomains DEF StreamsInv, StreamState
    <3>2. ExporterHealth(stream[s].devs) \in [DOMAIN stream[s].devs -> Healths]
      BY DEF ExporterHealth, Healths
    <3> QED BY <3>1, <3>2, ListTypes
  <2>4. x \in StreamState /\ x.pc = "snapshot"
    BY <2>3 DEF StreamState, Labels
  <2>5. Set(s, x) /\ waiting' = Tail(waiting) /\ UNCHANGED <<conns, live, seen, changes>>
    BY <1>2 DEF Beat, kubelet
  <2> HIDE DEF x
  <2>6. StreamsInv' /\ Waiters' = Waiters \ {s}
    BY <2>2, <2>4, <2>5, StreamMoves
  <2>7. QueueInv'
    BY <2>2, <2>5, <2>6 DEF QueueInv
  <2> QED BY <2>1, <2>5, <2>6, <2>7 DEF Connections
<1>3. ASSUME NEW r \in names, Connect(r) PROVE TypeInv'
  <2> DEFINE s == <<r, conns[r] + 1>>
             x == [Idle EXCEPT !.pc = "list"]
  <2>1. World'
    BY <1>3 DEF Connect, World, started, hw
  <2>2. r \in Resources /\ conns[r] \in Nat /\ conns[r] <= changes
    BY <1>3 DEF Connect, World, Connections
  <2>3. Connections'
    BY <1>3, <2>2, StreamAssumption DEF Connect, Connections
  <2>4. s \in Streams /\ stream[s].pc = "none"
    BY <2>2, StreamAssumption DEF Streams, Connections, StreamsInv
  <2>5. stream' = [stream EXCEPT ![s] = x] /\ x \in StreamState /\ x.pc = "list"
    BY <1>3, IdleTypes DEF Connect, Set, Idle
  <2>6. conns' = [conns EXCEPT ![r] = @ + 1] /\ waiting' = waiting
    BY <1>3 DEF Connect
  <2> HIDE DEF x
  <2>7. \A t \in Streams : t[2] \in Int /\ t[1] \in Resources /\ (t[1] = r /\ t[2] = conns[r] + 1 => t = s)
    BY DEF Streams
  <2>8. stream' \in [Streams -> StreamState] /\ stream'[s] = x /\ \A t \in Streams \ {s} : stream'[t] = stream[t]
    BY <2>4, <2>5 DEF StreamsInv
  <2>9. ASSUME NEW t \in Streams, t[2] > conns'[t[1]] PROVE stream'[t].pc = "none"
    <3>1. t[2] > conns[t[1]] /\ t # s
      BY <2>2, <2>6, <2>7, <2>9 DEF Connections
    <3> QED BY <2>8, <3>1 DEF StreamsInv
  <2>10. StreamsInv'
    BY <2>8, <2>9 DEF StreamsInv
  <2>11. Waiters' = Waiters
    BY <2>4, <2>5, <2>8 DEF Waiters, At
  <2> QED BY <2>1, <2>3, <2>6, <2>10, <2>11 DEF QueueInv
<1>4. ASSUME NEW r \in names, Publish(r) PROVE TypeInv'
  <2>1. World'
    BY <1>4 DEF Publish, World, started, hw
  <2>2. Connections'
    BY <1>4 DEF Publish, Connections, kubelet
  <2>3. stream' \in [Streams -> StreamState] /\ \A s \in Streams : stream'[s].pc = stream[s].pc
    BY <1>4, ReplaceTypes DEF Publish
  <2>4. StreamsInv' /\ QueueInv'
    BY <1>4, <2>3, PcsStay DEF Publish, kubelet
  <2> QED BY <2>1, <2>2, <2>4
<1> QED BY <1>1, <1>2, <1>3, <1>4

\* devicesForResource picks of the GPUs found.
LEMMA DevicesAreFound == ASSUME NEW S, NEW r PROVE DevicesFor(S, r) \subseteq S
  BY DEF DevicesFor

LEMMA StreamTypes ==
  ASSUME TypeInv, NEW s \in Streams, Work(s) \/ Done(s)
  PROVE  TypeInv'
<1> USE DEF TypeInv
<1>0. s[1] \in Resources /\ stream[s] \in StreamState
  BY DEF Streams, StreamsInv
<1>1. CASE List(s)
  <2> DEFINE d == [g \in DevicesFor(listed, s[1]) |-> "Healthy"]
             x == [stream[s] EXCEPT !.pc = "send", !.found = listed, !.devs = d]
             R == Replace(s[1], listed)
  <2>1. World'
    BY <1>0, <1>1 DEF List, World, started, hw
  <2>2. Connections'
    BY <1>1 DEF List, Connections, kubelet
  <2>3. stream' = [R EXCEPT ![s] = x] /\ UNCHANGED <<conns, waiting>> /\ stream[s].pc = "list"
    BY <1>1 DEF List, kubelet, At
  <2>4. listed \subseteq GPUs /\ d \in Lists
    BY DevicesAreFound, ListTypes DEF World, Healths
  <2>5. x \in StreamState /\ x.pc = "send"
    BY <1>0, <2>4 DEF StreamState, Labels
  <2>6. R \in [Streams -> StreamState] /\ \A t \in Streams : R[t].pc = stream[t].pc
    BY ReplaceTypes
  <2> HIDE DEF x, R
  <2>7. /\ stream' \in [Streams -> StreamState] /\ stream'[s].pc = "send"
        /\ \A t \in Streams \ {s} : stream'[t].pc = stream[t].pc
    BY <2>3, <2>5, <2>6
  <2>8. Waiters' = Waiters
    BY <2>3, <2>7 DEF Waiters, At
  <2>9. StreamsInv' /\ QueueInv'
    BY <2>3, <2>7, <2>8 DEF StreamsInv, QueueInv
  <2> QED BY <2>1, <2>2, <2>9
<1>2. CASE Send(s)
  <2>1. World'
    BY <1>2 DEF Send, World, started, hw
  <2>2. Connections'
    BY <1>0, <1>2 DEF Send, Connections, StreamState
  <2>3. stream[s].pc = "send" /\ conns' = conns
    BY <1>2 DEF Send, At
  <2>4. CASE ~IsLive(s)
    <3>1. Set(s, Ended) /\ waiting' = waiting
      BY <1>2, <2>4 DEF Send
    <3> QED BY <2>1, <2>2, <2>3, <3>1, IdleTypes, StreamWorks DEF Ended, Idle
  <2>5. CASE IsLive(s)
    <3> DEFINE x == [stream[s] EXCEPT !.pc = "wait", !.steady = {}]
    <3>1. Set(s, x) /\ waiting' = Append(waiting, s)
      BY <1>2, <2>5 DEF Send
    <3>2. x \in StreamState /\ x.pc = "wait"
      BY <1>0 DEF StreamState, Labels
    <3> HIDE DEF x
    <3>3. StreamsInv' /\ Waiters' = Waiters \cup {s}
      BY <2>3, <3>1, <3>2, StreamMoves
    <3>4. s \notin Waiters
      BY <2>3 DEF Waiters, At
    <3>5. QueueInv'
      BY <3>1, <3>3, <3>4, QueueAppend DEF QueueInv
    <3> QED BY <2>1, <2>2, <3>3, <3>5
  <2> QED BY <2>4, <2>5
<1>3. CASE Snapshot(s)
  <2> DEFINE x == [stream[s] EXCEPT !.pc = "mark", !.gpus = known[s[1]]]
  <2>1. World' /\ Connections'
    BY <1>3 DEF Snapshot, World, Connections, started, hw, kubelet
  <2>2. x \in StreamState /\ x.pc = "mark"
    BY <1>0 DEF StreamState, Labels, World
  <2>3. Set(s, x) /\ stream[s].pc = "snapshot" /\ UNCHANGED <<conns, waiting>>
    BY <1>3 DEF Snapshot, At, kubelet
  <2> HIDE DEF x
  <2> QED BY <2>1, <2>2, <2>3, StreamWorks
<1>4. CASE Mark(s)
  <2> DEFINE d == [g \in DOMAIN stream[s].devs |-> IF g \in stream[s].gpus \cap listed \cap openable
                                                  THEN stream[s].devs[g] ELSE "Unhealthy"]
             x == [stream[s] EXCEPT !.pc = "send", !.gpus = {}, !.devs = d]
  <2>1. World' /\ Connections'
    BY <1>4 DEF Mark, World, Connections, started, hw, kubelet
  <2>2. d \in Lists
    <3>1. /\ stream[s].devs \in [DOMAIN stream[s].devs -> Healths] /\ DOMAIN stream[s].devs \subseteq GPUs
      BY <1>0, ListDomains DEF StreamState
    <3>2. d \in [DOMAIN stream[s].devs -> Healths]
      BY <3>1 DEF Healths
    <3> QED BY <3>1, <3>2, ListTypes
  <2>3. Set(s, x) /\ stream[s].pc = "mark" /\ UNCHANGED <<conns, waiting>>
    BY <1>4 DEF Mark, At, kubelet
  <2> HIDE DEF d
  <2>4. x \in StreamState /\ x.pc = "send"
    BY <1>0, <2>2 DEF StreamState, Labels
  <2> HIDE DEF x
  <2> QED BY <2>1, <2>3, <2>4, StreamWorks
<1>5. CASE Done(s)
  <2>1. World' /\ Connections'
    BY <1>5 DEF Done, World, Connections, started, hw, kubelet
  <2>2. PICK k \in 1 .. Len(waiting) : waiting[k] = s /\ waiting' = Without(waiting, k)
    BY <1>5 DEF Done, Leave, Without
  <2>3. Queue(waiting', Waiters \ {s})
    BY <2>2, QueueWithout DEF QueueInv
  <2>4. StreamsInv' /\ Waiters' = Waiters \ {s}
    <3>1. stream[s].pc = "wait" /\ Set(s, Ended) /\ UNCHANGED conns /\ Ended.pc = "ended"
      BY <1>5 DEF Done, At, kubelet, Ended, Idle
    <3> QED BY <3>1, IdleTypes, StreamMoves
  <2> QED BY <2>1, <2>3, <2>4 DEF QueueInv
<1> QED BY <1>1, <1>2, <1>3, <1>4, <1>5 DEF Work

LEMMA TypesInductive == Spec => []TypeInv
<1>1. TypeInv /\ [Next]_vars => TypeInv'
  <2>1. TypeInv /\ UNCHANGED vars => TypeInv'
    BY DEF vars, hw, started, kubelet, TypeInv, World, Connections, StreamsInv, QueueInv, Waiters, At
  <2> QED BY <2>1, EnvironmentTypes, ProcessTypes, StreamTypes DEF Next
<1> QED BY <1>1, InitTypes, PTL DEF Spec

-------------------------------------------------------------------------------
(* The truth of a beat                                                     *)

Said(g) == IF Sick(g) THEN "Unhealthy" ELSE "Healthy"

\* What a stream knows, on its way from a beat to the list it sends.
TruthOf(s) ==
  LET x == stream[s]
  IN  /\ x.pc \in {"list", "wait"} => x.steady = {}
      /\ \A g \in x.steady \cap DOMAIN x.devs :
           /\ x.pc \in {"snapshot", "mark"} => x.devs[g] = Said(g)
           /\ x.pc = "mark" => (g \in x.gpus <=> g \in known[s[1]])
           /\ x.pc = "send" => x.devs[g] = Verdict(s[1], g)
TruthInv == \A s \in Streams : TruthOf(s)

\* A stream that does not move knows of the GPUs that did not change what it knew.
LEMMA TruthStays ==
  ASSUME NEW s, TruthOf(s),
         stream'[s].pc = stream[s].pc, stream'[s].devs = stream[s].devs, stream'[s].gpus = stream[s].gpus,
         stream'[s].steady \subseteq stream[s].steady,
         \A g \in stream'[s].steady :
           /\ Sick(g)' <=> Sick(g)
           /\ g \in known'[s[1]] <=> g \in known[s[1]]
           /\ g \in listed' \cap openable' <=> g \in listed \cap openable
  PROVE  TruthOf(s)'
<1>1. \A g \in stream'[s].steady : Said(g)' = Said(g) /\ Verdict(s[1], g)' = Verdict(s[1], g)
  BY DEF Said, Verdict
<1> QED BY <1>1 DEF TruthOf

\* The environment's part of it.
LEMMA SameWorld ==
  ASSUME NEW s, TruthOf(s), UNCHANGED <<hw, known>>, stream'[s] = stream[s] PROVE TruthOf(s)'
  BY TruthStays DEF hw, Sick

LEMMA InitTruth == ASSUME Init PROVE TruthInv
  BY DEF Init, TruthInv, TruthOf, Idle

LEMMA EnvironmentTruth == ASSUME TypeInv, TruthInv, Environment PROVE TruthInv'
<1> SUFFICES ASSUME NEW s \in Streams PROVE TruthOf(s)'
  BY DEF TruthInv
<1>0. TruthOf(s) /\ stream[s] \in StreamState /\ StreamsInv
  BY DEF TruthInv, TypeInv, StreamsInv
<1>1. ASSUME NEW S, Unsteady(S)
      PROVE  /\ stream'[s].pc = stream[s].pc /\ stream'[s].devs = stream[s].devs
             /\ stream'[s].gpus = stream[s].gpus /\ stream'[s].steady = stream[s].steady \ S
  <2>1. stream'[s] = [stream[s] EXCEPT !.steady = stream[s].steady \ S]
    BY <1>0, <1>1, UnsteadyTypes
  <2> QED BY <1>0, <2>1 DEF StreamState
<1>2. ASSUME NEW g \in GPUs, GPUChanges(g) PROVE TruthOf(s)'
  <2>1. Unsteady({g}) /\ known' = known /\ exporter' = exporter
    BY <1>2 DEF GPUChanges
  <2>2. \A h : h # g => /\ h \in listed' <=> h \in listed
                        /\ h \in openable' <=> h \in openable
                        /\ h \in sick' <=> h \in sick
    BY <1>2 DEF GPUChanges, Flip
  <2> QED BY <1>0, <1>1, <2>1, <2>2, TruthStays DEF Sick
<1>3. CASE ExporterChanges
  <2>1. stream'[s].steady = stream[s].steady \ GPUs
    BY <1>1, <1>3 DEF ExporterChanges
  <2>2. stream'[s].steady = {}
    BY <1>0, <2>1 DEF StreamState
  <2> QED BY <2>2 DEF TruthOf
<1>4. ASSUME NEW r \in names, Disconnect(r) PROVE TruthOf(s)'
  BY <1>0, <1>4, SameWorld DEF Disconnect
<1> QED BY <1>2, <1>3, <1>4 DEF Environment

\* The map of plugin r is replaced by S.
LEMMA ReplaceTruth ==
  ASSUME TypeInv, NEW r \in Resources, NEW S, known' = [known EXCEPT ![r] = S], UNCHANGED hw,
         NEW s \in Streams, TruthOf(s), stream'[s] = Replace(r, S)[s]
  PROVE  TruthOf(s)'
<1>1. stream[s] \in StreamState /\ known \in [Resources -> SUBSET GPUs] /\ s[1] \in Resources
  BY DEF TypeInv, StreamsInv, World, Streams
<1>2. CASE s[1] # r
  <2>1. stream'[s] = stream[s] /\ known'[s[1]] = known[s[1]]
    BY <1>1, <1>2 DEF Replace
  <2> QED BY <2>1, TruthStays DEF hw, Sick
<1>3. CASE s[1] = r
  <2>1. stream'[s] = [stream[s] EXCEPT !.steady = {g \in @ : g \in known[r] <=> g \in S}]
    BY <1>3 DEF Replace
  <2>2. /\ stream'[s].pc = stream[s].pc /\ stream'[s].devs = stream[s].devs
        /\ stream'[s].gpus = stream[s].gpus
        /\ stream'[s].steady = {g \in stream[s].steady : g \in known[r] <=> g \in S}
    BY <1>1, <2>1 DEF StreamState
  <2>3. known'[s[1]] = S
    BY <1>1, <1>3
  <2> QED BY <1>3, <2>2, <2>3, TruthStays DEF hw, Sick
<1> QED BY <1>2, <1>3

\* Only stream s moves, to a state that is true; the world stays.
LEMMA MoveTruth ==
  ASSUME TypeInv, TruthInv, NEW s \in Streams, NEW x, Set(s, x), UNCHANGED <<hw, known>>,
         stream'[s] = x => TruthOf(s)'
  PROVE  TruthInv'
<1>1. stream'[s] = x /\ \A t \in Streams \ {s} : stream'[t] = stream[t]
  BY DEF Set, TypeInv, StreamsInv
<1> QED BY <1>1, SameWorld DEF TruthInv

LEMMA ProcessTruth ==
  ASSUME TypeInv, TruthInv, Tick \/ Beat \/ \E r \in names : Connect(r) \/ Publish(r)
  PROVE  TruthInv'
<1>1. CASE Tick
  BY <1>1, SameWorld DEF Tick, TruthInv
<1>2. CASE Beat
  <2>0. PICK s \in Streams : s = Head(waiting)
    BY <1>2, QueueTail DEF Beat, TypeInv, QueueInv
  <2> DEFINE x == [stream[s] EXCEPT !.pc = "snapshot", !.devs = ExporterHealth(@), !.steady = GPUs]
  <2>1. Set(s, x) /\ UNCHANGED <<hw, known>>
    BY <1>2, <2>0 DEF Beat
  <2>2. stream[s] \in StreamState
    BY DEF TypeInv, StreamsInv
  <2>3. x.pc = "snapshot" /\ x.devs = ExporterHealth(stream[s].devs)
    BY <2>2 DEF StreamState
  <2> HIDE DEF x
  <2>4. ASSUME stream'[s] = x PROVE TruthOf(s)'
    BY <2>1, <2>3, <2>4 DEF TruthOf, ExporterHealth, Said, Sick, hw
  <2> QED BY <2>1, <2>4, MoveTruth
<1>3. ASSUME NEW r \in names, Connect(r) PROVE TruthInv'
  <2>0. PICK s \in Streams : s = <<r, conns[r] + 1>>
    BY <1>3, StreamAssumption DEF Connect, TypeInv, World, Connections, Streams
  <2> DEFINE x == [Idle EXCEPT !.pc = "list"]
  <2>1. Set(s, x) /\ UNCHANGED <<hw, known>>
    BY <1>3, <2>0 DEF Connect
  <2>2. x.pc = "list" /\ x.steady = {}
    BY DEF Idle
  <2> HIDE DEF x
  <2>3. ASSUME stream'[s] = x PROVE TruthOf(s)'
    BY <2>2, <2>3 DEF TruthOf
  <2> QED BY <2>1, <2>3, MoveTruth
<1>4. ASSUME NEW r \in names, Publish(r) PROVE TruthInv'
  <2>1. r \in Resources /\ known' = [known EXCEPT ![r] = listed] /\ stream' = Replace(r, listed) /\ UNCHANGED hw
    BY <1>4 DEF Publish, TypeInv, World
  <2> QED BY <2>1, ReplaceTruth DEF TruthInv
<1> QED BY <1>1, <1>2, <1>3, <1>4

LEMMA StreamTruth ==
  ASSUME TypeInv, TruthInv, NEW s \in Streams, Work(s) \/ Done(s)
  PROVE  TruthInv'
<1>0. stream[s] \in StreamState /\ TruthOf(s) /\ s[1] \in Resources /\ stream \in [Streams -> StreamState]
  BY DEF TypeInv, StreamsInv, TruthInv, Streams
<1>1. CASE List(s)
  <2> DEFINE x == [stream[s] EXCEPT !.pc = "send", !.found = listed,
                                    !.devs = [g \in DevicesFor(listed, s[1]) |-> "Healthy"]]
  <2>1. /\ known' = [known EXCEPT ![s[1]] = listed] /\ UNCHANGED hw /\ stream[s].pc = "list"
        /\ stream' = [Replace(s[1], listed) EXCEPT ![s] = x]
    BY <1>1 DEF List, At
  <2>2. x.pc = "send" /\ x.steady = {}
    BY <1>0, <2>1 DEF TruthOf, StreamState
  <2> HIDE DEF x
  <2>3. Replace(s[1], listed) \in [Streams -> StreamState]
    BY ReplaceTypes DEF TypeInv
  <2>4. stream'[s] = x /\ \A t \in Streams \ {s} : stream'[t] = Replace(s[1], listed)[t]
    BY <2>1, <2>3
  <2>5. TruthOf(s)'
    BY <2>2, <2>4 DEF TruthOf
  <2>6. ASSUME NEW t \in Streams \ {s} PROVE TruthOf(t)'
    BY <1>0, <2>1, <2>4, ReplaceTruth DEF TruthInv
  <2> QED BY <2>5, <2>6 DEF TruthInv
<1>2. ASSUME Set(s, Ended), UNCHANGED <<hw, known>> PROVE TruthInv'
  BY <1>2, MoveTruth DEF TruthOf, Ended, Idle
<1>3. CASE Send(s)
  <2> DEFINE x == [stream[s] EXCEPT !.pc = "wait", !.steady = {}]
  <2>1. (Set(s, x) \/ Set(s, Ended)) /\ UNCHANGED <<hw, known>>
    BY <1>3 DEF Send
  <2>2. x.pc = "wait" /\ x.steady = {}
    BY <1>0 DEF StreamState
  <2> HIDE DEF x
  <2>3. CASE Set(s, x)
    <3>1. ASSUME stream'[s] = x PROVE TruthOf(s)'
      BY <2>2, <3>1 DEF TruthOf
    <3> QED BY <2>1, <2>3, <3>1, MoveTruth
  <2> QED BY <1>2, <2>1, <2>3
<1>4. CASE Snapshot(s)
  <2> DEFINE x == [stream[s] EXCEPT !.pc = "mark", !.gpus = known[s[1]]]
  <2>1. Set(s, x) /\ UNCHANGED <<hw, known>> /\ stream[s].pc = "snapshot"
    BY <1>4 DEF Snapshot, At
  <2>2. x.pc = "mark" /\ x.gpus = known[s[1]] /\ x.devs = stream[s].devs /\ x.steady = stream[s].steady
    BY <1>0 DEF StreamState
  <2> HIDE DEF x
  <2>3. ASSUME stream'[s] = x PROVE TruthOf(s)'
    BY <1>0, <2>1, <2>2, <2>3 DEF TruthOf, Said, Sick, hw
  <2> QED BY <2>1, <2>3, MoveTruth
<1>5. CASE Mark(s)
  <2> DEFINE d == [g \in DOMAIN stream[s].devs |-> IF g \in stream[s].gpus \cap listed \cap openable
                                                  THEN stream[s].devs[g] ELSE "Unhealthy"]
             x == [stream[s] EXCEPT !.pc = "send", !.gpus = {}, !.devs = d]
  <2>1. Set(s, x) /\ UNCHANGED <<hw, known>> /\ stream[s].pc = "mark"
    BY <1>5 DEF Mark, At
  <2> HIDE DEF d
  <2>2. x.pc = "send" /\ x.devs = d /\ x.steady = stream[s].steady
    BY <1>0 DEF StreamState
  <2> HIDE DEF x
  <2>3. \A g \in stream[s].steady \cap DOMAIN d : d[g] = Verdict(s[1], g)
    BY <1>0, <2>1 DEF TruthOf, Said, Verdict, d
  <2>4. ASSUME stream'[s] = x PROVE TruthOf(s)'
    BY <2>1, <2>2, <2>3, <2>4 DEF TruthOf, Verdict, Sick, hw
  <2> QED BY <2>1, <2>4, MoveTruth
<1>6. CASE Done(s)
  BY <1>2, <1>6 DEF Done
<1> QED BY <1>1, <1>3, <1>4, <1>5, <1>6 DEF Work

LEMMA TruthInductive == Spec => []TruthInv
<1>1. TypeInv /\ TruthInv /\ [Next]_vars => TruthInv'
  <2>1. TruthInv /\ UNCHANGED vars => TruthInv'
    BY SameWorld DEF vars, TruthInv
  <2> QED BY <2>1, EnvironmentTruth, ProcessTruth, StreamTruth DEF Next
<1> QED BY <1>1, InitTruth, TypesInductive, PTL DEF Spec

-------------------------------------------------------------------------------
(* Nothing is offered twice                                                *)

\* A stream that has listed its devices serves those of its resource.
OfferOf(s) ==
  LET x == stream[s]
  IN  /\ IF x.pc \in {"none", "list", "ended"} THEN x.devs = <<>>
         ELSE DOMAIN x.devs = DevicesFor(x.found, s[1])
      /\ x.pc # "none" => s[1] \in names
OfferInv == names = ResourceNames(GPUs) /\ \A s \in Streams : OfferOf(s)

LEMMA SameDevices == ASSUME UNCHANGED kind, NEW S, NEW r PROVE DevicesFor(S, r)' = DevicesFor(S, r)
<1>1. PartitionTypes(S)' = PartitionTypes(S)
  BY DEF PartitionTypes
<1>2. IsHomogeneous(S)' = IsHomogeneous(S)
  BY <1>1 DEF IsHomogeneous
<1>3. \A g : Group(g)' = Group(g)
  BY DEF Group
<1> QED BY <1>2, <1>3 DEF DevicesFor

\* Which devices a stream serves changes with its list only.
LEMMA OfferStays ==
  ASSUME NEW s, OfferOf(s), UNCHANGED started,
         stream'[s].pc = stream[s].pc \/
           ({stream[s].pc, stream'[s].pc} \cap {"none", "list", "ended"} = {}),
         DOMAIN stream'[s].devs = DOMAIN stream[s].devs, stream[s].devs = <<>> => stream'[s].devs = <<>>,
         stream'[s].found = stream[s].found
  PROVE  OfferOf(s)'
<1>1. kind' = kind /\ names' = names
  BY DEF started
<1>2. PICK f : f = stream[s].found
  OBVIOUS
<1>3. DevicesFor(stream[s].found, s[1])' = DevicesFor(f, s[1])
  BY <1>1, <1>2 DEF DevicesFor, Group, IsHomogeneous, PartitionTypes
<1> QED BY <1>1, <1>2, <1>3 DEF OfferOf

LEMMA OfferMoves ==
  ASSUME NEW s, UNCHANGED started, s[1] \in names, NEW S, stream'[s].found = S,
         stream'[s].pc \notin {"none", "list", "ended"}, DOMAIN stream'[s].devs = DevicesFor(S, s[1])
  PROVE  OfferOf(s)'
<1>1. kind' = kind /\ names' = names
  BY DEF started
<1>2. DevicesFor(S, s[1])' = DevicesFor(S, s[1])
  BY <1>1, SameDevices
<1>3. DOMAIN stream'[s].devs = DevicesFor(stream[s].found, s[1])'
  BY <1>1, <1>2 DEF DevicesFor, Group, IsHomogeneous, PartitionTypes
<1> QED BY <1>1, <1>3 DEF OfferOf

LEMMA OfferSame ==
  ASSUME OfferInv, UNCHANGED started, \A s \in Streams : OfferOf(s)' PROVE OfferInv'
  BY DEF OfferInv, started, ResourceNames, PartitionTypes

LEMMA InitOffer == ASSUME Init PROVE OfferInv
  BY DEF Init, OfferInv, OfferOf, Idle

LEMMA StepsOffer ==
  ASSUME TypeInv, OfferInv, Next PROVE OfferInv'
<1>0. UNCHANGED started
  BY DEF Next, Environment, GPUChanges, ExporterChanges, Disconnect, Tick, Beat, Connect, Publish, Work, List,
         Send, Snapshot, Mark, Done
<1>1. /\ StreamsInv /\ \A s \in Streams : stream[s] \in StreamState /\ OfferOf(s) /\ s[1] \in Resources
  BY DEF TypeInv, StreamsInv, OfferInv, Streams
<1>2. ASSUME UNCHANGED stream PROVE OfferInv'
  BY <1>0, <1>1, <1>2, OfferStays, OfferSame
\* A stream of which only the steady GPUs change.
<1>3. ASSUME NEW s \in Streams, NEW S, stream'[s] = [stream[s] EXCEPT !.steady = S] PROVE OfferOf(s)'
  <2>1. /\ stream'[s].pc = stream[s].pc /\ stream'[s].devs = stream[s].devs
        /\ stream'[s].found = stream[s].found
    BY <1>1, <1>3 DEF StreamState
  <2> QED BY <1>0, <1>1, <2>1, OfferStays
<1>4. ASSUME NEW S, Unsteady(S) PROVE OfferInv'
  BY <1>0, <1>1, <1>3, <1>4, UnsteadyTypes, OfferSame
<1>5. ASSUME NEW r, NEW S, NEW s \in Streams, stream'[s] = Replace(r, S)[s] PROVE OfferOf(s)'
  <2>1. CASE s[1] # r
    <3>1. stream'[s] = stream[s]
      BY <1>5, <2>1 DEF Replace
    <3> QED BY <1>0, <1>1, <3>1, OfferStays
  <2>2. CASE s[1] = r
    BY <1>3, <1>5, <2>2 DEF Replace
  <2> QED BY <2>1, <2>2
<1>6. ASSUME NEW s \in Streams, NEW x, Set(s, x), stream'[s] = x => OfferOf(s)' PROVE OfferInv'
  <2>1. stream'[s] = x /\ \A t \in Streams \ {s} : stream'[t] = stream[t]
    BY <1>6 DEF Set, TypeInv, StreamsInv
  <2>2. \A t \in Streams \ {s} : OfferOf(t)'
    BY <1>0, <1>1, <2>1, OfferStays
  <2> QED BY <1>0, <1>6, <2>1, <2>2, OfferSame
<1>7. CASE Beat
  <2>1. PICK s \in Streams : s = Head(waiting) /\ stream[s].pc = "wait"
    <3>1. Head(waiting) \in Streams /\ Head(waiting) \in Waiters
      BY <1>7, QueueTail DEF Beat, TypeInv, QueueInv
    <3> QED BY <3>1 DEF Waiters, At
  <2> DEFINE x == [stream[s] EXCEPT !.pc = "snapshot", !.devs = ExporterHealth(@), !.steady = GPUs]
  <2>2. Set(s, x)
    BY <1>7, <2>1 DEF Beat
  <2>3. x.pc = "snapshot" /\ DOMAIN x.devs = DOMAIN stream[s].devs /\ x.found = stream[s].found
    BY <1>1 DEF StreamState, ExporterHealth
  <2>4. DOMAIN stream[s].devs = DevicesFor(stream[s].found, s[1]) /\ s[1] \in names
    BY <1>1, <2>1 DEF OfferOf
  <2> HIDE DEF x
  <2>5. ASSUME stream'[s] = x PROVE OfferOf(s)'
    BY <1>0, <2>3, <2>4, <2>5, OfferMoves
  <2> QED BY <1>6, <2>2, <2>5
<1>8. ASSUME NEW r \in names, Connect(r) PROVE OfferInv'
  <2>1. PICK s \in Streams : s = <<r, conns[r] + 1>>
    BY <1>8, StreamAssumption DEF Connect, TypeInv, World, Connections, Streams
  <2> DEFINE x == [Idle EXCEPT !.pc = "list"]
  <2>2. Set(s, x) /\ x.pc = "list" /\ x.devs = <<>>
    BY <1>8, <2>1 DEF Connect, Idle
  <2> HIDE DEF x
  <2>3. ASSUME stream'[s] = x PROVE OfferOf(s)'
    BY <1>0, <2>1, <2>2, <2>3 DEF OfferOf, started
  <2> QED BY <1>6, <2>2, <2>3
<1>9. ASSUME NEW r \in names, Publish(r) PROVE OfferInv'
  BY <1>0, <1>5, <1>9, OfferSame DEF Publish
<1>10. ASSUME NEW s \in Streams, Set(s, Ended), stream[s].pc # "none" PROVE OfferInv'
  <2>1. ASSUME stream'[s] = Ended PROVE OfferOf(s)'
    BY <1>0, <1>1, <1>10, <2>1 DEF OfferOf, Ended, Idle, started
  <2> QED BY <1>6, <1>10, <2>1
<1>11. ASSUME NEW s \in Streams, List(s) PROVE OfferInv'
  <2> DEFINE x == [stream[s] EXCEPT !.pc = "send", !.found = listed,
                                    !.devs = [g \in DevicesFor(listed, s[1]) |-> "Healthy"]]
  <2>1. stream[s].pc = "list" /\ stream' = [Replace(s[1], listed) EXCEPT ![s] = x]
    BY <1>11 DEF List, At
  <2>2. x.pc = "send" /\ DOMAIN x.devs = DevicesFor(x.found, s[1])
    BY <1>1 DEF StreamState
  <2> HIDE DEF x
  <2>3. Replace(s[1], listed) \in [Streams -> StreamState]
    BY <1>1, ReplaceTypes
  <2>4. stream'[s] = x /\ \A t \in Streams \ {s} : stream'[t] = Replace(s[1], listed)[t]
    BY <2>1, <2>3
  <2>5. OfferOf(s)'
    <3>1. s[1] \in names
      BY <1>1, <2>1 DEF OfferOf
    <3> QED BY <1>0, <2>2, <2>4, <3>1, OfferMoves
  <2> QED BY <1>0, <1>5, <2>4, <2>5, OfferSame
<1>12. ASSUME NEW s \in Streams, Send(s) \/ Snapshot(s) PROVE OfferInv'
  <2>1. CASE Set(s, Ended)
    BY <1>10, <1>12, <2>1 DEF Send, Snapshot, At
  <2>2. ASSUME NEW x, Set(s, x), x.pc \in {"wait", "mark"}, x.devs = stream[s].devs, x.found = stream[s].found
        PROVE  OfferInv'
    <3>1. stream[s].pc \in {"send", "snapshot"}
      BY <1>12 DEF Send, Snapshot, At
    <3>2. ASSUME stream'[s] = x PROVE OfferOf(s)'
      BY <1>0, <1>1, <2>2, <3>1, <3>2, OfferStays
    <3> QED BY <1>6, <2>2, <3>2
  <2>3. CASE Set(s, [stream[s] EXCEPT !.pc = "wait", !.steady = {}])
    BY <1>1, <2>2, <2>3 DEF StreamState
  <2>4. CASE Set(s, [stream[s] EXCEPT !.pc = "mark", !.gpus = known[s[1]]])
    BY <1>1, <2>2, <2>4 DEF StreamState
  <2> QED BY <1>12, <2>1, <2>3, <2>4 DEF Send, Snapshot
<1>13. ASSUME NEW s \in Streams, Mark(s) PROVE OfferInv'
  <2> DEFINE d == [g \in DOMAIN stream[s].devs |-> IF g \in stream[s].gpus \cap listed \cap openable
                                                  THEN stream[s].devs[g] ELSE "Unhealthy"]
             x == [stream[s] EXCEPT !.pc = "send", !.gpus = {}, !.devs = d]
  <2>1. Set(s, x) /\ stream[s].pc = "mark"
    BY <1>13 DEF Mark, At
  <2>2. x.pc = "send" /\ DOMAIN x.devs = DOMAIN stream[s].devs /\ x.found = stream[s].found
    BY <1>1 DEF StreamState
  <2>3. DOMAIN stream[s].devs = DevicesFor(stream[s].found, s[1]) /\ s[1] \in names
    BY <1>1, <2>1 DEF OfferOf
  <2> HIDE DEF x
  <2>4. ASSUME stream'[s] = x PROVE OfferOf(s)'
    BY <1>0, <2>2, <2>3, <2>4, OfferMoves
  <2> QED BY <1>6, <2>1, <2>4
<1> QED
  BY <1>2, <1>4, <1>7, <1>8, <1>9, <1>10, <1>11, <1>12, <1>13
     DEF Next, Environment, GPUChanges, ExporterChanges, Disconnect, Tick, Work, Done, At

LEMMA OfferInductive == Spec => []OfferInv
<1>1. OfferInv /\ UNCHANGED vars => OfferInv'
  <2> SUFFICES ASSUME OfferInv, UNCHANGED vars PROVE OfferInv'
    OBVIOUS
  <2>1. \A s \in Streams : OfferOf(s)'
    BY OfferStays DEF OfferInv, vars
  <2> QED BY <2>1, OfferSame DEF vars
<1>2. TypeInv /\ OfferInv /\ [Next]_vars => OfferInv'
  BY <1>1, StepsOffer
<1> QED BY <1>2, InitOffer, TypesInductive, PTL DEF Spec

\* Where every GPU has a partition type, each is served under one resource name.
LEMMA TypesDivideGPUs ==
  ASSUME World, Kinds \subseteq [GPUs -> Types]
  PROVE  /\ \A r, q \in ResourceNames(GPUs) :
               r # q => DevicesFor(GPUs, r) \cap DevicesFor(GPUs, q) = {}
         /\ \A g \in GPUs : \E r \in ResourceNames(GPUs) : g \in DevicesFor(GPUs, r)
<1>1. /\ kind \in [GPUs -> Types] /\ {kind[g] : g \in GPUs} = PartitionTypes(GPUs)
      /\ \A g \in GPUs : Group(g) = kind[g] /\ kind[g] \notin {"gpu", ""}
  <2>1. kind \in [GPUs -> Types]
    BY DEF World
  <2> QED BY <2>1, StreamAssumption DEF PartitionTypes, KindsAssumption, Group
<1>2. IsHomogeneous(GPUs) => \A r : DevicesFor(GPUs, r) = GPUs
  BY <1>1 DEF DevicesFor
<1>3. \A r \in PartitionTypes(GPUs) :
        ~IsHomogeneous(GPUs) => DevicesFor(GPUs, r) = {g \in GPUs : kind[g] = r}
  BY <1>1 DEF DevicesFor
<1>4. ~IsHomogeneous(GPUs) => DevicesFor(GPUs, "gpu") = GPUs
  BY <1>1 DEF DevicesFor
<1>5. ASSUME NEW r \in PartitionTypes(GPUs), NEW q \in PartitionTypes(GPUs), r # q
      PROVE  ~IsHomogeneous(GPUs)
  <2> DEFINE T == PartitionTypes(GPUs)
  <2>1. kind \in Surjection(GPUs, T)
    BY <1>1 DEF Surjection
  <2>2. IsFiniteSet(T) /\ Cardinality(T) \in Nat
    BY <2>1, StreamAssumption, FS_Surjection, FS_CardinalityType
  <2>3. T # {} /\ ~\E x : T = {x}
    BY <1>5
  <2>4. Cardinality(T) # 0 /\ Cardinality(T) # 1
    BY <2>2, <2>3, FS_EmptySet, FS_Singleton
  <2> QED BY <2>2, <2>4 DEF IsHomogeneous
<1>6. ASSUME NEW r \in ResourceNames(GPUs), NEW q \in ResourceNames(GPUs), r # q
      PROVE  DevicesFor(GPUs, r) \cap DevicesFor(GPUs, q) = {}
  <2>1. r \in PartitionTypes(GPUs) /\ q \in PartitionTypes(GPUs)
    BY <1>6 DEF ResourceNames
  <2> QED BY <1>3, <1>5, <1>6, <2>1
<1>7. ASSUME NEW g \in GPUs PROVE \E r \in ResourceNames(GPUs) : g \in DevicesFor(GPUs, r)
  <2>1. kind[g] \in PartitionTypes(GPUs)
    BY <1>1
  <2>2. CASE ResourceNames(GPUs) = {"gpu"}
    BY <1>2, <1>4, <2>2
  <2>3. CASE ResourceNames(GPUs) = PartitionTypes(GPUs)
    BY <1>2, <1>3, <2>1, <2>3
  <2> QED BY <2>1, <2>2, <2>3 DEF ResourceNames
<1> QED BY <1>6, <1>7

-------------------------------------------------------------------------------

\* Every variable keeps its type; the queue of the channel holds just the streams that wait.
THEOREM TypeCorrect == Spec => []TypeOK
  BY TypesInductive, InvHasTypes, PTL

\* After a beat a stream sends, of each GPU that did not change meanwhile, what map, device
\* and exporter say.
THEOREM BeatsTellTruth == Spec => []BeatTellsTruth
<1>1. TruthInv => BeatTellsTruth
  BY DEF TruthInv, TruthOf, BeatTellsTruth, At
<1> QED BY <1>1, TruthInductive, PTL

\* On a node whose GPUs all have a partition type that can change, no GPU is offered under
\* two resource names and none is left out.
THEOREM OffersOnce ==
  ASSUME Kinds \subseteq [GPUs -> Types] PROVE Spec => []OfferedOnce
<1>1. TypeInv /\ OfferInv => OfferedOnce
  <2> SUFFICES ASSUME TypeInv, OfferInv PROVE OfferedOnce
    OBVIOUS
  <2> DEFINE serving == {s \in Streams : IsLive(s) /\ stream[s].devs # <<>> /\ stream[s].found = GPUs}
  <2>1. ASSUME NEW s \in serving
        PROVE  s[1] \in ResourceNames(GPUs) /\ DOMAIN stream[s].devs = DevicesFor(GPUs, s[1])
    BY <2>1 DEF OfferInv, OfferOf
  <2>2. \A s, t \in serving : s[1] = t[1] => s = t
    BY DEF IsLive, Streams
  <2>3. /\ \A r, q \in ResourceNames(GPUs) : r # q => DevicesFor(GPUs, r) \cap DevicesFor(GPUs, q) = {}
        /\ \A g \in GPUs : \E r \in ResourceNames(GPUs) : g \in DevicesFor(GPUs, r)
    BY TypesDivideGPUs DEF TypeInv
  <2>4. \A s, t \in serving : s # t => DOMAIN stream[s].devs \cap DOMAIN stream[t].devs = {}
    BY <2>1, <2>2, <2>3
  <2>5. ASSUME {s[1] : s \in serving} = names PROVE UNION {DOMAIN stream[s].devs : s \in serving} = GPUs
    <3>1. \A s \in serving : DOMAIN stream[s].devs \subseteq GPUs
      BY <2>1, DevicesAreFound
    <3>2. ASSUME NEW g \in GPUs PROVE \E s \in serving : g \in DOMAIN stream[s].devs
      <4>1. PICK r \in names : g \in DevicesFor(GPUs, r)
        BY <2>3 DEF OfferInv
      <4>2. PICK s \in serving : s[1] = r
        BY <2>5, <4>1
      <4> QED BY <2>1, <4>1, <4>2
    <3> QED BY <3>1, <3>2
  <2> QED BY <2>4, <2>5 DEF OfferedOnce
<1> QED BY <1>1, TypesInductive, OfferInductive, PTL

===============================================================================
