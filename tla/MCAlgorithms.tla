----------------------------- MODULE MCAlgorithms ------------------------------
(* The parts that answer one question, in one run: a behaviour is one of       *)
(* CuAnnotation, one of PreferredAllocation or one of DeviceLookup.             *)
EXTENDS CuAnnotation, PreferredAllocation, DeviceLookup

\* All pairs of nodes of a topology, with the link between the GPUs and inside one.
Topology(slots, gpu, numa, Link(_, _)) ==
  [slots |-> slots, gpu |-> gpu, numa |-> numa,
   link |-> [p \in {{a, b} : a, b \in DOMAIN slots} |->
               LET a == CHOOSE x \in p : \A y \in p : x <= y
                   b == CHOOSE x \in p : \A y \in p : x >= y
               IN  Link(a, b)]]

Xgmi(a, b)    == "xgmi"
HalfXgmi(a, b) == IF b - a = 1 THEN "xgmi" ELSE IF a = 1 THEN "pcie" ELSE "none"

\* One GPU in three splits; three GPUs in two splits each, one of them on another NUMA
\* node; a GPU in two partitions and one in three; four whole GPUs.
MCTopologies ==
  {Topology(<<3>>, <<1>>, <<1>>, Xgmi),
   Topology(<<2, 2, 2>>, <<1, 2, 3>>, <<1, 2, 1>>, HalfXgmi),
   Topology(<<1, 1, 1, 1, 1>>, <<1, 1, 2, 2, 2>>, <<1, 1, 2, 2, 2>>, Xgmi),
   Topology(<<1, 1, 1, 1>>, <<1, 2, 3, 4>>, <<1, 1, 2, 2>>, HalfXgmi)}

\* No call of GetPreferredAllocation: it is answered.
NoCall ==
  /\ topo = Topology(<<1>>, <<1>>, <<1>>, Xgmi) /\ spread = FALSE
  /\ available = {<<1, 1>>} /\ required = {} /\ size = 1
  /\ groups = <<>> /\ todo = <<>> /\ built = <<>> /\ candidate = NoGPU
  /\ idx = 0 /\ reply = available /\ doing = "replied"

\* No bitmap: an empty one was read back.
NoBitmap ==
  /\ total = 1 /\ n = 1 /\ unit = 1 /\ used = {} /\ other = {}
  /\ alloc = Bitmap({}, 1) /\ delta = alloc /\ into = alloc
  /\ start = 0 /\ count = 0 /\ pc = "none"
  /\ bits = {} /\ rest = {} /\ first = 0 /\ prev = 0 /\ parts = <<<<0, 0>>>>
  /\ readTotal = 1 /\ readAlloc = {0} /\ read = 1 /\ stage = "done"

\* No GPUs to find.
NoLookup ==
  /\ Kind = <<>> /\ opMode = "cu" /\ there = {} /\ divided = {} /\ unnamed = {} /\ moves = MaxMoves
  /\ AMDGPUs = {} /\ registered = {} /\ scanned = {} /\ listed = {}
  /\ request = NoRequest /\ found = NotFound /\ lost = FALSE

\* A GPU that can be divided next to one that cannot change.
MCKinds == {<<"capable", "fixed">>}

MCInit ==
  \/ AnnotationInit /\ NoCall /\ NoLookup
  \/ PreferInit /\ NoBitmap /\ NoLookup
  \/ LookupInit /\ NoBitmap /\ NoCall

MCNext ==
  \/ AnnotationNext /\ UNCHANGED <<preferVars, lookupVars>>
  \/ PreferNext /\ UNCHANGED <<vars, listVars, lookupVars>>
  \/ Kind # <<>> /\ LookupNext /\ UNCHANGED <<vars, listVars, preferVars>>

allVars == <<vars, listVars, preferVars, lookupVars>>
MCSpec  == MCInit /\ [][MCNext]_allVars /\ WF_allVars(AnnotationNext /\ UNCHANGED <<preferVars, lookupVars>>)

===============================================================================
