----------------------------- MODULE SliceGuards ------------------------------
(***************************************************************************)
(* What limits a slice's VRAM.  Allocate gives a container the LD_AUDIT    *)
(* hook and starts writers of a dmem cap on the pod's cgroup.  With        *)
(* -musl_fail_closed it first mounts the image to see which C library it   *)
(* has, and refuses it when neither of the two would hold; an image that   *)
(* is not there yet is pulled in the background.  Calls of several pods    *)
(* overlap when a handler outlives its kubelet.                            *)
(***************************************************************************)
EXTENDS Integers, FiniteSets, Sequences

CONSTANTS
  Pods, GPUs,
  Plan,       \* containers of each pod with slices: image name, gpus, mem
  ImageOf,    \* the image a name stands for: the reference normalizeRef makes of it
  Contents,   \* what the images may contain, see Loaders
  Capped,     \* GPUs the driver registered a VRAM region for
  Tries,      \* writes SetMaxWithRetry attempts, 9 in the code
  MaxFaults   \* bound on failed calls and crashes

Names  == DOMAIN ImageOf
Images == {ImageOf[n] : n \in Names}
NoCap  == 0
Container == [name : Names, gpus : SUBSET GPUs, mem : Nat \ {NoCap}]
\* An image is built on a distribution ("static": none; "loader": one whose libc.so.6 is not
\* in its place), with a C library of its own added; the program that its container starts is
\* linked with one of the two, or with none.
Built == [base : {"debian", "centos7", "alpine", "static", "loader"},
          extra : {"none", "musl", "vendored"},
          program : {"distribution", "added", "static"}]

ASSUME GuardAssumption ==
  /\ Plan \in [Pods -> Seq(Container)] /\ \A p \in Pods : Plan[p] # <<>>
  /\ Contents \subseteq [Images -> Built]
  /\ IsFiniteSet(GPUs) /\ Capped \subseteq GPUs
  /\ Tries \in Nat \ {0} /\ MaxFaults \in Nat

VARIABLES
  checking, dmemEnabled,  \* -musl_fail_closed; -dmem_backend on a node that has the controller
  content,   \* of each image
  present,   \* images in containerd
  pulling,   \* the inspector's map of pulls in flight
  pulls,     \* ctr processes that pull each image
  pod,       \* "pending", "admitted", "running", "refused", "ended"
  call,      \* the Allocate calls of each pod: position, container, the libc found
  guards,    \* "hook" or "cap" for each container answered
  cgroup,    \* whether the pod's cgroup exists
  cap,       \* its dmem.max, per GPU
  writers,   \* goroutines of applyDmemCap, with how they ended
  faults

settings   == <<checking, dmemEnabled, content>>
containerd == <<present, pulling, pulls>>
node       == <<pod, cgroup>>
vars == <<settings, containerd, node, call, guards, cap, writers, faults>>

Idle     == [pc |-> "idle", c |-> 1, libc |-> "none"]
Ctr(p)   == Plan[p][call[p].c]
Image(p) == ImageOf[Ctr(p).name]
At(p, l) == call[p].pc = l
Go(p, l) == call' = [call EXCEPT ![p].pc = l]
Fault    == faults < MaxFaults /\ faults' = faults + 1

\* Mutant: the call goes on after it failed.
RefuseOn(p) == Go(p, "answer") /\ pod' = [pod EXCEPT ![p] = "refused"]
\* PodAllocationFailed, and an error to kubelet.
Refuse(p) == call' = [call EXCEPT ![p] = Idle] /\ pod' = [pod EXCEPT ![p] = "refused"]

-------------------------------------------------------------------------------
(* The image                                                               *)

\* What lies in an image; "vendored" is a glibc in /opt.
Loaders(i) ==
  LET of(what) == CASE what = "debian"   -> {"glibcStd", "libcStd"}
                    [] what = "centos7"  -> {"glibcStd", "libcStdOld"}
                    [] what = "alpine"   -> {"musl"}
                    [] what = "musl"     -> {"musl"}
                    [] what = "vendored" -> {"glibcOther", "libcOther"}
                    [] what = "loader"   -> {"glibcStd"}
                    [] OTHER             -> {}
  IN  of(content[i].base) \cup of(content[i].extra)

\* A glibc loader in a standard directory, else musl, else a vendored glibc.
FindLibc(L) ==
  IF "glibcStd" \in L THEN "glibc"
  ELSE IF "musl" \in L THEN "musl" ELSE IF "glibcOther" \in L THEN "glibc" ELSE "unknown"

\* Mutant: any new glibc will do.
GlibcVersionAny(L) ==
  CASE {"libcStd", "libcOther"} \cap L # {} -> "new" [] "libcStdOld" \in L -> "old"
    [] OTHER -> "error"
\* Which glibc counts: the standard one, if there is one.
GlibcVersion(L) ==
  CASE "libcStd" \in L -> "new"
    [] "libcStdOld" \in L -> "old"
    [] L \cap {"libcStd", "libcStdOld"} = {} -> IF "libcOther" \in L THEN "new" ELSE "error"

InspectRoot(i) ==
  LET L == Loaders(i)
  IN  IF FindLibc(L) # "glibc" THEN FindLibc(L)
      ELSE CASE GlibcVersion(L) = "new" -> "glibc"
             [] GlibcVersion(L) = "old" -> "oldglibc"
             [] OTHER                   -> "error"

-------------------------------------------------------------------------------
(* Inspect                                                                 *)

\* A container with whole GPUs is neither inspected nor guarded; Plan leaves them out.
Begin(p, c) ==
  call' = [call EXCEPT ![p] =
             [Idle EXCEPT !.c = c, !.pc = IF checking THEN "inspect" ELSE "decide"]]

\* kubelet admits a pod, container by container.
Admit(p) ==
  /\ pod[p] = "pending" /\ At(p, "idle") /\ Begin(p, 1)
  /\ UNCHANGED <<settings, containerd, node, guards, cap, writers, faults>>

\* The image is mounted and its files are looked at; one that is not found is pulled.
Inspect(p) ==
  /\ At(p, "inspect")
  /\ IF Image(p) \notin present THEN Go(p, "pull") /\ UNCHANGED pod
     ELSE IF InspectRoot(Image(p)) = "error" THEN Refuse(p)
     ELSE /\ call' = [call EXCEPT ![p].pc = "decide", ![p].libc = InspectRoot(Image(p))]
          /\ UNCHANGED pod
  /\ UNCHANGED <<settings, containerd, cgroup, guards, cap, writers, faults>>

\* Or the region of a GPU is not found in Decide.
InspectFails(p) ==
  /\ At(p, "inspect") /\ Fault /\ Refuse(p)
  /\ UNCHANGED <<settings, containerd, cgroup, guards, cap, writers>>

\* Mutant: the pull is not entered in the map.
PullAgain(p) ==
  /\ At(p, "pull") /\ Refuse(p) /\ pulls' = [pulls EXCEPT ![Image(p)] = @ + 1]
  /\ UNCHANGED <<settings, present, pulling, cgroup, guards, cap, writers, faults>>
\* Mutant: one pull at a time, whatever the image.
PullOne(p) ==
  /\ At(p, "pull") /\ Refuse(p)
  /\ IF pulling # {} THEN UNCHANGED <<pulling, pulls>>
     ELSE /\ pulling' = {Image(p)} /\ pulls' = [pulls EXCEPT ![Image(p)] = @ + 1]
  /\ UNCHANGED <<settings, present, cgroup, guards, cap, writers, faults>>
\* pullInBackground: one per image; the call does not wait for it.
PullInBackground(p) ==
  /\ At(p, "pull") /\ Refuse(p)
  /\ IF Image(p) \in pulling THEN UNCHANGED <<pulling, pulls>>
     ELSE /\ pulling' = pulling \cup {Image(p)}
          /\ pulls' = [pulls EXCEPT ![Image(p)] = @ + 1]
  /\ UNCHANGED <<settings, present, cgroup, guards, cap, writers, faults>>

PullEnds(i) ==
  /\ pulls[i] > 0 /\ pulls' = [pulls EXCEPT ![i] = @ - 1]
  /\ \/ present' = present \cup {i} /\ UNCHANGED faults
     \/ Fault /\ UNCHANGED present
  /\ UNCHANGED <<settings, pulling, node, call, guards, cap, writers>>

\* Mutant: only a pull that succeeds leaves the map.
ForgetPulled(i) ==
  /\ i \in pulling /\ pulls[i] = 0 /\ i \in present /\ pulling' = pulling \ {i}
  /\ UNCHANGED <<settings, present, pulls, node, call, guards, cap, writers, faults>>
\* Its goroutine ends after it.
ForgetPull(i) ==
  /\ i \in pulling /\ pulls[i] = 0 /\ pulling' = pulling \ {i}
  /\ UNCHANGED <<settings, present, pulls, node, call, guards, cap, writers, faults>>

-------------------------------------------------------------------------------
(* Allocate                                                                *)

Compatible(p) == ~checking \/ call[p].libc = "glibc"

\* Every device of the container can be capped.
CapHolds(p) == dmemEnabled /\ Ctr(p).gpus \subseteq Capped

Guard(p) == IF Compatible(p) THEN "hook" ELSE "cap"

Writer(p, g) ==
  [pod |-> p, c |-> call[p].c, gpu |-> g, mem |-> Ctr(p).mem, tries |-> 0, end |-> "none"]

\* A slice is refused, or gets its guards and one writer per device.
Decide(p) ==
  /\ At(p, "decide")
  /\ IF Guard(p) = "cap" /\ ~CapHolds(p) THEN Refuse(p) /\ UNCHANGED <<guards, writers>>
     ELSE /\ guards' = [guards EXCEPT ![p] = Append(@, Guard(p))]
          /\ writers' = writers \cup {Writer(p, g) : g \in {h \in Ctr(p).gpus : dmemEnabled}}
          /\ Go(p, "answer") /\ UNCHANGED pod
  /\ UNCHANGED <<settings, containerd, cgroup, cap, faults>>

\* The rest of Allocate; kubelet calls for the next container, or admits the pod.
Answer(p) ==
  /\ At(p, "answer")
  /\ IF call[p].c < Len(Plan[p])
     THEN Begin(p, call[p].c + 1) /\ UNCHANGED pod
     ELSE call' = [call EXCEPT ![p] = Idle] /\ pod' = [pod EXCEPT ![p] = "admitted"]
  /\ UNCHANGED <<settings, containerd, cgroup, guards, cap, writers, faults>>

AnswerFails(p) ==
  /\ At(p, "answer") /\ Fault /\ Refuse(p)
  /\ UNCHANGED <<settings, containerd, cgroup, guards, cap, writers>>

-------------------------------------------------------------------------------
(* applyDmemCap                                                            *)

End(w, e) == writers' = (writers \ {w}) \cup {[w EXCEPT !.end = e]}

\* Without a region there is nothing to write.
NoRegion(w) ==
  /\ w.end = "none" /\ w.gpu \notin Capped /\ End(w, "noregion")
  /\ UNCHANGED <<settings, containerd, node, call, guards, cap, faults>>

\* Mutant: the write goes to the file whatever region is meant.
WriteAll(w) ==
  /\ w.end = "none" /\ w.gpu \in Capped /\ cgroup[w.pod]
  /\ cap' = [cap EXCEPT ![w.pod] = [g \in GPUs |-> w.mem]] /\ End(w, "written")
  /\ UNCHANGED <<settings, containerd, node, call, guards, faults>>
\* SetMax writes the pod's file; the last of its containers wins.
Write(w) ==
  /\ w.end = "none" /\ w.gpu \in Capped /\ cgroup[w.pod]
  /\ cap' = [cap EXCEPT ![w.pod][w.gpu] = w.mem] /\ End(w, "written")
  /\ UNCHANGED <<settings, containerd, node, call, guards, faults>>

\* Another error than a missing file is not retried, and neither is the lookup of the GPU's
\* region when the GPU is not published at that moment.
WriteFails(w) ==
  /\ w.end = "none" /\ w.gpu \in Capped /\ Fault /\ End(w, "failed")
  /\ UNCHANGED <<settings, containerd, node, call, guards, cap>>

\* SetMaxWithRetry while the cgroup does not exist, at most Tries times.
Retry(w) ==
  /\ w.end = "none" /\ w.gpu \in Capped /\ ~cgroup[w.pod]
  /\ IF w.tries = Tries - 1 THEN End(w, "gaveup")
     ELSE writers' = (writers \ {w}) \cup {[w EXCEPT !.tries = @ + 1]}
  /\ UNCHANGED <<settings, containerd, node, call, guards, cap, faults>>

-------------------------------------------------------------------------------
(* kubelet, and the process                                                *)

\* The cgroup of an admitted pod appears some time later; the image is pulled, and the
\* containers start.
CreateCgroup(p) ==
  /\ pod[p] = "admitted" /\ ~cgroup[p] /\ cgroup' = [cgroup EXCEPT ![p] = TRUE]
  /\ UNCHANGED <<settings, containerd, pod, call, guards, cap, writers, faults>>
Run(p) ==
  /\ pod[p] = "admitted" /\ cgroup[p] /\ pod' = [pod EXCEPT ![p] = "running"]
  /\ present' = present \cup {ImageOf[Plan[p][c].name] : c \in DOMAIN Plan[p]}
  /\ UNCHANGED <<settings, pulling, pulls, cgroup, call, guards, cap, writers, faults>>
Finish(p) ==
  /\ pod[p] = "running" /\ pod' = [pod EXCEPT ![p] = "ended"]
  /\ cgroup' = [cgroup EXCEPT ![p] = FALSE] /\ cap' = [cap EXCEPT ![p] = [g \in GPUs |-> NoCap]]
  /\ UNCHANGED <<settings, containerd, call, guards, writers, faults>>

\* Its calls, pulls and writers end with the process.
Crash ==
  /\ Fault /\ pulling' = {} /\ pulls' = [i \in Images |-> 0]
  /\ call' = [p \in Pods |-> Idle]
  /\ pod' = [p \in Pods |-> IF At(p, "idle") THEN pod[p] ELSE "refused"]
  /\ writers' = {[w EXCEPT !.end = IF @ = "none" THEN "killed" ELSE @] : w \in writers}
  /\ UNCHANGED <<settings, present, cgroup, guards, cap>>

Init ==
  /\ checking \in BOOLEAN /\ dmemEnabled \in BOOLEAN /\ content \in Contents
  /\ present \in SUBSET Images /\ pulling = {} /\ pulls = [i \in Images |-> 0]
  /\ pod = [p \in Pods |-> "pending"] /\ call = [p \in Pods |-> Idle]
  /\ guards = [p \in Pods |-> <<>>] /\ cgroup = [p \in Pods |-> FALSE]
  /\ cap = [p \in Pods |-> [g \in GPUs |-> NoCap]] /\ writers = {} /\ faults = 0

Handle(p)     == Inspect(p) \/ PullInBackground(p) \/ Decide(p) \/ Answer(p)
Background(w) == NoRegion(w) \/ Write(w) \/ Retry(w)
Kubelet(p)    == Admit(p) \/ CreateCgroup(p) \/ Run(p)

Next ==
  \/ \E p \in Pods : Handle(p) \/ Kubelet(p) \/ InspectFails(p) \/ AnswerFails(p) \/ Finish(p)
  \/ \E i \in Images : PullEnds(i) \/ ForgetPull(i)
  \/ \E w \in writers : Background(w) \/ WriteFails(w)
  \/ Crash

\* The process's goroutines run, and a pull takes at most pullTimeout.
Fairness ==
  /\ \A p \in Pods : WF_vars(Handle(p))
  /\ \A i \in Images : WF_vars(PullEnds(i)) /\ WF_vars(ForgetPull(i))
  /\ WF_vars(\E w \in writers : Background(w))

Spec     == Init /\ [][Next]_vars
FairSpec == Spec /\ Fairness

-------------------------------------------------------------------------------
(* Properties                                                              *)

\* Where the hook is loaded: the glibc the container's program is linked with is new enough.
\* A program of "loader" finds the added libc.so.6.
Loads(i) ==
  \/ /\ content[i].program = "distribution"
     /\ \/ content[i].base = "debian"
        \/ content[i].base = "loader" /\ content[i].extra = "vendored"
  \/ content[i].program = "added" /\ content[i].extra = "vendored"

\* The program is linked with the distribution's C library, or the added one if it has none.
Ordinary(i) ==
  content[i].program = IF content[i].base = "static" THEN "added" ELSE "distribution"

WritersOf(p, c) == {w \in writers : w.pod = p /\ w.c = c}

\* Why a writer has not written: it still tries, its attempts ran out before there was a
\* cgroup, or a call failed or the process ended.
Excused(w) ==
  \/ w.end = "none"
  \/ w.end = "gaveup" /\ w.tries = Tries - 1
  \/ w.end \in {"failed", "killed"} /\ faults > 0

\* With -musl_fail_closed a slice that runs has a limit, or it has lost it for one of these
\* reasons and no other: its program is not Ordinary, so that the inspection judged another C
\* library than the one it is linked with; or the cap is its only guard, and the writer of its
\* limit on that GPU is Excused.  So no GPU that cannot be capped and no container without
\* writers gets past Decide, and what was written stays while the pod runs.
LimitLostForACause ==
  checking => \A p \in Pods : pod[p] = "running" => \A c \in DOMAIN Plan[p] :
    LET i == ImageOf[Plan[p][c].name]
    IN  IF guards[p][c] = "hook" THEN Ordinary(i) => Loads(i)
        ELSE \A g \in Plan[p][c].gpus :
               cap[p][g] # NoCap \/ \E w \in WritersOf(p, c) : w.gpu = g /\ Excused(w)

\* "otherwise the limit is still a hard kernel-enforced cap": once its pod's writers have
\* ended, a slice that runs with the cap as its only guard is capped on each of its GPUs, at its
\* limit or below.
StillHardCap ==
  checking => \A p \in Pods : pod[p] = "running" => \A c \in DOMAIN Plan[p] :
    guards[p][c] = "cap" /\ (\A w \in writers : w.pod = p => w.end # "none") =>
      \A g \in Plan[p][c].gpus : cap[p][g] \in NoCap + 1 .. Plan[p][c].mem

\* A pod's cap is the limit of one of its containers on that GPU, of one whose writer has
\* ended; before, and on the GPUs it has no slice of, the kernel caps nothing.
CapsAreTheirPods ==
  \A p \in Pods, g \in GPUs :
    LET written == {w \in writers : w.pod = p /\ w.gpu = g /\ w.end = "written"}
    IN  cgroup[p] => IF written = {} THEN cap[p][g] = NoCap
                     ELSE cap[p][g] \in {w.mem : w \in written}

\* Concurrent inspections start one pull of an image, under all names that normalizeRef makes
\* one reference of.
OnePull == \A i \in Images : pulls[i] <= 1

\* An image that a pod was refused for is there some time later, for the pod's retry,
\* unless a pull failed or was cut off.
MissingIsPulled ==
  \A p \in Pods, i \in Images :
    (At(p, "pull") /\ Image(p) = i) ~> (i \in present \/ faults > 0)

\* Pulls and writers end: an image whose pull failed can be pulled again, and a cgroup
\* that never appears is not waited for forever.
BackgroundEnds == []<>(pulling = {} /\ \A w \in writers : w.end # "none")

Pcs  == {"idle", "inspect", "pull", "decide", "answer"}
Libc == {"none", "glibc", "oldglibc", "musl", "unknown"}
Ends == {"none", "noregion", "written", "failed", "gaveup", "killed"}

\* Every variable keeps its type, only the pods whose call is open are in a call, and only
\* admitted pods have a cgroup.
TypeOK ==
  /\ checking \in BOOLEAN /\ dmemEnabled \in BOOLEAN /\ content \in Contents
  /\ present \subseteq Images /\ pulling \subseteq Images /\ pulls \in [Images -> Nat]
  /\ pod \in [Pods -> {"pending", "admitted", "running", "refused", "ended"}]
  /\ call \in [Pods -> [pc : Pcs, c : Nat \ {0}, libc : Libc]]
  /\ \A p \in Pods : /\ call[p].c <= Len(Plan[p])
                     /\ ~At(p, "idle") => pod[p] = "pending"
                     /\ cgroup[p] => pod[p] \in {"admitted", "running"}
  /\ guards \in [Pods -> Seq({"hook", "cap"})] /\ cgroup \in [Pods -> BOOLEAN]
  /\ cap \in [Pods -> [GPUs -> Nat]] /\ faults \in 0 .. MaxFaults
  /\ writers \subseteq [pod : Pods, c : Nat \ {0}, gpu : GPUs, mem : Nat \ {NoCap},
                        tries : 0 .. Tries - 1, end : Ends]

===============================================================================
