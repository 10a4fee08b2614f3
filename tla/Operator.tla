------------------------------- MODULE Operator -------------------------------
(***************************************************************************)
(* The Kubernetes operator (operator/): a Hub and a Peer object of one     *)
(* name, which share the name of their Deployment, and the two reconcilers *)
(* that turn them into workloads.  Objects of different names do not meet. *)
(* controller-runtime and the cluster are modelled from how the operator   *)
(* uses them: custom objects are read from the API server, workloads from  *)
(* a cache that lags behind it, a write based on an old version is refused *)
(* and a reconciliation that returns an error is run again.                *)
(***************************************************************************)
EXTENDS Integers, FiniteSets

CONSTANTS Specs,       \* the specs of each kind, records as in Spec below
          Images,      \* what -netso-image may be set to,
          FirstImage,  \* and is set to first
          MaxChanges,  \* bound on what users, pods and failures change
          Nil

Kinds == {"Hub", "Peer"}
Workloads == {"deployment", "service"}
ASSUME SpecsAssumption ==
  \A k \in Kinds : \A s \in Specs[k] : DOMAIN s = {"image", "replicas", "hubRef", "secret"}
ASSUME ImagesAssumption == FirstImage \in Images
ASSUME BoundAssumption == MaxChanges \in Nat

VARIABLES cr,       \* the custom object of each kind, and its status.ready
          obj,      \* the workloads in the cluster
          seen,     \* the workloads in the operator's cache
          unseen,   \* per workload: the owners of versions that are not there yet
          queue,    \* the reconcilers that have been asked for
          worker,   \* the one reconciliation of each kind under way
          image,    \* the operator's -netso-image
          changes,  \* changes so far
          asked     \* ghost: the objects and specs that users have applied

vars == <<cr, obj, seen, unseen, queue, worker, image, changes, asked>>

Idle == [pc |-> "idle"]

Init ==
  /\ cr = [k \in Kinds |-> Nil]
  /\ obj = [o \in Workloads |-> Nil] /\ seen = obj
  /\ unseen = [o \in Workloads |-> {}]
  /\ queue = {} /\ worker = [k \in Kinds |-> Idle]
  /\ image = FirstImage
  /\ changes = 0
  /\ asked = {}

------------------------------------------------------------------------------
(* The cluster: users, the Deployment's pods, garbage collection, caches.  *)

Change == changes < MaxChanges /\ changes' = changes + 1

\* A reconciliation under way holds a version of its object that is now old.
Outdate(k) ==
  worker' = [worker EXCEPT ![k] = IF @ = Idle THEN @ ELSE [@ EXCEPT !.fresh = FALSE]]

Apply(k, s) ==
  /\ Change
  /\ cr[k] # Nil => cr[k].spec # s
  /\ cr' = [cr EXCEPT ![k] = IF @ = Nil THEN [uid |-> changes', spec |-> s, ready |-> FALSE]
                                        ELSE [@ EXCEPT !.spec = s]]
  /\ asked' = asked \cup {<<k, cr'[k].uid, s>>}
  /\ queue' = queue \cup {k}
  /\ Outdate(k)
  /\ UNCHANGED <<obj, seen, unseen, image>>

Delete(k) ==
  /\ Change
  /\ cr[k] # Nil /\ cr' = [cr EXCEPT ![k] = Nil]
  /\ queue' = queue \cup {k}
  /\ Outdate(k)
  /\ UNCHANGED <<obj, seen, unseen, image, asked>>

\* A workload becomes x; the cache has not seen it yet.
Becomes(o, x, owner) ==
  /\ obj' = [obj EXCEPT ![o] = x]
  /\ unseen' = [unseen EXCEPT ![o] = IF x = obj[o] THEN @ ELSE @ \cup {owner}]

ReadyFlips ==
  LET d == obj["deployment"]
  IN  /\ Change
      /\ d # Nil /\ (d.ready \/ d.runs.replicas > 0)
      /\ Becomes("deployment", [d EXCEPT !.ready = ~@], d.owner)
      /\ UNCHANGED <<cr, seen, queue, worker, image, asked>>

\* Somebody removes a workload by hand; one whose owner is gone is collected.
Remove(o) ==
  /\ Change
  /\ obj[o] # Nil /\ Becomes(o, Nil, obj[o].owner)
  /\ UNCHANGED <<cr, seen, queue, worker, image, asked>>

Orphan(w) == w # Nil /\ ~(cr[w.owner] # Nil /\ cr[w.owner].uid = w.uid)
Collect(o) ==
  /\ Orphan(obj[o]) /\ Becomes(o, Nil, obj[o].owner)
  /\ UNCHANGED <<cr, seen, queue, worker, image, changes, asked>>

\* Owns: the owners of what the cache learns about are asked for.
Sees(o) ==
  /\ unseen[o] # {}
  /\ seen' = [seen EXCEPT ![o] = obj[o]]
  /\ unseen' = [unseen EXCEPT ![o] = {}]
  /\ queue' = queue \cup unseen[o]
  /\ UNCHANGED <<cr, obj, worker, image, changes, asked>>

------------------------------------------------------------------------------
(* The reconcilers.                                                        *)

\* An object that is gone is none of its business, nor is a Peer without hub.
Begin(k) ==
  /\ k \in queue /\ worker[k] = Idle
  /\ queue' = queue \ {k}
  /\ worker' = IF cr[k] = Nil \/ (k = "Peer" /\ cr[k].spec.hubRef = "") THEN worker
               ELSE [worker EXCEPT ![k] = [pc |-> "deployment", cr |-> cr[k], fresh |-> TRUE,
                                           ready |-> FALSE]]
  /\ UNCHANGED <<cr, obj, seen, unseen, image, changes, asked>>

\* An error: the request is queued again.
\* Mutant: the error is logged.
GiveUpSilently(k) == worker' = [worker EXCEPT ![k] = Idle] /\ UNCHANGED queue
GiveUp(k) ==
  /\ worker' = [worker EXCEPT ![k] = Idle]
  /\ queue' = queue \cup {k}

\* CreateOrUpdate goes by the cache: it creates what is not there, leaves
\* alone what another object controls (SetControllerReference) and updates
\* the rest; the server refuses to create what is there by now, and to update
\* what has changed.  Mutant: it does not look who controls what is there.
RefusedIfStale(k, o) == IF seen[o] = Nil THEN obj[o] # Nil ELSE unseen[o] # {}
Refused(k, o) ==
  IF seen[o] = Nil THEN obj[o] # Nil ELSE seen[o].owner # k \/ unseen[o] # {}

\* The Deployment's spec; a Peer has one replica, a Hub one unless it says.
Runs(k, s, default) ==
  [kind |-> k,
   image |-> IF s.image = "" THEN default ELSE s.image,
   replicas |-> IF k = "Peer" \/ s.replicas = Nil THEN 1 ELSE s.replicas,
   hubRef |-> s.hubRef, secret |-> s.secret]

\* The volume is set with a secret, and else left as it is.
\* Mutant: a volume that is there is left as it is.
VolumeKept(s, old) == IF old # Nil /\ old.volume # "" THEN old.volume ELSE s.secret
Volume(s, old) == IF s.secret # "" THEN s.secret ELSE IF old = Nil THEN "" ELSE old.volume

SyncDeployment(k) ==
  /\ worker[k].pc = "deployment"
  /\ LET w == worker[k]
         old == obj["deployment"]
         new == [owner |-> k, uid |-> w.cr.uid, runs |-> Runs(k, w.cr.spec, image),
                 volume |-> Volume(w.cr.spec, old), ready |-> old # Nil /\ old.ready]
     IN  IF Refused(k, "deployment") THEN GiveUp(k) /\ UNCHANGED <<obj, unseen>>
         ELSE /\ Becomes("deployment", new, k)
              /\ worker' = [worker EXCEPT ![k].pc = IF k = "Hub" THEN "service" ELSE "status",
                                          ![k].ready = new.ready]
              /\ UNCHANGED queue
  /\ UNCHANGED <<cr, seen, image, changes, asked>>

SyncService ==
  /\ worker["Hub"].pc = "service"
  /\ IF Refused("Hub", "service") THEN GiveUp("Hub") /\ UNCHANGED <<obj, unseen>>
     ELSE /\ Becomes("service", [owner |-> "Hub", uid |-> worker["Hub"].cr.uid], "Hub")
          /\ worker' = [worker EXCEPT !["Hub"].pc = "status"]
          /\ UNCHANGED queue
  /\ UNCHANGED <<cr, seen, image, changes, asked>>

\* A changed status is a change of the object.
UpdateStatus(k) ==
  /\ worker[k].pc = "status"
  /\ \/ /\ ~worker[k].fresh /\ GiveUp(k) /\ UNCHANGED cr
     \/ /\ worker[k].fresh /\ worker' = [worker EXCEPT ![k] = Idle]
        /\ cr' = [cr EXCEPT ![k].ready = worker[k].ready]
        /\ queue' = IF cr' = cr THEN queue ELSE queue \cup {k}
  /\ UNCHANGED <<obj, seen, unseen, image, changes, asked>>

\* A call to the server fails, before or after it took effect.
CallFails(k) ==
  /\ Change
  /\ worker[k] # Idle /\ GiveUp(k)
  /\ UNCHANGED <<cr, obj, seen, unseen, image, asked>>

\* The operator ends and starts again: it lists everything there is.
\* Mutant: it starts before its cache is filled.
RestartUnsynced ==
  /\ Change
  /\ image' \in Images
  /\ unseen' = [o \in Workloads |-> {}]
  /\ queue' = {k \in Kinds : cr[k] # Nil}
  /\ worker' = [k \in Kinds |-> Idle]
  /\ UNCHANGED <<cr, obj, seen, asked>>
Restart ==
  /\ Change
  /\ image' \in Images
  /\ seen' = obj /\ unseen' = [o \in Workloads |-> {}]
  /\ queue' = {k \in Kinds : cr[k] # Nil}
  /\ worker' = [k \in Kinds |-> Idle]
  /\ UNCHANGED <<cr, obj, asked>>

Reconcile(k) ==
  \/ Begin(k) \/ SyncDeployment(k) \/ UpdateStatus(k)
  \/ k = "Hub" /\ SyncService

Next ==
  \/ ReadyFlips \/ Restart
  \/ \E k \in Kinds : \/ \E s \in Specs[k] : Apply(k, s)
                      \/ Delete(k) \/ Reconcile(k) \/ CallFails(k)
  \/ \E o \in Workloads : Remove(o) \/ Collect(o) \/ Sees(o)

\* The queue gives every request out, the cache catches up, orphans are
\* collected.  Nobody need change anything.
Fairness ==
  /\ \A k \in Kinds : WF_vars(Reconcile(k))
  /\ \A o \in Workloads : WF_vars(Sees(o)) /\ WF_vars(Collect(o))

Spec == Init /\ [][Next]_vars
FairSpec == Spec /\ Fairness

------------------------------------------------------------------------------
AllSpecs == UNION {Specs[k] : k \in Kinds}
Object == [uid : 1 .. MaxChanges, spec : AllSpecs, ready : BOOLEAN]
Busy ==
  [pc : {"deployment", "service", "status"}, cr : Object, fresh : BOOLEAN, ready : BOOLEAN]
Running == {Runs(k, s, i) : k \in Kinds, s \in AllSpecs, i \in Images}
Volumes == {""} \cup {s.secret : s \in AllSpecs}
Deployment ==
  [owner : Kinds, uid : 1 .. MaxChanges, runs : Running, volume : Volumes, ready : BOOLEAN]
Service == [owner : {"Hub"}, uid : 1 .. MaxChanges]
Fits(w) ==
  /\ w \in [Workloads -> Deployment \cup Service \cup {Nil}]
  /\ w["deployment"] \in Deployment \cup {Nil}

\* What a worker holds for the current version of its object is just that; what
\* the cache holds when nothing is on its way is what there is.
Current == \A k \in Kinds : worker[k] # Idle /\ worker[k].fresh => cr[k] = worker[k].cr
CaughtUp == \A o \in Workloads : unseen[o] = {} => seen[o] = obj[o]

\* Types, and what the flags stand for.
TypeOK ==
  /\ cr \in [Kinds -> Object \cup {Nil}]
  /\ Fits(obj) /\ Fits(seen)
  /\ unseen \in [Workloads -> SUBSET Kinds]
  /\ queue \in SUBSET Kinds
  /\ worker \in [Kinds -> Busy \cup {Idle}]
  /\ image \in Images
  /\ changes \in 0 .. MaxChanges
  /\ Current /\ CaughtUp

\* A Deployment that a Hub or a Peer controls runs what users asked of that
\* very object, never what the other object of the name says, through any
\* interleaving of edits, deletions, re-creations and stale reads; and the
\* agent admits the clients of the Secret its spec names, not of an older one.
RunsWhatWasAsked ==
  LET d == obj["deployment"]
  IN  d # Nil =>
        /\ \E s \in AllSpecs, i \in Images :
             <<d.owner, d.uid, s>> \in asked /\ d.runs = Runs(d.owner, s, i)
        /\ d.runs.secret # "" => d.volume = d.runs.secret

\* Nobody's Deployment is taken over: as long as it is there, what a Hub made is
\* a Hub's and what a Peer made a Peer's, however stale the cache from which the
\* other one's reconciler takes it to be free.
KeepsOwner ==
  obj["deployment"] # Nil /\ obj'["deployment"] # Nil =>
    obj'["deployment"].owner = obj["deployment"].owner
OwnerStays == [][KeepsOwner]_vars

\* Once changes stop, the cluster comes to what the objects say, and stays
\* there: whatever is not controlled by an object of today is gone; an object
\* has its workloads, unless the other one of its name has the Deployment, and
\* its status tells whether they are ready.  (A Peer whose hubRef is emptied
\* keeps the agent it had.  A volume no container mounts may be left over.)
Settled(k) ==
  LET d == obj["deployment"]
  IN  /\ d # Nil
      /\ d.owner = k =>
           /\ d.runs = Runs(k, cr[k].spec, image)
           /\ cr[k].ready = d.ready
           /\ k = "Hub" => obj["service"] # Nil
Converged ==
  /\ \A o \in Workloads : ~Orphan(obj[o])
  /\ \A k \in Kinds : cr[k] # Nil /\ (k = "Peer" => cr[k].spec.hubRef # "") => Settled(k)
Converges == <>[]Converged
==============================================================================
