---------------------------- MODULE OperatorProofs ----------------------------
(***************************************************************************)
(* The operator's safety, for any specs, images and number of changes: a   *)
(* Deployment runs what was asked of the object that controls it.  Beside  *)
(* the types, the invariant says that objects and the copies of them that  *)
(* reconciliations work from, however old, are what users applied.         *)
(***************************************************************************)
EXTENDS Operator, TLAPS

Asked ==
  \A k \in Kinds :
    /\ cr[k] # Nil => <<k, cr[k].uid, cr[k].spec>> \in asked
    /\ worker[k] # Idle => <<k, worker[k].cr.uid, worker[k].cr.spec>> \in asked

IInv == TypeOK /\ Asked /\ RunsWhatWasAsked

\* A step that leaves a variable alone leaves alone what is said of it.
LEMMA Frame ==
  ASSUME IInv
  PROVE  /\ UNCHANGED <<obj, asked>> => RunsWhatWasAsked'
         /\ UNCHANGED <<cr, worker, asked>> => Asked'
         /\ UNCHANGED <<cr, worker>> => Current'
         /\ UNCHANGED <<obj, seen, unseen>> => CaughtUp' /\ Fits(obj)' /\ Fits(seen)'
  BY DEF IInv, RunsWhatWasAsked, Asked, TypeOK, Current, CaughtUp, Fits

LEMMA InitInv == Init => IInv
<1> SUFFICES ASSUME Init PROVE IInv  OBVIOUS
<1>1. Fits(obj) /\ Fits(seen) /\ CaughtUp  BY DEF Init, Fits, CaughtUp, Workloads
<1>2. Current /\ Asked  BY DEF Init, Current, Asked
<1>3. RunsWhatWasAsked  BY DEF Init, RunsWhatWasAsked, Workloads
<1>4. TypeOK  BY <1>1, <1>2, ImagesAssumption, BoundAssumption DEF Init, TypeOK
<1> QED  BY <1>2, <1>3, <1>4 DEF IInv

\* Changes are counted up to their bound.
LEMMA ChangeType ==
  ASSUME changes \in 0 .. MaxChanges, Change
  PROVE  changes' \in 1 .. MaxChanges /\ changes' \in 0 .. MaxChanges
  BY BoundAssumption DEF Change

\* A reconciliation whose object changes goes on from an old version.
LEMMA OutdateType ==
  ASSUME TypeOK, NEW k \in Kinds, Outdate(k)
  PROVE  /\ worker' \in [Kinds -> Busy \cup {Idle}]
         /\ \A j \in Kinds : j # k => worker'[j] = worker[j]
         /\ worker'[k] # Idle => /\ worker[k] # Idle /\ ~worker'[k].fresh
                                 /\ worker'[k].cr = worker[k].cr
<1> DEFINE w == IF worker[k] = Idle THEN Idle ELSE [worker[k] EXCEPT !.fresh = FALSE]
<1>1. worker' = [worker EXCEPT ![k] = w]  BY DEF Outdate
<1>2. worker[k] = Idle \/ worker[k] \in Busy  BY DEF TypeOK
<1>3. w \in Busy \cup {Idle}  BY <1>2 DEF Busy
<1>4. worker[k] # Idle => ~w.fresh /\ w.cr = worker[k].cr  BY <1>2 DEF Busy
<1>5. worker'[k] = w  BY <1>1 DEF TypeOK
<1> HIDE DEF w
<1> QED  BY <1>1, <1>3, <1>4, <1>5 DEF TypeOK, w

LEMMA ApplyInv ==
  ASSUME IInv, NEW k \in Kinds, NEW s \in Specs[k], Apply(k, s)
  PROVE  IInv'
<1> DEFINE c == IF cr[k] = Nil THEN [uid |-> changes', spec |-> s, ready |-> FALSE]
                               ELSE [cr[k] EXCEPT !.spec = s]
<1>1. /\ cr' = [cr EXCEPT ![k] = c]
      /\ Change /\ Outdate(k) /\ UNCHANGED <<obj, seen, unseen, image>>
  BY DEF Apply
<1>2. changes' \in 1 .. MaxChanges /\ changes' \in 0 .. MaxChanges
  BY <1>1, ChangeType DEF IInv, TypeOK
<1>3. s \in AllSpecs  BY DEF AllSpecs
<1>4. c \in Object /\ c.spec = s
  <2>1. cr[k] = Nil \/ cr[k] \in Object  BY DEF IInv, TypeOK
  <2> QED  BY <1>2, <1>3, <2>1 DEF Object
<1> HIDE DEF c
<1>5. cr' \in [Kinds -> Object \cup {Nil}]  BY <1>1, <1>4 DEF IInv, TypeOK
<1>6. cr'[k] = c /\ \A j \in Kinds : j # k => cr'[j] = cr[j]  BY <1>1 DEF IInv, TypeOK
<1>7. asked' = asked \cup {<<k, c.uid, s>>} /\ queue' = queue \cup {k}
  BY <1>6 DEF Apply
<1>8. /\ worker' \in [Kinds -> Busy \cup {Idle}]
      /\ \A j \in Kinds : j # k => worker'[j] = worker[j]
      /\ worker'[k] # Idle => /\ worker[k] # Idle /\ ~worker'[k].fresh
                              /\ worker'[k].cr = worker[k].cr
  BY <1>1, OutdateType DEF IInv
<1>9. Current'
  <2> SUFFICES ASSUME NEW j \in Kinds, worker'[j] # Idle, worker'[j].fresh
               PROVE  cr'[j] = worker'[j].cr
    BY DEF Current
  <2>1. j # k  BY <1>8
  <2> QED  BY <1>6, <1>8, <2>1 DEF IInv, TypeOK, Current
<1>10. Asked'
  <2> SUFFICES ASSUME NEW j \in Kinds
               PROVE  /\ cr'[j] # Nil => <<j, cr'[j].uid, cr'[j].spec>> \in asked'
                      /\ worker'[j] # Idle => <<j, worker'[j].cr.uid, worker'[j].cr.spec>> \in asked'
    BY DEF Asked
  <2>1. CASE j = k  BY <2>1, <1>4, <1>6, <1>7, <1>8 DEF IInv, Asked
  <2>2. CASE j # k  BY <2>2, <1>6, <1>7, <1>8 DEF IInv, Asked
  <2> QED  BY <2>1, <2>2
<1>11. RunsWhatWasAsked'  BY <1>1, <1>7 DEF IInv, RunsWhatWasAsked
<1>12. TypeOK'
  <2>1. CaughtUp' /\ Fits(obj)' /\ Fits(seen)'  BY <1>1, Frame
  <2> QED  BY <1>1, <1>2, <1>5, <1>7, <1>8, <1>9, <2>1 DEF IInv, TypeOK
<1> QED  BY <1>10, <1>11, <1>12 DEF IInv

LEMMA DeleteInv == ASSUME IInv, NEW k \in Kinds, Delete(k) PROVE IInv'
<1>1. /\ cr' = [cr EXCEPT ![k] = Nil] /\ queue' = queue \cup {k}
      /\ Change /\ Outdate(k) /\ UNCHANGED <<obj, seen, unseen, image, asked>>
  BY DEF Delete
<1>2. changes' \in 0 .. MaxChanges  BY <1>1, ChangeType DEF IInv, TypeOK
<1>3. /\ cr' \in [Kinds -> Object \cup {Nil}]
      /\ cr'[k] = Nil /\ \A j \in Kinds : j # k => cr'[j] = cr[j]
  BY <1>1 DEF IInv, TypeOK
<1>4. /\ worker' \in [Kinds -> Busy \cup {Idle}]
      /\ \A j \in Kinds : j # k => worker'[j] = worker[j]
      /\ worker'[k] # Idle => /\ worker[k] # Idle /\ ~worker'[k].fresh
                              /\ worker'[k].cr = worker[k].cr
  BY <1>1, OutdateType DEF IInv
<1>5. Current'
  <2> SUFFICES ASSUME NEW j \in Kinds, worker'[j] # Idle, worker'[j].fresh
               PROVE  cr'[j] = worker'[j].cr
    BY DEF Current
  <2>1. j # k  BY <1>4
  <2> QED  BY <1>3, <1>4, <2>1 DEF IInv, TypeOK, Current
<1>6. Asked'
  <2> SUFFICES ASSUME NEW j \in Kinds
               PROVE  /\ cr'[j] # Nil => <<j, cr'[j].uid, cr'[j].spec>> \in asked
                      /\ worker'[j] # Idle => <<j, worker'[j].cr.uid, worker'[j].cr.spec>> \in asked
    BY <1>1 DEF Asked
  <2>1. CASE j = k  BY <2>1, <1>3, <1>4 DEF IInv, Asked
  <2>2. CASE j # k  BY <2>2, <1>3, <1>4 DEF IInv, Asked
  <2> QED  BY <2>1, <2>2
<1>7. RunsWhatWasAsked' /\ CaughtUp' /\ Fits(obj)' /\ Fits(seen)'  BY <1>1, Frame
<1>8. TypeOK'  BY <1>1, <1>2, <1>3, <1>4, <1>5, <1>7 DEF IInv, TypeOK
<1> QED  BY <1>6, <1>7, <1>8 DEF IInv

\* A workload that changes is new to the cache.
LEMMA BecomesType ==
  ASSUME IInv, NEW o \in Workloads, NEW x, NEW owner \in Kinds, Becomes(o, x, owner),
         UNCHANGED seen,
         o = "deployment" => x \in Deployment \cup {Nil},
         o = "service" => x \in Service \cup {Nil}
  PROVE  /\ Fits(obj)' /\ Fits(seen)' /\ CaughtUp'
         /\ unseen' \in [Workloads -> SUBSET Kinds]
         /\ obj'[o] = x /\ \A q \in Workloads : q # o => obj'[q] = obj[q]
<1>1. /\ obj' = [obj EXCEPT ![o] = x]
      /\ unseen' = [unseen EXCEPT ![o] = IF x = obj[o] THEN @ ELSE @ \cup {owner}]
  BY DEF Becomes
<1>2. obj'[o] = x /\ \A q \in Workloads : q # o => obj'[q] = obj[q]
  BY <1>1 DEF IInv, TypeOK, Fits
<1>3. /\ unseen'[o] = IF x = obj[o] THEN unseen[o] ELSE unseen[o] \cup {owner}
      /\ \A q \in Workloads : q # o => unseen'[q] = unseen[q]
  BY <1>1 DEF IInv, TypeOK
<1>4. x \in Deployment \cup Service \cup {Nil}  BY DEF Workloads
<1>5. Fits(obj)'
  <2>1. obj' \in [Workloads -> Deployment \cup Service \cup {Nil}]
    BY <1>1, <1>4 DEF IInv, TypeOK, Fits
  <2>2. obj'["deployment"] \in Deployment \cup {Nil}
    BY <1>2 DEF IInv, TypeOK, Fits, Workloads
  <2> QED  BY <2>1, <2>2 DEF Fits
<1>6. unseen' \in [Workloads -> SUBSET Kinds]  BY <1>1 DEF IInv, TypeOK
<1>7. CaughtUp'
  <2> SUFFICES ASSUME NEW q \in Workloads, unseen'[q] = {} PROVE seen'[q] = obj'[q]
    BY DEF CaughtUp
  <2>1. CASE q = o
    <3>1. x = obj[o] /\ unseen[o] = {}  BY <2>1, <1>3
    <3> QED  BY <2>1, <3>1, <1>2 DEF IInv, TypeOK, CaughtUp
  <2>2. CASE q # o  BY <2>2, <1>2, <1>3 DEF IInv, TypeOK, CaughtUp
  <2> QED  BY <2>1, <2>2
<1> QED  BY <1>2, <1>5, <1>6, <1>7 DEF IInv, TypeOK, Fits

\* A workload that is there has an owner.
LEMMA OwnerType ==
  ASSUME IInv, NEW o \in Workloads, obj[o] # Nil
  PROVE  obj[o].owner \in Kinds
<1>1. obj[o] \in Deployment \cup Service  BY DEF IInv, TypeOK, Fits
<1> QED  BY <1>1 DEF Deployment, Service, Kinds

\* Removed by hand or collected: what is left is as before.
LEMMA GoneInv ==
  ASSUME IInv, NEW o \in Workloads, Remove(o) \/ Collect(o)
  PROVE  IInv'
<1>1. /\ obj[o] # Nil /\ Becomes(o, Nil, obj[o].owner)
      /\ UNCHANGED <<cr, seen, queue, worker, image, asked>>
      /\ changes' \in 0 .. MaxChanges
  BY ChangeType DEF Remove, Collect, Orphan, IInv, TypeOK
<1>2. /\ Fits(obj)' /\ Fits(seen)' /\ CaughtUp'
      /\ unseen' \in [Workloads -> SUBSET Kinds]
      /\ obj'[o] = Nil /\ \A q \in Workloads : q # o => obj'[q] = obj[q]
  BY <1>1, OwnerType, BecomesType
<1>3. Asked' /\ Current'  BY <1>1, Frame
<1>4. TypeOK'  BY <1>1, <1>2, <1>3 DEF IInv, TypeOK
<1>5. RunsWhatWasAsked'
  <2>1. obj'["deployment"] = Nil \/ obj'["deployment"] = obj["deployment"]
    BY <1>2 DEF Workloads
  <2> QED  BY <1>1, <2>1 DEF IInv, RunsWhatWasAsked
<1> QED  BY <1>3, <1>4, <1>5 DEF IInv

LEMMA ReadyInv == ASSUME IInv, ReadyFlips PROVE IInv'
<1> DEFINE d == obj["deployment"]
           new == [d EXCEPT !.ready = ~@]
<1>1. /\ d # Nil /\ Becomes("deployment", new, d.owner)
      /\ UNCHANGED <<cr, seen, queue, worker, image, asked>>
      /\ changes' \in 0 .. MaxChanges
  BY ChangeType DEF ReadyFlips, IInv, TypeOK
<1>2. d \in Deployment /\ d.owner \in Kinds
  BY <1>1 DEF IInv, TypeOK, Fits, Deployment
<1>3. /\ new \in Deployment /\ new.owner = d.owner /\ new.uid = d.uid
      /\ new.runs = d.runs /\ new.volume = d.volume
  BY <1>2 DEF Deployment
<1> HIDE DEF new
<1>4. "deployment" \in Workloads /\ "deployment" # "service"  BY DEF Workloads
<1>5. /\ Fits(obj)' /\ Fits(seen)' /\ CaughtUp'
      /\ unseen' \in [Workloads -> SUBSET Kinds]
      /\ obj'["deployment"] = new
  <2> HIDE DEF d
  <2> QED  BY <1>1, <1>2, <1>3, <1>4, BecomesType
<1>6. Asked' /\ Current'  BY <1>1, Frame
<1>7. TypeOK'  BY <1>1, <1>5, <1>6 DEF IInv, TypeOK
<1>8. RunsWhatWasAsked'  BY <1>1, <1>3, <1>5 DEF IInv, RunsWhatWasAsked
<1> QED  BY <1>6, <1>7, <1>8 DEF IInv

LEMMA SeesInv == ASSUME IInv, NEW o \in Workloads, Sees(o) PROVE IInv'
<1>1. /\ seen' = [seen EXCEPT ![o] = obj[o]] /\ unseen' = [unseen EXCEPT ![o] = {}]
      /\ queue' = queue \cup unseen[o]
      /\ UNCHANGED <<cr, obj, worker, image, changes, asked>>
  BY DEF Sees
<1>2. /\ seen'[o] = obj[o] /\ \A q \in Workloads : q # o => seen'[q] = seen[q]
      /\ \A q \in Workloads : q # o => unseen'[q] = unseen[q]
  BY <1>1 DEF IInv, TypeOK, Fits
<1>3. Fits(seen)'
  <2>1. seen' \in [Workloads -> Deployment \cup Service \cup {Nil}]
    BY <1>1 DEF IInv, TypeOK, Fits
  <2>2. seen'["deployment"] \in Deployment \cup {Nil}
    BY <1>2 DEF IInv, TypeOK, Fits, Workloads
  <2> QED  BY <2>1, <2>2 DEF Fits
<1>4. CaughtUp'  BY <1>1, <1>2 DEF IInv, TypeOK, CaughtUp
<1>5. queue' \in SUBSET Kinds /\ unseen' \in [Workloads -> SUBSET Kinds]
  BY <1>1 DEF IInv, TypeOK
<1>6. Asked' /\ Current' /\ RunsWhatWasAsked'  BY <1>1, Frame
<1>7. Fits(obj)'  BY <1>1 DEF IInv, TypeOK, Fits
<1>8. TypeOK'  BY <1>1, <1>3, <1>4, <1>5, <1>6, <1>7 DEF IInv, TypeOK
<1> QED  BY <1>6, <1>8 DEF IInv

LEMMA RestartInv == ASSUME IInv, Restart PROVE IInv'
<1>1. /\ image' \in Images /\ seen' = obj
      /\ unseen' = [o \in Workloads |-> {}] /\ queue' \in SUBSET Kinds
      /\ worker' = [k \in Kinds |-> Idle]
      /\ UNCHANGED <<cr, obj, asked>>
      /\ changes' \in 0 .. MaxChanges
  BY ChangeType DEF Restart, IInv, TypeOK
<1>2. Fits(obj)' /\ Fits(seen)' /\ CaughtUp'  BY <1>1 DEF IInv, TypeOK, Fits, CaughtUp
<1>3. Current' /\ Asked'  BY <1>1 DEF IInv, Current, Asked
<1>4. RunsWhatWasAsked'  BY <1>1, Frame
<1>5. TypeOK'  BY <1>1, <1>2, <1>3 DEF IInv, TypeOK
<1> QED  BY <1>3, <1>4, <1>5 DEF IInv

\* The workers: a step that leaves the object alone and gives one reconciler
\* either nothing to do or a copy that was applied once.
LEMMA WorkerType ==
  ASSUME IInv, NEW k \in Kinds, NEW w \in Busy \cup {Idle},
         worker' = [worker EXCEPT ![k] = w], UNCHANGED <<cr, asked>>,
         w # Idle => <<k, w.cr.uid, w.cr.spec>> \in asked /\ (w.fresh => cr[k] = w.cr)
  PROVE  worker' \in [Kinds -> Busy \cup {Idle}] /\ Current' /\ Asked'
<1>1. /\ worker' \in [Kinds -> Busy \cup {Idle}] /\ worker'[k] = w
      /\ \A j \in Kinds : j # k => worker'[j] = worker[j]
  BY DEF IInv, TypeOK
<1>2. Current'  BY <1>1 DEF IInv, TypeOK, Current
<1>3. Asked'  BY <1>1 DEF IInv, Asked
<1> QED  BY <1>1, <1>2, <1>3

LEMMA GiveUpType ==
  ASSUME IInv, NEW k \in Kinds, GiveUp(k), UNCHANGED <<cr, asked>>
  PROVE  /\ worker' \in [Kinds -> Busy \cup {Idle}] /\ Current' /\ Asked'
         /\ queue' \in SUBSET Kinds
<1>1. worker' = [worker EXCEPT ![k] = Idle] /\ queue' = queue \cup {k}  BY DEF GiveUp
<1>2. worker' \in [Kinds -> Busy \cup {Idle}] /\ Current' /\ Asked'  BY <1>1, WorkerType
<1> QED  BY <1>1, <1>2 DEF IInv, TypeOK

LEMMA CallFailsInv == ASSUME IInv, NEW k \in Kinds, CallFails(k) PROVE IInv'
<1>1. /\ GiveUp(k) /\ UNCHANGED <<cr, obj, seen, unseen, image, asked>>
      /\ changes' \in 0 .. MaxChanges
  BY ChangeType DEF CallFails, IInv, TypeOK
<1>2. /\ worker' \in [Kinds -> Busy \cup {Idle}] /\ Current' /\ Asked'
      /\ queue' \in SUBSET Kinds
  BY <1>1, GiveUpType
<1>3. RunsWhatWasAsked' /\ CaughtUp' /\ Fits(obj)' /\ Fits(seen)'  BY <1>1, Frame
<1>4. TypeOK'  BY <1>1, <1>2, <1>3 DEF IInv, TypeOK
<1> QED  BY <1>2, <1>3, <1>4 DEF IInv

LEMMA BeginInv == ASSUME IInv, NEW k \in Kinds, Begin(k) PROVE IInv'
<1> DEFINE new == [pc |-> "deployment", cr |-> cr[k], fresh |-> TRUE, ready |-> FALSE]
<1>1. /\ queue' = queue \ {k} /\ UNCHANGED <<cr, obj, seen, unseen, image, changes, asked>>
      /\ \/ worker' = worker
         \/ cr[k] # Nil /\ worker' = [worker EXCEPT ![k] = new]
  BY DEF Begin
<1>2. worker' \in [Kinds -> Busy \cup {Idle}] /\ Current' /\ Asked'
  <2>1. CASE worker' = worker  BY <1>1, <2>1, Frame DEF IInv, TypeOK
  <2>2. CASE cr[k] # Nil /\ worker' = [worker EXCEPT ![k] = new]
    <3>1. cr[k] \in Object /\ <<k, cr[k].uid, cr[k].spec>> \in asked
      BY <2>2 DEF IInv, TypeOK, Asked
    <3>2. new \in Busy /\ new.cr = cr[k]  BY <3>1 DEF Busy
    <3> HIDE DEF new
    <3> QED  BY <1>1, <2>2, <3>1, <3>2, WorkerType
  <2> QED  BY <1>1, <2>1, <2>2
<1>3. RunsWhatWasAsked' /\ CaughtUp' /\ Fits(obj)' /\ Fits(seen)'  BY <1>1, Frame
<1>4. TypeOK'  BY <1>1, <1>2, <1>3 DEF IInv, TypeOK
<1> QED  BY <1>2, <1>3, <1>4 DEF IInv

\* What a Deployment is made from.
LEMMA RunsType ==
  ASSUME NEW k \in Kinds, NEW s \in AllSpecs, NEW i \in Images, NEW old \in Deployment \cup {Nil}
  PROVE  /\ Runs(k, s, i) \in Running /\ Runs(k, s, i).secret = s.secret
         /\ Volume(s, old) \in Volumes
         /\ s.secret # "" => Volume(s, old) = s.secret
<1>1. Runs(k, s, i) \in Running /\ Runs(k, s, i).secret = s.secret
  <2>1. Runs(k, s, i) \in Running  BY DEF Running
  <2>2. Runs(k, s, i).secret = s.secret  BY DEF Runs
  <2> QED  BY <2>1, <2>2
<1>2. s.secret \in Volumes /\ "" \in Volumes  BY DEF Volumes
<1>3. old # Nil => old.volume \in Volumes  BY DEF Deployment
<1> QED  BY <1>1, <1>2, <1>3 DEF Volume

LEMMA SyncDeploymentInv == ASSUME IInv, NEW k \in Kinds, SyncDeployment(k) PROVE IInv'
<1> DEFINE w == worker[k]
           old == obj["deployment"]
           s == w.cr.spec
           new == [owner |-> k, uid |-> w.cr.uid, runs |-> Runs(k, s, image),
                   volume |-> Volume(s, old), ready |-> old # Nil /\ old.ready]
           pc == IF k = "Hub" THEN "service" ELSE "status"
<1>1. UNCHANGED <<cr, seen, image, changes, asked>> /\ w.pc = "deployment"
  BY DEF SyncDeployment
<1>2. w \in Busy /\ w # Idle  BY <1>1 DEF IInv, TypeOK, Idle, Busy
<1>3. CASE GiveUp(k) /\ UNCHANGED <<obj, unseen>>
  <2>1. /\ worker' \in [Kinds -> Busy \cup {Idle}] /\ Current' /\ Asked'
        /\ queue' \in SUBSET Kinds
    BY <1>1, <1>3, GiveUpType
  <2>2. RunsWhatWasAsked' /\ CaughtUp' /\ Fits(obj)' /\ Fits(seen)'  BY <1>1, <1>3, Frame
  <2>3. TypeOK'  BY <1>1, <1>3, <2>1, <2>2 DEF IInv, TypeOK
  <2> QED  BY <2>1, <2>2, <2>3 DEF IInv
<1>4. CASE /\ Becomes("deployment", new, k)
           /\ worker' = [worker EXCEPT ![k].pc = pc, ![k].ready = new.ready]
           /\ UNCHANGED queue
  <2>1. w.cr \in Object /\ <<k, w.cr.uid, s>> \in asked
    BY <1>2 DEF IInv, Asked, Busy
  <2>2. s \in AllSpecs /\ w.cr.uid \in 1 .. MaxChanges  BY <2>1 DEF Object
  <2>3. old \in Deployment \cup {Nil} /\ image \in Images  BY DEF IInv, TypeOK, Fits
  <2>4. (old # Nil /\ old.ready) \in BOOLEAN  OBVIOUS
  <2>5. /\ Runs(k, s, image) \in Running /\ Runs(k, s, image).secret = s.secret
        /\ Volume(s, old) \in Volumes /\ (s.secret # "" => Volume(s, old) = s.secret)
    <3> HIDE DEF s, old
    <3> QED  BY <2>2, <2>3, RunsType
  <2>6. /\ new \in Deployment /\ new.owner = k /\ new.uid = w.cr.uid /\ new.ready \in BOOLEAN
        /\ new.runs = Runs(k, s, image) /\ new.volume = Volume(s, old)
    <3> HIDE DEF s, old, w
    <3> QED  BY <2>2, <2>4, <2>5 DEF Deployment
  <2> HIDE DEF new
  <2>7. "deployment" \in Workloads /\ "deployment" # "service"  BY DEF Workloads
  <2>8. /\ Fits(obj)' /\ Fits(seen)' /\ CaughtUp'
        /\ unseen' \in [Workloads -> SUBSET Kinds]
        /\ obj'["deployment"] = new
    BY <1>1, <1>4, <2>6, <2>7, BecomesType
  <2>9. worker' \in [Kinds -> Busy \cup {Idle}] /\ Current' /\ Asked'
    <3> DEFINE next == [w EXCEPT !.pc = pc, !.ready = new.ready]
    <3>1. worker' = [worker EXCEPT ![k] = next]  BY <1>4
    <3>2. /\ next \in Busy /\ next.cr = w.cr /\ next.fresh = w.fresh
      BY <1>2, <2>6 DEF Busy
    <3>3. w.fresh => cr[k] = w.cr  BY <1>2 DEF IInv, TypeOK, Current
    <3> HIDE DEF next
    <3> QED  BY <1>1, <2>1, <3>1, <3>2, <3>3, WorkerType
  <2>10. RunsWhatWasAsked'
    <3>1. /\ <<new.owner, new.uid, s>> \in asked' /\ new.runs = Runs(new.owner, s, image)
          /\ (new.runs.secret # "" => new.volume = new.runs.secret)
      BY <1>1, <2>1, <2>5, <2>6
    <3> QED  BY <2>2, <2>3, <2>8, <3>1 DEF RunsWhatWasAsked
  <2>11. TypeOK'  BY <1>1, <1>4, <2>8, <2>9 DEF IInv, TypeOK
  <2> QED  BY <2>9, <2>10, <2>11 DEF IInv
<1> QED  BY <1>3, <1>4 DEF SyncDeployment

LEMMA SyncServiceInv == ASSUME IInv, SyncService PROVE IInv'
<1> DEFINE w == worker["Hub"]
           new == [owner |-> "Hub", uid |-> w.cr.uid]
<1>1. /\ UNCHANGED <<cr, seen, image, changes, asked>> /\ w.pc = "service"
      /\ "Hub" \in Kinds
  BY DEF SyncService, Kinds
<1>2. w \in Busy /\ w # Idle  BY <1>1 DEF IInv, TypeOK, Idle, Busy
<1>3. CASE GiveUp("Hub") /\ UNCHANGED <<obj, unseen>>
  <2>1. /\ worker' \in [Kinds -> Busy \cup {Idle}] /\ Current' /\ Asked'
        /\ queue' \in SUBSET Kinds
    BY <1>1, <1>3, GiveUpType
  <2>2. RunsWhatWasAsked' /\ CaughtUp' /\ Fits(obj)' /\ Fits(seen)'  BY <1>1, <1>3, Frame
  <2>3. TypeOK'  BY <1>1, <1>3, <2>1, <2>2 DEF IInv, TypeOK
  <2> QED  BY <2>1, <2>2, <2>3 DEF IInv
<1>4. CASE /\ Becomes("service", new, "Hub")
           /\ worker' = [worker EXCEPT !["Hub"].pc = "status"]
           /\ UNCHANGED queue
  <2>1. w.cr \in Object /\ <<"Hub", w.cr.uid, w.cr.spec>> \in asked
    BY <1>1, <1>2 DEF IInv, Asked, Busy
  <2>2. new \in Service  BY <2>1 DEF Object, Service
  <2> HIDE DEF new
  <2>3. "service" \in Workloads /\ "deployment" \in Workloads /\ "deployment" # "service"
    BY DEF Workloads
  <2>4. /\ Fits(obj)' /\ Fits(seen)' /\ CaughtUp'
        /\ unseen' \in [Workloads -> SUBSET Kinds]
        /\ \A q \in Workloads : q # "service" => obj'[q] = obj[q]
    BY <1>1, <1>4, <2>2, <2>3, BecomesType
  <2>5. worker' \in [Kinds -> Busy \cup {Idle}] /\ Current' /\ Asked'
    <3> DEFINE next == [w EXCEPT !.pc = "status"]
    <3>1. worker' = [worker EXCEPT !["Hub"] = next]  BY <1>4
    <3>2. next \in Busy /\ next.cr = w.cr /\ next.fresh = w.fresh  BY <1>2 DEF Busy
    <3>3. w.fresh => cr["Hub"] = w.cr  BY <1>1, <1>2 DEF IInv, TypeOK, Current
    <3> HIDE DEF next
    <3> QED  BY <1>1, <2>1, <3>1, <3>2, <3>3, WorkerType
  <2>6. RunsWhatWasAsked'  BY <1>1, <2>3, <2>4 DEF IInv, RunsWhatWasAsked
  <2>7. TypeOK'  BY <1>1, <1>4, <2>4, <2>5 DEF IInv, TypeOK
  <2> QED  BY <2>5, <2>6, <2>7 DEF IInv
<1> QED  BY <1>3, <1>4 DEF SyncService

LEMMA UpdateStatusInv == ASSUME IInv, NEW k \in Kinds, UpdateStatus(k) PROVE IInv'
<1> DEFINE w == worker[k]
<1>1. UNCHANGED <<obj, seen, unseen, image, changes, asked>> /\ w.pc = "status"
  BY DEF UpdateStatus
<1>2. w \in Busy /\ w # Idle  BY <1>1 DEF IInv, TypeOK, Idle, Busy
<1>3. RunsWhatWasAsked' /\ CaughtUp' /\ Fits(obj)' /\ Fits(seen)'  BY <1>1, Frame
<1>4. CASE GiveUp(k) /\ UNCHANGED cr
  <2>1. /\ worker' \in [Kinds -> Busy \cup {Idle}] /\ Current' /\ Asked'
        /\ queue' \in SUBSET Kinds
    BY <1>1, <1>4, GiveUpType
  <2>2. TypeOK'  BY <1>1, <1>3, <1>4, <2>1 DEF IInv, TypeOK
  <2> QED  BY <1>3, <2>1, <2>2 DEF IInv
<1>5. CASE /\ w.fresh /\ worker' = [worker EXCEPT ![k] = Idle]
           /\ cr' = [cr EXCEPT ![k].ready = w.ready]
           /\ queue' = IF cr' = cr THEN queue ELSE queue \cup {k}
  <2>1. cr[k] = w.cr /\ w.cr \in Object /\ w.ready \in BOOLEAN
    BY <1>2, <1>5 DEF IInv, TypeOK, Current, Busy
  <2> DEFINE c == [cr[k] EXCEPT !.ready = w.ready]
  <2>2. c \in Object /\ c.uid = cr[k].uid /\ c.spec = cr[k].spec  BY <2>1 DEF Object
  <2> HIDE DEF c
  <2>3. /\ cr' \in [Kinds -> Object \cup {Nil}]
        /\ cr'[k] = c /\ \A j \in Kinds : j # k => cr'[j] = cr[j]
    BY <1>5, <2>2 DEF IInv, TypeOK, c
  <2>4. /\ worker' \in [Kinds -> Busy \cup {Idle}]
        /\ worker'[k] = Idle /\ \A j \in Kinds : j # k => worker'[j] = worker[j]
    BY <1>5 DEF IInv, TypeOK
  <2>5. Current'  BY <2>3, <2>4 DEF IInv, TypeOK, Current
  <2>6. Asked'
    <3> SUFFICES ASSUME NEW j \in Kinds
                 PROVE  /\ cr'[j] # Nil => <<j, cr'[j].uid, cr'[j].spec>> \in asked
                        /\ worker'[j] # Idle => <<j, worker'[j].cr.uid, worker'[j].cr.spec>> \in asked
      BY <1>1 DEF Asked
    <3>1. <<k, cr[k].uid, cr[k].spec>> \in asked  BY <1>2, <2>1 DEF IInv, Asked
    <3>2. CASE j = k  BY <3>1, <3>2, <2>2, <2>3, <2>4
    <3>3. CASE j # k  BY <3>3, <2>3, <2>4 DEF IInv, Asked
    <3> QED  BY <3>2, <3>3
  <2>7. queue' \in SUBSET Kinds  BY <1>5 DEF IInv, TypeOK
  <2>8. TypeOK'  BY <1>1, <1>3, <2>3, <2>4, <2>5, <2>7 DEF IInv, TypeOK
  <2> QED  BY <1>3, <2>6, <2>8 DEF IInv
<1> QED  BY <1>4, <1>5 DEF UpdateStatus

\* Every step keeps the invariant.
LEMMA Inductive == IInv /\ [Next]_vars => IInv'
<1>1. ASSUME IInv, UNCHANGED vars PROVE IInv'
  <2>1. Asked' /\ Current' /\ RunsWhatWasAsked' /\ CaughtUp' /\ Fits(obj)' /\ Fits(seen)'
    BY <1>1, Frame DEF vars
  <2> QED  BY <1>1, <2>1 DEF vars, IInv, TypeOK
<1> QED
  BY <1>1, ReadyInv, RestartInv, ApplyInv, DeleteInv, CallFailsInv, GoneInv, SeesInv,
     BeginInv, SyncDeploymentInv, SyncServiceInv, UpdateStatusInv DEF Next, Reconcile

LEMMA Invariant == Spec => []IInv
  BY InitInv, Inductive, PTL DEF Spec

\* Objects, workloads, cache and workers keep to their types, and a worker that
\* nothing overtook holds the object as it is.
THEOREM TypeCorrect == Spec => []TypeOK
<1>1. IInv => TypeOK  BY DEF IInv
<1> QED  BY <1>1, Invariant, PTL

\* A Deployment runs what was asked of the very object that controls it, and
\* mounts the Secret that object named.
THEOREM DeploymentsAreAsked == Spec => []RunsWhatWasAsked
<1>1. IInv => RunsWhatWasAsked  BY DEF IInv
<1> QED  BY <1>1, Invariant, PTL

\* Who may write the Deployment: its owner, when the cache has caught up with it.
LEMMA WriterOwns ==
  ASSUME IInv, NEW k \in Kinds, ~Refused(k, "deployment"), obj["deployment"] # Nil
  PROVE  obj["deployment"].owner = k
<1>1. seen["deployment"].owner = k /\ unseen["deployment"] = {}  BY DEF Refused
<1>2. seen["deployment"] = obj["deployment"]  BY <1>1 DEF IInv, TypeOK, CaughtUp, Workloads
<1> QED  BY <1>1, <1>2

LEMMA OwnerKept == ASSUME IInv, [Next]_vars PROVE KeepsOwner
<1> DEFINE d == obj["deployment"]
<1>1. "deployment" \in Workloads /\ "service" \in Workloads /\ "deployment" # "service"
      /\ obj \in [Workloads -> Deployment \cup Service \cup {Nil}]
      /\ d \in Deployment \cup {Nil}
  BY DEF IInv, TypeOK, Fits, Workloads
<1>2. CASE UNCHANGED obj  BY <1>2 DEF KeepsOwner
<1>3. CASE ReadyFlips
  <2>1. d # Nil /\ obj'["deployment"] = [d EXCEPT !.ready = ~@]
    BY <1>1, <1>3 DEF ReadyFlips, Becomes
  <2>2. [d EXCEPT !.ready = ~@].owner = d.owner  BY <1>1, <2>1 DEF Deployment
  <2> QED  BY <2>1, <2>2 DEF KeepsOwner
<1>4. ASSUME NEW o \in Workloads, Remove(o) \/ Collect(o) PROVE KeepsOwner
  <2>1. obj' = [obj EXCEPT ![o] = Nil]  BY <1>4 DEF Remove, Collect, Becomes
  <2> QED  BY <1>1, <2>1 DEF KeepsOwner
<1>5. ASSUME NEW k \in Kinds, SyncDeployment(k) PROVE KeepsOwner
  <2>1. CASE Refused(k, "deployment")  BY <1>2, <1>5, <2>1 DEF SyncDeployment
  <2>2. CASE ~Refused(k, "deployment")
    <3>1. obj'["deployment"].owner = k  BY <1>1, <1>5, <2>2 DEF SyncDeployment, Becomes
    <3> QED  BY <2>2, <3>1, WriterOwns DEF KeepsOwner
  <2> QED  BY <2>1, <2>2
<1>6. CASE SyncService
  <2>1. UNCHANGED obj \/ obj'["deployment"] = obj["deployment"]
    BY <1>1, <1>6 DEF SyncService, Becomes
  <2> QED  BY <1>2, <2>1 DEF KeepsOwner
<1> QED
  BY <1>2, <1>3, <1>4, <1>5, <1>6
  DEF Next, Reconcile, Restart, Apply, Delete, Begin, UpdateStatus, CallFails, Sees, vars

\* The reconciler of a Hub never takes over the Deployment of the Peer of its
\* name, nor the other way round, from whatever the cache shows.
THEOREM OwnersStay == Spec => OwnerStays
<1>1. IInv /\ [Next]_vars => [KeepsOwner]_vars  BY OwnerKept
<1> QED  BY <1>1, Invariant, PTL DEF Spec, OwnerStays
==============================================================================
