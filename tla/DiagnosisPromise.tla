-------------------------- MODULE DiagnosisPromise --------------------------
(***************************************************************************)
(* What the diagnosis of a case promises to whoever owns the material, with no *)
(* locks, signatures, invocations or crashes: an Assignment is worked on once and  *)
(* by one worker, only while nothing its package stands on is erased, a diagnosis    *)
(* costs one request, and bytes go after the decision and before its seal.             *)
(***************************************************************************)
EXTENDS Naturals

CONSTANTS Packages, Assignments, Workers, Artifacts, Material, Root, Nothing

VARIABLES
    known,      \* the packages of the case so far
    offer,      \* what has become of each Assignment
    on,         \* the Assignment each worker has taken
    progress,   \* how far it has got
    price,      \* the requests its diagnosis has cost
    erased,     \* the artifacts decided upon
    sealed,     \* those known to be gone
    held        \* the artifacts there are bytes of

workVars == <<on, progress, price>>
materialVars == <<erased, sealed, held>>
promiseVars == <<known, offer, workVars, materialVars>>

PackageOf(a) == a[1]
First(n) == <<n, 1>>

PromiseInit ==
    /\ known = {0} /\ held = Material[0]
    /\ offer = [a \in Assignments |-> "none"]
    /\ on = [k \in Workers |-> Nothing]
    /\ progress = [k \in Workers |-> "none"]
    /\ price = [k \in Workers |-> 0]
    /\ erased = {} /\ sealed = {}

Whole(n) == Material[n] \intersect erased = {}

AddPackage(n) ==
    /\ \A o \in known : o < n
    /\ Whole(n)
    /\ known' = known \union {n} /\ held' = held \union Material[n]
    /\ UNCHANGED <<offer, workVars, erased, sealed>>

(* The first Assignment of a package, perhaps in the place of one of an earlier *)
(* package that nobody has taken.                                                 *)
Offer(n, replaced) ==
    /\ offer[First(n)] = "none" /\ n \in known /\ Whole(n)
    /\ \A b \in replaced : offer[b] = "unclaimed" /\ PackageOf(b) < n
    /\ offer' = [a \in Assignments |->
                    CASE a = First(n) -> "unclaimed"
                      [] a \in replaced -> "expired"
                      [] OTHER -> offer[a]]
    /\ UNCHANGED <<known, workVars, materialVars>>

(* The tests of a diagnosis are on offer together, and once.                   *)
OfferTests(k) ==
    /\ progress[k] = "completed" /\ offer[on[k]] = "claimed"
    /\ on[k] = First(PackageOf(on[k]))
    /\ LET tests == {a \in Assignments : PackageOf(a) = PackageOf(on[k]) /\ a # on[k]}
       IN  /\ \A a \in tests : offer[a] = "none"
           /\ offer' = [a \in Assignments |-> IF a \in tests THEN "unclaimed" ELSE offer[a]]
    /\ UNCHANGED <<known, workVars, materialVars>>

Take(k, a) ==
    /\ on[k] = Nothing /\ offer[a] = "unclaimed"
    /\ offer' = [offer EXCEPT ![a] = "claimed"]
    /\ on' = [on EXCEPT ![k] = a]
    /\ progress' = [progress EXCEPT ![k] = "claimed_not_launched"]
    /\ UNCHANGED <<known, price, materialVars>>

Proceed(k, to, cost) ==
    /\ progress' = [progress EXCEPT ![k] = to]
    /\ price' = [price EXCEPT ![k] = cost]
    /\ UNCHANGED <<known, offer, on, materialVars>>

Launch(k) ==
    /\ progress[k] = "claimed_not_launched"
    /\ offer[on[k]] = "claimed" /\ Root[PackageOf(on[k])] \in held
    /\ Proceed(k, "launching", 0)

Start(k) == progress[k] = "launching" /\ Proceed(k, "running", 0)

Finish(k) ==
    /\ progress[k] = "running" /\ offer[on[k]] = "claimed"
    /\ Proceed(k, "completed", 1)

(* What is decided for an artifact takes every Assignment that needs it.       *)
Erase(m) ==
    /\ m \notin erased /\ \E n \in known : m \in Material[n]
    /\ erased' = erased \union {m}
    /\ offer' = [a \in Assignments |->
            CASE m \in Material[PackageOf(a)] /\ offer[a] = "unclaimed" -> "expired"
              [] m \in Material[PackageOf(a)] /\ offer[a] = "claimed" -> "cancelled"
              [] OTHER -> offer[a]]
    /\ UNCHANGED <<known, workVars, sealed, held>>

Remove(m) ==
    /\ m \in erased /\ m \in held
    /\ held' = held \ {m}
    /\ UNCHANGED <<known, offer, workVars, erased, sealed>>

Seal(m) ==
    /\ m \in erased /\ m \notin held
    /\ sealed' = sealed \union {m}
    /\ UNCHANGED <<known, offer, workVars, erased, held>>

PromiseNext ==
    \/ \E n \in Packages :
          \/ AddPackage(n) \/ Offer(n, {})
          \/ \E b \in Assignments : Offer(n, {b})
    \/ \E k \in Workers :
          \/ OfferTests(k) \/ Launch(k) \/ Start(k) \/ Finish(k)
          \/ \E a \in Assignments : Take(k, a)
    \/ \E m \in Artifacts : Erase(m) \/ Remove(m) \/ Seal(m)

PromiseSpec == PromiseInit /\ [][PromiseNext]_promiseVars
=============================================================================
