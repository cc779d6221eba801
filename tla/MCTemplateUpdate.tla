-------------------------- MODULE MCTemplateUpdate --------------------------
(***************************************************************************)
(* Symmetry, and four kinds of behaviours that TLC explores in one run.    *)
(* "owner": every client may ask, the owner acts up to the bound, and one  *)
(* executor at a time works, whose task is never taken back.               *)
(* "overtaken": one client asks and the owner acts once; a task may be     *)
(* taken back from an executor at work.  The reaper looks before a retry.  *)
(* "dies": the same with one death and one executor at a time.             *)
(* "regions": the template lives in another region, so that the reaper may *)
(* fail a job at work; every client may ask, the owner acts once, and one  *)
(* executor at a time works.                                               *)
(***************************************************************************)
EXTENDS TemplateUpdate, TLC

VARIABLE kind

Symmetry == Permutations(Workers) \union Permutations(Clients)

New == [pc |-> "new", target |-> 1, job |-> NoJob]
Refused == [New EXCEPT !.pc = "over"]

MCInit ==
  /\ QueueInit
  /\ releases = 1
  /\ head = Release(1) /\ fns = Release(1)
  /\ base = [rel |-> 1, snap |-> Release(1), fns |-> Release(1)]
  /\ status = [j \in Jobs |-> "unborn"]
  /\ target = [j \in Jobs |-> 1]
  /\ tries = [j \in Jobs |-> 0]
  /\ pre = [j \in Jobs |-> NoPre]
  /\ \/ /\ kind \in {"overtaken", "dies"} /\ acts = MaxActs - 1
        /\ \E c \in Clients : request = [d \in Clients |-> IF c = d THEN New ELSE Refused]
     \/ /\ \/ kind = "owner" /\ acts = 0
           \/ kind = "regions" /\ acts = MaxActs - 1
        /\ request = [c \in Clients |-> New]
  /\ retry = [pc |-> "rest", job |-> NoJob]
  /\ undo = [pc |-> "rest", job |-> NoJob, alone |-> FALSE]
  /\ reaped = NoJob
  /\ run = [w \in Workers |-> NoRun]
  /\ edits = 0 /\ settled = {} /\ overtaken = {}

MCSpec == MCInit /\ [][Next /\ UNCHANGED kind]_<<vars, kind>>

OneExecutor == \A v, w \in Workers : v = w \/ Resting \in {job'[v], job'[w]}

OfItsKind ==
  /\ kind \notin {"overtaken", "dies"} => overdue' = {}
  /\ kind # "dies" => crashes' = 0
  /\ kind # "owner" => releases' <= 2
  /\ kind # "regions" /\ reaped' \notin {reaped, NoJob} => ~Live(reaped')
  /\ kind = "overtaken" /\ reaped' # NoJob => \A j \in Jobs : tries'[j] = 0
  /\ kind # "overtaken" => OneExecutor

=============================================================================
