----------------------------- MODULE LockMapping -----------------------------
(***************************************************************************)
(* The mapping of the algorithms over LockApi to CondVar.  The program     *)
(* points are in __mutex_unlock with the lock still held, after its        *)
(* release, or in a trylock that has not succeeded; all others, but for    *)
(* those of the condition-variable code, are in __mutex_lock.              *)
(***************************************************************************)
EXTENDS LockApi

WrapperPcs ==
  {"idle", "posix", "tryposix", "cs", "condwait", "waiting", "woken", "unwait"}

UnlockPcs ==
  {"unlock", "castail", "awaitnext", "handover",                      \* queue locks
   "cull", "graft", "graftlink", "graftwait",                         \* Malthusian
   "grant", "scan", "fail", "release",                                \* CNA, MCS-TP, mutexee
   "passcheck", "passcas", "pass", "dropcheck", "dropcas", "drop",    \* cohort locks
   "dropcall", "topunlock", "refill",
   "gcas", "gpass", "fcas", "fpass"}              \* hierarchical MCS

ReleasedPcs ==
  {"futexwake", "faillast", "failrest", "failnext", "check", "recheck", "clear",
   "localgrant", "lcas", "lpass"}

TryPcs ==
  {"try", "trycas", "trylock", "trywait", "trygot", "trytop", "trytop2", "trytake", "tryundo",
   "trycheck", "trydrop", "trycall"}

AbsPc ==
  [t \in Threads |->
     CASE pc[t] \in WrapperPcs  -> pc[t]
       [] pc[t] \in UnlockPcs   -> IF t \in inWait THEN "cs" ELSE "optunlock"
       [] pc[t] \in ReleasedPcs -> After(t)
       [] pc[t] \in TryPcs      -> "idle"
       [] OTHER                 -> "lock"]

\* Who has the optimised lock.
Holders == {t \in Threads : AbsPc[t] \in {"posix", "tryposix", "cs", "optunlock"}}

Holder == IF Holders = {} THEN NULL ELSE CHOOSE t \in Holders : TRUE

CV == INSTANCE CondVar WITH
        opt <- Holder, pc <- AbsPc, inWait <- {t \in inWait : AbsPc[t] # "cs"}
=============================================================================
