----------------------------- MODULE MCRegistry -----------------------------
(***************************************************************************)
(* RegistryService on small instances.                                     *)
(***************************************************************************)
EXTENDS RegistryService, TLC

\* Every instant begins a second.
MCSecondOf == [t \in Times |-> t]

\* Backup objects are read only to rebuild a missing registry: once there is a
\* registry they need not change any more.
ObjectsMatter == objects' # objects => store = NoRegistry

\* Plain loads, and marks of entries rebuilt from a file name, are left to the runs
\* of the whole program.
WritesMatter ==
    \A p \in Clients : phase[p] = "idle" /\ phase'[p] = "lock" =>
        op'[p] # "load" /\ (op'[p] = "mark" => arg'[p].sha # Unknown)

\* One I/O error or crash, or one cancelled context.
OneDisturbance == faults' + cancels' <= 1

\* The registry service as the run about writes explores it.
WritesNext == ServiceNext /\ ObjectsMatter /\ WritesMatter /\ OneDisturbance

WritesSpec == ServiceInit /\ [][WritesNext]_serviceVars /\ ServiceFairness
=============================================================================
