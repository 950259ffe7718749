------------------------------ MODULE Dictionary ------------------------------
(***************************************************************************)
(* dh_core.dict__business_unit: a copy of the view                         *)
(* v_organization__business_unit_current that the server loads again 300   *)
(* to 600 seconds after the last time (LIFETIME(MIN 300 MAX 600)).  Between*)
(* two loads every query gets what the copy holds, in the middle of a      *)
(* query too.  What a query reads of one business unit (name, channel,     *)
(* region, whether it is there) is its entry; `Unknown' is the default     *)
(* '(sem cadastro)' of dictGetOrDefault, with dictHas = 0.                 *)
(***************************************************************************)
CONSTANTS
    Bus,       \* business units that orders refer to
    Entries,   \* what the registry may say of a business unit
    Unknown    \* what a query gets for a business unit that is not in the copy

ASSUME DictionaryAssumption == Unknown \notin Entries

VARIABLES
    registry,  \* the view: [Bus -> entry, or Unknown]
    dict       \* the copy

DictInit ==
    /\ registry = [b \in Bus |-> Unknown]
    /\ dict = registry

DictTypeOK ==
    /\ registry \in [Bus -> Entries \cup {Unknown}]
    /\ dict \in [Bus -> Entries \cup {Unknown}]

\* CDC registers a business unit, or changes it.
Register(b, e) ==
    /\ registry[b] # e
    /\ registry' = [registry EXCEPT ![b] = e]
    /\ UNCHANGED dict

\* Mutant: LIFETIME(0), the copy is loaded once and stays.
MutReloadNever == dict # registry /\ UNCHANGED <<registry, dict>>

\* The SOURCE query runs again and its result replaces the copy.
Reload ==
    /\ dict # registry
    /\ dict' = registry
    /\ UNCHANGED registry
===============================================================================
