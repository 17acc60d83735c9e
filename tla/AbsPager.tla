------------------------------ MODULE AbsPager ------------------------------
(***************************************************************************)
(* What the pager promises: an address space, and pager_map() that adds to *)
(* it, run by run from the lowest address up, the translation it was asked *)
(* for, with the rights it was asked for, touching no other page.  It may  *)
(* give up halfway; it says so.                                            *)
(***************************************************************************)
EXTENDS EntryBits

CONSTANTS
  PAGE,          \* bytes of a page
  SPACE,         \* bytes of the address space, a multiple of PAGE
  Requests       \* what may be asked: [virtual, physical, size, attributes]

VARIABLES
  translation,   \* where every page is and with which rights, or Unmapped
  features,      \* what the processor has of {"gib", "nx"}
  todo,          \* what is left of the request
  served,        \* the requests that were answered with success
  status         \* "off", "idle", "mapping", "hung" or "wild"

absvars == <<translation, features, todo, served, status>>

Unmapped == [to |-> -1, rights |-> NoRights]
Pages == {a \in 0..(SPACE - 1) : a % PAGE = 0}

Offset(r, a) == (a - r.virtual) % SPACE

AbsInit ==
  /\ translation = [a \in Pages |-> Unmapped]
  /\ todo = [virtual |-> 0, physical |-> 0, size |-> 0,
              attributes |-> ReadWrite]
  /\ features \in SUBSET {"gib", "nx"} /\ served = {} /\ status = "off"

AbsCreate ==
  /\ status = "off"
  /\ status' \in {"idle", "hung"}
  /\ UNCHANGED <<translation, features, todo, served>>

AbsCall(r) ==
  /\ status = "idle"
  /\ todo' = r /\ status' = "mapping"
  /\ UNCHANGED <<translation, features, served>>

\* The next n bytes of the request.
AbsMapRun(n) ==
  /\ status = "mapping" /\ n <= todo.size
  /\ translation' = [a \in Pages |-> IF Offset(todo, a) < n
                                     THEN [to     |-> todo.physical + Offset(todo, a),
                                           rights |-> Wanted(todo.attributes, features)]
                                     ELSE translation[a]]
  /\ todo' = [todo EXCEPT !.virtual  = (@ + n) % SPACE,
                          !.physical = @ + n,
                          !.size     = @ - n]
  /\ UNCHANGED <<features, served, status>>

AbsSucceed(r) ==
  /\ status = "mapping" /\ todo.size = 0
  /\ served' = served \cup {r} /\ status' = "idle"
  /\ UNCHANGED <<translation, features, todo>>

AbsFail ==
  /\ status = "mapping" /\ todo.size > 0
  /\ status' = "idle"
  /\ UNCHANGED <<translation, features, todo, served>>

AbsNext ==
  \/ AbsCreate
  \/ \E r \in Requests : AbsCall(r) \/ AbsSucceed(r)
  \/ \E n \in Pages \ {0} : AbsMapRun(n)
  \/ AbsFail

AbsSpec == AbsInit /\ [][AbsNext]_absvars
=============================================================================
