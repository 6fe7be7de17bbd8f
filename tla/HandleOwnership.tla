-------------------------- MODULE HandleOwnership --------------------------
(***************************************************************************)
(* What the class PCSC promises about the card handles of the service, the *)
(* service and the calls left out: a handle belongs to the object that     *)
(* opened it, only a move passes it on, and only its owner closes it.  One *)
(* thing is not promised: an object that is connecting may lose the handle *)
(* it has.  A lost handle belongs to nobody, for good, until someone       *)
(* releases the context it is in.                                          *)
(***************************************************************************)
CONSTANTS Objects, Handles

VARIABLES
  owners,      \* open handle -> the objects that will close it
  connecting   \* objects that are trying to connect

ownership == <<owners, connecting>>

Of(p) == {h \in DOMAIN owners : owners[h] = {p}}
Lost == {h \in DOMAIN owners : owners[h] = {}}

OwnInit == owners = <<>> /\ connecting = {}

(* The object begins to connect. *)
Begin(p) ==
  /\ p \notin connecting /\ connecting' = connecting \cup {p}
  /\ UNCHANGED owners

(* It opens handles, none or one, and what it had may be lost. *)
Try(p) ==
  /\ p \in connecting /\ connecting' \in {connecting, connecting \ {p}}
  /\ \E new \in {{}} \cup {{h} : h \in Handles \ DOMAIN owners}, lost \in SUBSET Of(p) :
       owners' = [h \in DOMAIN owners \cup new |->
                    IF h \in new THEN {p} ELSE IF h \in lost THEN {} ELSE owners[h]]

(* It closes what it has, and what nobody has. *)
Close(p) ==
  /\ p \notin connecting /\ UNCHANGED connecting
  /\ \E closed \in SUBSET (Of(p) \cup Lost) :
       owners' = [h \in DOMAIN owners \ closed |-> owners[h]]

(* It closes all that it has and takes over what another has. *)
Take(p, q) ==
  /\ p # q /\ {p, q} \cap connecting = {} /\ UNCHANGED connecting
  /\ \E closed \in SUBSET (Of(p) \cup Lost) :
       /\ Of(p) \subseteq closed
       /\ owners' = [h \in DOMAIN owners \ closed |-> IF h \in Of(q) THEN {p} ELSE owners[h]]

OwnNext == \E p \in Objects : Begin(p) \/ Try(p) \/ Close(p) \/ \E q \in Objects : Take(p, q)

OwnSpec == OwnInit /\ [][OwnNext]_ownership
=============================================================================
