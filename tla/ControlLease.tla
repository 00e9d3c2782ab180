---------------------------- MODULE ControlLease ----------------------------
(***************************************************************************)
(* What the control lease of a shared desktop promises, without sockets,   *)
(* tokens, heartbeats or mutexes: at most one client holds the desktop,    *)
(* its lease runs out unless it is renewed, a live lease is only taken     *)
(* over by an administrator from somebody who is not one, and whatever is  *)
(* held down on the local machine is held down for the present holder.     *)
(* ControlHub implements this specification.                               *)
(***************************************************************************)
EXTENDS Naturals

CONSTANTS Client,   \* the clients that may be connected
          Nobody,   \* the holder when the desktop is free
          Input,    \* keys and mouse buttons
          Span      \* ticks a lease lasts without renewal

VARIABLES holder,   \* who holds the desktop
          lease,    \* ticks left of the holder's lease
          down,     \* the inputs held down for the holder
          admin     \* the clients that are administrators at the moment

leaseVars == <<holder, lease, down, admin>>

Init == /\ holder = Nobody
        /\ lease = 0
        /\ down = {}
        /\ admin = {}

\* The desktop is free, or its lease has run out, even if c held it before.
Take(c) == /\ holder = Nobody \/ lease = 0
           /\ holder' = c
           /\ lease' = Span
           /\ down' = {}
           /\ UNCHANGED admin

Renew(c) == /\ holder = c
            /\ lease > 0
            /\ lease' = Span
            /\ UNCHANGED <<holder, down, admin>>

\* Only an administrator cuts a lease short, and never another administrator's.
Preempt(c) == /\ holder # Nobody
              /\ holder \notin admin
              /\ c \in admin
              /\ holder' = c
              /\ lease' = Span
              /\ down' = {}
              /\ UNCHANGED admin

\* A client that loses its authorization, or is given another one, loses the
\* desktop in the same step.
Drop(c) == /\ holder = c
           /\ holder' = Nobody
           /\ lease' = 0
           /\ down' = {}
           /\ admin' \in {admin, admin \cup {c}, admin \ {c}}

Press(i) == /\ holder # Nobody
            /\ down' = down \cup {i}
            /\ UNCHANGED <<holder, lease, admin>>

Lift == /\ down' \in SUBSET down
        /\ UNCHANGED <<holder, lease, admin>>

Tick == /\ lease > 0
        /\ lease' = lease - 1
        /\ UNCHANGED <<holder, down, admin>>

\* Somebody who does not hold the desktop logs in, or is authorized anew.
Requalify(c) == /\ holder # c
                /\ admin' \in {admin \cup {c}, admin \ {c}}
                /\ UNCHANGED <<holder, lease, down>>

Next == \/ \E c \in Client : Take(c) \/ Renew(c) \/ Preempt(c) \/ Drop(c)
        \/ \E c \in Client : Requalify(c)
        \/ \E i \in Input : Press(i)
        \/ Lift
        \/ Tick

Spec == Init /\ [][Next]_leaseVars

=============================================================================
