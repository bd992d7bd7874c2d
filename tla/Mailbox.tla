------------------------------ MODULE Mailbox -------------------------------
(***************************************************************************)
(* What the two programs take the command area of the shared memory for: a *)
(* place for one command, where a new one replaces one that nobody popped, *)
(* and which is empty when a gateway starts.  Databus.tla is shown to      *)
(* implement this module.                                                  *)
(***************************************************************************)
EXTENDS Naturals, Sequences

CONSTANTS Sender,   \* the control programs
          NONE      \* "no command"

VARIABLES mail,     \* the program whose command lies there
          senders,  \* the programs that may still put their command
          popped,   \* the programs whose commands were popped
          starts    \* starts of the gateway

vars == <<mail, senders, popped, starts>>

Init == mail = NONE /\ senders \subseteq Sender /\ popped = << >> /\ starts = 0

Put(c) == /\ c \in senders
          /\ mail' = c /\ senders' = senders \ {c}
          /\ UNCHANGED <<popped, starts>>

\* It was killed, found no gateway, or wrote to the memory of an earlier one.
Leave(c) == /\ c \in senders
            /\ senders' = senders \ {c}
            /\ UNCHANGED <<mail, popped, starts>>

Pop == /\ mail # NONE
       /\ popped' = Append(popped, mail) /\ mail' = NONE
       /\ UNCHANGED <<senders, starts>>

StartGateway == /\ starts' = starts + 1 /\ mail' = NONE
                /\ UNCHANGED <<senders, popped>>

Next == \/ Pop \/ StartGateway
        \/ \E c \in Sender : Put(c) \/ Leave(c)

Spec == Init /\ [][Next]_vars
=============================================================================
