------------------------------- MODULE Messages -------------------------------
(***************************************************************************)
(* Messages both ways: the requests a client may form, the answers it gets *)
(* to them, and the dumps of StateTypes, over every version of the schema. *)
(*                                                                         *)
(* Requests are decoded without regard to the version and to what the      *)
(* driver knows, so that they are varied from one object only.             *)
(***************************************************************************)
EXTENDS StateTypes, Results, RequestForms

VARIABLE request   \* the last request of the client

NoRequest == [command |-> Absent]

MessageInit == Init /\ request = NoRequest

MessageNext ==
    \/ request = NoRequest /\ Next /\ UNCHANGED request
    \/ /\ known = {}
       /\ request' \in Request \cup {NoRequest}
       /\ UNCHANGED vars

MessageSpec == MessageInit /\ [][MessageNext]_<<vars, request>>

\* Every answer has the keys its declared type requires, and no others than
\* the type has, at every version.  The compiler does not see it, because a
\* handler may return the result of any of its commands.
AnswersFitDeclaredType ==
    \A h \in DOMAIN Returned(version) :
        LET keys == Returned(version)[h]
            type == ResultTypes(version)[h]
        IN  type.req \subseteq keys /\ keys \subseteq type.req \cup type.opt

\* Whatever goes out, a dump or an answer, fits the type declared for it.
MessagesFitDeclaredType == FitsDeclaredType /\ AnswersFitDeclaredType

\* Whichever of its forms a client uses, also several at once, a request means
\* one thing: of the forms of one field the same one always counts, alone and
\* with the meaning it has by itself, fields that contradict each other are
\* refused, and a 0 is a value except where it names nothing.
RequestsAreUnderstood == request # NoRequest => Understood(request)

=============================================================================
