----------------------------- MODULE MCWebhook -----------------------------
(* Webhook with a payload of two events, and two that are refused. *)
EXTENDS Webhook

Entry(changes, messaging) == [changes |-> changes, messaging |-> messaging]

\* A comment in one entry, a message in the next.
Mixed == <<Entry(<<"c1">>, <<>>), Entry(<<>>, <<"m1">>)>>
\* One change it can read, one it cannot.
Broken == <<Entry(<<"c3">>, <<"null">>)>>
Foreign == <<Entry(<<"c4">>, <<>>)>>

MCPayloads == {"mixed", "broken", "unsigned"}
MCSigned == MCPayloads \ {"unsigned"}

MCEntries ==
    [p \in MCPayloads |-> CASE p = "mixed" -> Mixed
                            [] p = "broken" -> Broken
                            [] p = "unsigned" -> Foreign]

\* Often enough for what may fail, and for what is refused each time.
MCDeliveries ==
    [p \in MCPayloads |-> CASE p = "mixed" -> 3 [] p = "broken" -> 2 [] OTHER -> 1]

MCMalformed == {"null"}
=============================================================================
