----------------------------- MODULE MCRouting -----------------------------
(***************************************************************************)
(* Small instances of Routing: every short text over the characters that   *)
(* matter, as a configured domain with a few events, and as the sender of  *)
(* an event with one destination.                                          *)
(***************************************************************************)
EXTENDS Routing, SequencesExt

CONSTANTS sent, bounced, DomainLength, SenderLength

MCCharacters == {" ", "@", ".", "A", "a", "<", ">", ",", ";", "\""}

\* Domains as an operator may write them.
WrittenDestinations ==
  LET domains == {{}} \cup {{s} : s \in BoundedSeq({" ", "@", ".", "A"}, DomainLength)}
  IN  [from : domains, to : domains, types : {{}, {sent}}, catchAll : BOOLEAN]

\* Mailboxes of three kinds, the last one without a domain.
SomePayloads ==
  LET mailboxes == {<<"a", "@", "A">>, <<"<", "@", "a", ".", "a", ">">>, <<"a">>}
  IN  [from : mailboxes \cup {Null}, to : SUBSET mailboxes, type : {sent, bounced, Null}]

\* A destination no operator text of the others equals.
PlainDestination == [from |-> {<<"a">>}, to |-> {}, types |-> {}, catchAll |-> FALSE]

EverySender ==
  [from : BoundedSeq(MCCharacters \ {"a"}, SenderLength),
   to : {{}}, type : {sent}]

MCDestinations == WrittenDestinations \cup {PlainDestination}

\* One destination and senders with a display name in quotation marks.
QuotedDestinations == {PlainDestination}

QuotedPayloads(dest) ==
  LET mailbox(name) == <<"\"">> \o name \o <<"\"", " ", "<", "a", "@", "a", ">">>
  IN  [from : {mailbox(name) : name \in BoundedSeq({"A", "<", ">", "@"}, SenderLength)},
       to : {{}}, type : {sent}]

MCPayloads(dest) == IF dest = PlainDestination THEN EverySender ELSE SomePayloads
=============================================================================
