------------------------------ MODULE Routing ------------------------------
(***************************************************************************)
(* How an event finds its destinations: DestinationConfig::validate of     *)
(* src/config.rs, the normalisation and matching of src/router.rs, and the *)
(* domains parse_event_for_routing of src/resend.rs reads off an event.    *)
(*                                                                         *)
(* A text is a sequence of characters, each one of the kinds the code      *)
(* tells apart; "A" and "a" stand for the letters.  Names, URLs and event  *)
(* ids play no part in the match.                                          *)
(***************************************************************************)
EXTENDS Naturals, Sequences, FiniteSetsExt

CONSTANTS
  Characters,     \* the characters of a text
  Destinations,   \* what an operator may write: from, to, types and catchAll
  Payloads(_),    \* what an event may carry when it meets the destination: from, to and type
  Null            \* None, a field that is absent or not a string

Texts == Seq(Characters)

ASSUME RoutingAssumption ==
  /\ "a" \in Characters /\ Null \notin Texts
  /\ \A dest \in Destinations :
       /\ dest.from \subseteq Texts /\ dest.to \subseteq Texts
       /\ dest.catchAll \in BOOLEAN
       /\ \A p \in Payloads(dest) : p.from \in Texts \cup {Null} /\ p.to \subseteq Texts

VARIABLES
  raw,            \* the destination in DESTINATIONS_JSON
  route,          \* the destination in RouteMatcher, or Null
  payload,        \* the fields of the event's body, or Null
  matched         \* the destination's delivery is enqueued

vars == <<raw, route, payload, matched>>

-----------------------------------------------------------------------------
(* Texts. *)

TrimStart(s, char) ==
  LET kept == {i \in DOMAIN s : s[i] # char}
  IN  IF kept = {} THEN <<>> ELSE SubSeq(s, Min(kept), Len(s))

TrimEnd(s, char) ==
  LET kept == {i \in DOMAIN s : s[i] # char}
  IN  IF kept = {} THEN <<>> ELSE SubSeq(s, 1, Max(kept))

TrimBoth(s, char) == TrimEnd(TrimStart(s, char), char)

Lower(s) == [i \in DOMAIN s |-> IF s[i] = "A" THEN "a" ELSE s[i]]

\* The part before the first character of a set, or all of it.
Before(s, chars) ==
  LET at == {i \in DOMAIN s : s[i] \in chars}
  IN  IF at = {} THEN s ELSE SubSeq(s, 1, Min(at) - 1)

-----------------------------------------------------------------------------
(* Configuration: src/config.rs and src/router.rs. *)

\* Mutant of Bare: white space is trimmed once more at the end.
BareTrimmedLast(s) == TrimBoth(TrimEnd(TrimStart(TrimBoth(s, " "), "@"), "."), " ")

\* The trims of normalize_domain.
Bare(s) == TrimEnd(TrimStart(TrimBoth(s, " "), "@"), ".")

\* normalize_domain and the filter_map over its None, here the empty text.
NormalizeDomains(domains) == {Lower(Bare(s)) : s \in domains} \ {<<>>}

\* validate_domains has the same trims of its own.
IsEmptyDomain(s) == TrimEnd(TrimStart(TrimBoth(s, " "), "@"), ".") = <<>>

HasCriteria(dest) ==
  dest.catchAll \/ dest.from # {} \/ dest.to # {} \/ dest.types # {}

\* DestinationConfig::validate, as far as routing goes: its checks of the name, of the
\* URL and of empty event types restrict what an operator may write and are left out.
IsValid(dest) ==
  /\ HasCriteria(dest)
  /\ \A s \in dest.from \cup dest.to : ~IsEmptyDomain(s)

Normalize(dest) ==
  [from |-> NormalizeDomains(dest.from), to |-> NormalizeDomains(dest.to),
   types |-> dest.types, catchAll |-> dest.catchAll]

-----------------------------------------------------------------------------
(* Events: src/resend.rs. *)

\* The text between the first "<" and the next ">", or the end; without a "<" all.
Angled(s) ==
  LET open == {i \in DOMAIN s : s[i] = "<"}
  IN  IF open = {} THEN s ELSE Before(SubSeq(s, Min(open) + 1, Len(s)), {">"})

\* Mutant of AfterAt: find for rfind.
AfterFirstAt(s) ==
  LET at == {i \in DOMAIN s : s[i] = "@"}
  IN  IF at = {} THEN <<>> ELSE SubSeq(s, Min(at) + 1, Len(s))

\* What follows the last "@", or the empty text.
AfterAt(s) ==
  LET at == {i \in DOMAIN s : s[i] = "@"}
  IN  IF at = {} THEN <<>> ELSE SubSeq(s, Max(at) + 1, Len(s))

\* Mutant of DomainText: the trailing dot of a domain stays.
DomainTextDotted(s) ==
  Lower(Before(TrimBoth(TrimBoth(TrimBoth(s, " "), ">"), ";"), {",", " "}))

\* The trims of the text after the last "@".
DomainText(s) ==
  Lower(TrimEnd(Before(TrimBoth(TrimBoth(TrimBoth(s, " "), ">"), ";"), {",", " "}), "."))

\* extract_email_domain.
ExtractEmailDomain(s) ==
  LET candidate == TrimBoth(TrimBoth(TrimBoth(Angled(TrimBoth(s, " ")), " "), "\""), "'")
      domain == DomainText(AfterAt(candidate))
  IN  IF domain = <<>> THEN Null ELSE domain

FromDomain(p) == IF p.from = Null THEN Null ELSE ExtractEmailDomain(p.from)

\* extract_domains_from_value: addresses without a domain are passed over.
ToDomains(p) == {ExtractEmailDomain(s) : s \in p.to} \ {Null}

\* destination_matches with its early returns.
Matches(dest, p) ==
  \/ dest.catchAll
  \/ /\ dest.types # {} => p.type \in dest.types
     /\ dest.from # {} => FromDomain(p) \in dest.from
     /\ dest.to # {} => ToDomains(p) \cap dest.to # {}

-----------------------------------------------------------------------------

Init ==
  /\ raw \in Destinations
  /\ route = Null /\ payload = Null /\ matched = FALSE

\* Config::validate accepts the destination and RouteMatcher::new stores it.
Load ==
  /\ route = Null
  /\ IsValid(raw)
  /\ route' = Normalize(raw)
  /\ UNCHANGED <<raw, payload, matched>>

\* resend_webhook parses a verified event and matches it.
Route ==
  /\ route # Null
  /\ payload = Null
  /\ payload' \in Payloads(raw)
  /\ matched' = Matches(route, payload')
  /\ UNCHANGED <<raw, route>>

Next == Load \/ Route

Spec == Init /\ [][Next]_vars

-----------------------------------------------------------------------------
(* Properties. *)

Repeats(s, first, last, char) == \A i \in first .. last : s[i] = char

\* How an operator may write the domain d so that normalize_domain takes it for d: with
\* white space around it, any number of @ before it and any number of dots after it.
\* That is wider than README "exact after lowercasing and trimming a leading @", which
\* does not let "a." or "@@a" stand for a.
Names(s, d) ==
  \E k \in 0 .. Len(s) - Len(d) :
    /\ Lower(SubSeq(s, k + 1, k + Len(d))) = d
    /\ \E m \in 0 .. k : Repeats(s, 1, m, " ") /\ Repeats(s, m + 1, k, "@")
    /\ \E n \in k + Len(d) .. Len(s) :
         Repeats(s, k + Len(d) + 1, n, ".") /\ Repeats(s, n + 1, Len(s), " ")

Domains(p) == (ToDomains(p) \cup {FromDomain(p)}) \ {Null}

\* A criterion that is not configured excludes nothing.
Satisfied(texts, domains) ==
  texts = {} \/ \E s \in texts, d \in domains : Names(s, d)

\* README "Matching semantics are additive": an event is delivered exactly where the
\* operator's own text asks for it, read as router.rs normalize_domain does (Names).
\* Above all no criterion is lost on the way: a list that normalize_destination emptied
\* would match every event.
RoutesAsConfigured ==
  payload # Null =>
    (matched <=>
       \/ raw.catchAll
       \/ /\ raw.types = {} \/ payload.type \in raw.types
          /\ Satisfied(raw.from, {FromDomain(payload)} \ {Null})
          /\ Satisfied(raw.to, ToDomains(payload)))

\* A domain read off an event by resend.rs is in the form router.rs gives the
\* configured ones; the exact comparison would else never hold.
ExtractedIsNormal ==
  payload # Null => NormalizeDomains(Domains(payload)) = Domains(payload)

IsDomain(s) == s # <<>> /\ Range(s) \subseteq {"a", "A", "."} /\ s[Len(s)] # "."

\* The domain of "local@domain", where no "<" comes before the @, and of
\* "name <local@domain>" is found, however long its parts are.  The name may hold
\* anything but "<", the local part anything but ">": extract_email_domain of resend.rs
\* reads the first pair of angle brackets (see SenderDomainIsExtracted).
MailboxDomainIsExtracted ==
  payload # Null /\ payload.from # Null =>
    LET s == payload.from
    IN  \A k \in {i \in DOMAIN s : s[i] = "@"} :
          LET bare == SubSeq(s, k + 1, Len(s))
              angled == SubSeq(s, k + 1, Len(s) - 1)
          IN  /\ IsDomain(bare) /\ (\A i \in 1 .. k - 1 : s[i] # "<")
                   => FromDomain(payload) = Lower(bare)
              /\ \A o \in 1 .. k - 1 :
                   /\ s[o] = "<" /\ \A i \in 1 .. o - 1 : s[i] # "<"
                   /\ \A i \in o + 1 .. k - 1 : s[i] # ">"
                   /\ IsDomain(angled) /\ s[Len(s)] = ">"
                   => FromDomain(payload) = Lower(angled)

\* What stands before position o is a display name in quotation marks and a space.
QuotedNameBefore(s, o) ==
  /\ o > 3
  /\ s[1] = "\"" /\ s[o - 2] = "\"" /\ s[o - 1] = " "
  /\ \A i \in 2 .. o - 3 : s[i] # "\""

\* README "the sender domain extracted from `data.from`": that of a mailbox with a quoted
\* display name, whatever is quoted.  It is not found when angle brackets are quoted,
\* as in "Sales <EU>" <hello@example.com>: resend.rs extract_email_domain takes EU for the address.
SenderDomainIsExtracted ==
  payload # Null /\ payload.from # Null =>
    LET s == payload.from
    IN  \A o, k \in DOMAIN s :
          LET domain == SubSeq(s, k + 1, Len(s) - 1)
          IN  /\ QuotedNameBefore(s, o)
              /\ s[o] = "<" /\ s[k] = "@" /\ s[Len(s)] = ">"
              /\ o < k /\ \A i \in o + 1 .. k - 1 : s[i] \in {"a", "A", "."}
              /\ IsDomain(domain)
              => FromDomain(payload) = Lower(domain)
=============================================================================
