------------------------------ MODULE HostName ------------------------------
(***************************************************************************)
(* Host names and the host-owned domain rule (spec/v0.1.md section 2), as  *)
(* scripts/verify-host-domain.mjs, verify.html and verify-receipt.html     *)
(* implement it, and the rule that an issuer is not its own log operator   *)
(* (sameOperator, in lib/vrp-tlog.mjs and verify-receipt.html).            *)
(*                                                                         *)
(* A name is the sequence of its labels: villa.example.com is              *)
(* <<"villa", "example", "com">>.  The Public Suffix List and ICANN's      *)
(* gTLD list are constants: what a loaded copy of each says.               *)
(***************************************************************************)
EXTENDS Integers, SequencesExt

CONSTANTS
  ALabel,     \* labels in lowercase ASCII A-label form
  Rules,      \* the ICANN section of the list: records [ex, labels]
  BrandTlds   \* top-level domains marked specification13 in ICANN's list

ASSUME RulesAssumption ==
  \A r \in Rules : r.ex \in BOOLEAN /\ r.labels \in Seq(STRING) /\ r.labels # <<>>

\* Two rules that can match one name, their labels compared from the end.
Compatible(q, r) ==
  \A i \in 0 .. Len(q.labels) - 1 :
    LET a == q.labels[Len(q.labels) - i]
        b == r.labels[Len(r.labels) - i]
    IN  i < Len(r.labels) => a = b \/ a = "*" \/ b = "*"

\* The list excepts a name from a wildcard once: no two exceptions fit one name.
\* Among several the script takes the first and the pages the last.
ASSUME ExceptionsAssumption ==
  \A q, r \in Rules : q.ex /\ r.ex /\ Compatible(q, r) => q = r

\* Closed top-level domains named by the standard (CLOSED_TLDS).
ClosedTlds == {"booking", "hotels"}

\* .replace(/^www\./, ""), applied to every name the receipt states.
StripWww(name) == IF Len(name) > 1 /\ name[1] = "www" THEN Tail(name) ELSE name

-----------------------------------------------------------------------------
\* A rule matches when its labels are the last labels of the name; "*" stands
\* for any one label.
Matches(rule, name) ==
  LET off == Len(name) - Len(rule.labels)
  IN  /\ off >= 0
      /\ \A i \in DOMAIN rule.labels : rule.labels[i] \in {"*", name[off + i]}

\* Mutant: the longest match prevails over an exception.
publicSuffixLengthLongest(name) ==
  LET lengths == {Len(r.labels) : r \in {q \in Rules : Matches(q, name)}} \cup {1}
  IN  CHOOSE n \in lengths : \A m \in lengths : m <= n

\* The number of labels of the public suffix: an exception rule prevails, else
\* the longest matching rule, else the default rule "*".
publicSuffixLength(name) ==
  LET matches   == {r \in Rules : Matches(r, name)}
      exception == {r \in matches : r.ex}
      lengths   == {Len(r.labels) : r \in matches} \cup {1}
  IN  IF exception # {}
      THEN Len((CHOOSE r \in exception : TRUE).labels) - 1
      ELSE CHOOSE n \in lengths : \A m \in lengths : m <= n

\* The suffix and one label more; <<>> when the name is itself a suffix.
registrableDomain(name) ==
  LET n == publicSuffixLength(name)
  IN  IF Len(name) > n THEN SubSeq(name, Len(name) - n, Len(name)) ELSE <<>>

WellFormedName(name) == name # <<>> /\ \A i \in DOMAIN name : name[i] \in ALabel

\* hostOwned and checkHostOwned: the name is its own registrable domain and its
\* top-level domain is neither a brand nor closed.
HostOwned(name) ==
  /\ WellFormedName(name)
  /\ registrableDomain(name) = name
  /\ name[Len(name)] \notin BrandTlds \cup ClosedTlds

-----------------------------------------------------------------------------
\* The host a did:web identifier names, as the string that decoding leaves: the
\* labels of a name, then possibly the final dot of a fully qualified name, then
\* possibly ":port" (written %3A in the identifier).
LogHost(name, dot, port) == [name |-> name, dot |-> dot, port |-> port]

sameOperatorExact(host, domain) ==   \* mutant: a log on a subdomain is another's
  ~host.dot /\ ~host.port /\ StripWww(host.name) = StripWww(domain)

\* Same domain, or one inside the other, compared as strings: a host string that
\* ends in "." or in ":port" equals no domain and ends in none, and no domain ends
\* in it.
sameOperator(host, domain) ==
  LET a == StripWww(host.name)
      b == StripWww(domain)
  IN  /\ a # <<>> /\ b # <<>>
      /\ ~host.dot /\ ~host.port
      /\ IsSuffix(a, b) \/ IsSuffix(b, a)

-----------------------------------------------------------------------------
\* The registrable domain of a name is its own registrable domain, whatever rules
\* the list holds: every name leads to at most one owner's domain, and a node at
\* that domain is judged to own it.
RegistrableIsStable(name) ==
  LET owner == registrableDomain(name)
  IN  owner # <<>> => registrableDomain(owner) = owner

\* A log anywhere on the domain of an issuer counts as the issuer's own when its
\* identifier writes the bare name: of bare names, the suffix comparison of strings
\* agrees with the list.
OwnLogIsCaught(name, domain) ==
  HostOwned(domain) /\ registrableDomain(name) = domain =>
    sameOperator(LogHost(name, FALSE, FALSE), domain)
=============================================================================
