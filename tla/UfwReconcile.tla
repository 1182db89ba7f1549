---------------------------- MODULE UfwReconcile ----------------------------
(* internal/openport: vm.openport and update-allowlist handlers reconciling  *)
(* the UFW rules of one port with a wanted set of sources.  UFW is external: *)
(* a numbered list of rules, the IPv4 ones first.  A port stands for a port  *)
(* with its protocol; sources are numbers in the order of their strings.     *)
EXTENDS Naturals, Sequences, FiniteSets, SequencesExt

CONSTANTS
    Calls,          \* the OpenPort and UpdateAllowlist calls
    Ports,
    Sources,        \* single-host or subnet CIDRs, numbers above Any4
    V6Sources,      \* those of Sources that are IPv6
    Any6,           \* "::/0", whose string is the last of all
    MaxConcurrent   \* calls the gateway lets run at the same time

Any4  == 0          \* "0.0.0.0/0", whose string is the first of all
AllSources == Sources \cup {Any4, Any6}

ASSUME UfwAssumption ==
    /\ IsFiniteSet(Calls)
    /\ IsFiniteSet(Ports) /\ Ports \subseteq Nat \ {0}
    /\ Sources \subseteq Nat \ {Any4}
    /\ IsFiniteSet(Sources)
    /\ V6Sources \subseteq Sources
    /\ Any6 \in Nat \ {Any4}
    /\ \A s \in Sources : s < Any6
    /\ MaxConcurrent \in Nat \ {0}

VARIABLES
    rules,      \* what `ufw status numbered` lists
    pc,         \* where each call is
    arg,        \* [port, desired, update] of each call
    dels,       \* rule numbers each call has yet to delete
    adds,       \* sources each call has yet to allow
    report,     \* AddedCIDRs and RemovedCIDRs of each call's result
    start       \* its port's sources when each call began (properties only)

vars == <<rules, pc, arg, dels, adds, report, start>>

Rule   == [port : Ports, src : AllSources, v6 : BOOLEAN]
Running == {c \in Calls : pc[c] \notin {"idle", "ok", "error"}}
NoArg    == [port |-> 0, desired |-> {}, update |-> FALSE]
NoReport == [added |-> {}, removed |-> {}]
Goto(c, l) == pc' = [pc EXCEPT ![c] = l]
SourcesOf(rs, p) == {r.src : r \in {q \in Range(rs) : q.port = p}}

-----------------------------------------------------------------------------
(* ufw(8)                                                                    *)
\* An existing rule is not added again; an IPv4 rule goes before the IPv6 ones.
AddRule(rs, r) ==
    IF r \in Range(rs) THEN rs
    ELSE IF r.v6 THEN Append(rs, r)
    ELSE InsertAt(rs, Cardinality({n \in 1..Len(rs) : ~rs[n].v6}) + 1, r)

\* `ufw allow P/proto` writes a rule for each address family, and
\* `ufw allow from S to any port P` one for the family of S (FormatAddRule).
Allow(rs, p, s) ==
    IF s \in {Any4, Any6}
    THEN AddRule(AddRule(rs, [port |-> p, src |-> Any4, v6 |-> FALSE]),
                 [port |-> p, src |-> Any6, v6 |-> TRUE])
    ELSE AddRule(rs, [port |-> p, src |-> s, v6 |-> s \in V6Sources])
-----------------------------------------------------------------------------
\* ParseUFWRulesForPort: the numbers of the port's rules in the listing.
Listed(rs, p) == {n \in 1..Len(rs) : rs[n].port = p}

\* Blank and duplicate entries are gone; nothing at all means everyone.
Wanted(desired) == IF desired = {} THEN {Any4} ELSE desired

\* Mutant: every rule is deleted and none is kept.
KeptNone(rs, p, desired) == {}

\* DiffAllowlist keeps the first rule of each wanted source.
Kept(rs, p, desired) ==
    {n \in Listed(rs, p) :
        /\ rs[n].src \in Wanted(desired)
        /\ \A m \in Listed(rs, p) : m < n => rs[m].src # rs[n].src}

ToDelete(rs, p, desired) == Listed(rs, p) \ Kept(rs, p, desired)

\* Mutant: an open port needs no further rule.
AddsWhenClosed(rs, p, desired) ==
    IF Listed(rs, p) # {} THEN {} ELSE Wanted(desired)

ToAdd(rs, p, desired) == Wanted(desired) \ SourcesOf(rs, p)

\* Mutant: the numbers in the order of the listing.
LowestFirst(c) == {n \in dels[c] : \A m \in dels[c] : n <= m}

\* The numbers are returned highest first, and the sources in ascending order.
FirstToDelete(c) == {n \in dels[c] : \A m \in dels[c] : m <= n}
FirstToAdd(c) == {s \in adds[c] : \A t \in adds[c] : s <= t}

\* How `ufw status numbered` can come out: any rules, IPv4 before IPv6.
Before(q, r) ==
    \/ ~q.v6 /\ r.v6
    \/ q.v6 = r.v6 /\ q.port < r.port
    \/ q.v6 = r.v6 /\ q.port = r.port /\ q.src < r.src

Listing(set) ==
    [n \in 1..Cardinality(set) |->
        CHOOSE r \in set : Cardinality({q \in set : Before(q, r)}) = n - 1]

Init ==
    /\ \E set \in SUBSET {r \in Rule : r.v6 = (r.src \in V6Sources \cup {Any6})} :
            rules = Listing(set)
    /\ pc = [c \in Calls |-> "idle"]
    /\ arg = [c \in Calls |-> NoArg]
    /\ dels = [c \in Calls |-> {}]
    /\ adds = [c \in Calls |-> {}]
    /\ report = [c \in Calls |-> NoReport]
    /\ start = [c \in Calls |-> {}]

\* The port is valid and ufw is installed; UpdateAllowlist lists the rules once
\* more than OpenPort does.
Begin(c) ==
    /\ pc[c] = "idle"
    /\ Cardinality(Running) < MaxConcurrent
    /\ \E p \in Ports, d \in SUBSET AllSources, u \in BOOLEAN :
        /\ arg' = [arg EXCEPT ![c] = [port |-> p, desired |-> d, update |-> u]]
        /\ start' = [start EXCEPT ![c] = SourcesOf(rules, p)]
        /\ Goto(c, IF u THEN "before" ELSE "list")
    /\ UNCHANGED <<rules, dels, adds, report>>

\* UpdateAllowlist computes AddedCIDRs and RemovedCIDRs from a listing of its own.
ListBefore(c) ==
    LET p == arg[c].port
        d == arg[c].desired
    IN  /\ pc[c] = "before"
        /\ report' = [report EXCEPT ![c] =
                [added |-> ToAdd(rules, p, d),
                 removed |-> {rules[n].src : n \in ToDelete(rules, p, d)}]]
        /\ Goto(c, "list")
        /\ UNCHANGED <<rules, arg, dels, adds, start>>

\* Mutant: the plan has nothing to delete.
PlanAddsOnly(c) ==
    /\ pc[c] = "list"
    /\ adds' = [adds EXCEPT ![c] = ToAdd(rules, arg[c].port, arg[c].desired)]
    /\ Goto(c, "apply")
    /\ UNCHANGED <<rules, arg, dels, report, start>>

\* reconcile reads the rules and makes its plan.
Plan(c) ==
    /\ pc[c] = "list"
    /\ dels' = [dels EXCEPT ![c] = ToDelete(rules, arg[c].port, arg[c].desired)]
    /\ adds' = [adds EXCEPT ![c] = ToAdd(rules, arg[c].port, arg[c].desired)]
    /\ Goto(c, "apply")
    /\ UNCHANGED <<rules, arg, report, start>>

\* `ufw --force delete N`: whatever rule has the number by now.
Delete(c) ==
    /\ pc[c] = "apply"
    /\ \E n \in FirstToDelete(c) :
        /\ n <= Len(rules)
        /\ rules' = RemoveAt(rules, n)
        /\ dels' = [dels EXCEPT ![c] = @ \ {n}]
    /\ UNCHANGED <<pc, arg, adds, report, start>>

Add(c) ==
    /\ pc[c] = "apply"
    /\ dels[c] = {}
    /\ \E s \in FirstToAdd(c) :
        /\ rules' = Allow(rules, arg[c].port, s)
        /\ adds' = [adds EXCEPT ![c] = @ \ {s}]
    /\ UNCHANGED <<pc, arg, dels, report, start>>

\* The call returns, and its local variables are gone.
Return(c, l) ==
    /\ Goto(c, l)
    /\ arg' = [arg EXCEPT ![c] = NoArg]
    /\ dels' = [dels EXCEPT ![c] = {}]
    /\ adds' = [adds EXCEPT ![c] = {}]
    /\ report' = [report EXCEPT ![c] = NoReport]
    /\ start' = [start EXCEPT ![c] = {}]
    /\ UNCHANGED rules

\* The plan is carried out; the rules are read back for the answer.
Summarize(c) ==
    /\ pc[c] = "apply"
    /\ dels[c] = {}
    /\ adds[c] = {}
    /\ Return(c, "ok")

\* A ufw command fails (a number that is gone does): what was done stays done.
CommandFails(c) ==
    /\ c \in Running
    /\ Return(c, "error")

Next ==
    \E c \in Calls :
        \/ Begin(c) \/ ListBefore(c) \/ Plan(c) \/ Delete(c) \/ Add(c)
        \/ Summarize(c) \/ CommandFails(c)

Spec == Init /\ [][Next]_vars
-----------------------------------------------------------------------------
TypeOK ==
    /\ rules \in Seq(Rule)
    /\ pc \in [Calls -> {"idle", "before", "list", "apply", "ok", "error"}]
    /\ arg \in [Calls -> [port : Ports \cup {0}, desired : SUBSET AllSources,
                          update : BOOLEAN]]
    /\ dels \in [Calls -> SUBSET (Nat \ {0})]
    /\ adds \in [Calls -> SUBSET AllSources]
    /\ report \in [Calls -> [added : SUBSET AllSources, removed : SUBSET AllSources]]
    /\ start \in [Calls -> SUBSET AllSources]

IsBlanket(c) == Wanted(arg[c].desired) \cap {Any4, Any6} # {}
Blanket(c) == IF IsBlanket(c) THEN {Any4, Any6} ELSE {}

\* The step in which a call succeeds.
Succeeds(c) == pc[c] = "apply" /\ pc'[c] = "ok"

\* The step is one ufw command of the call.
Works(c) == dels'[c] # dels[c] \/ adds'[c] # adds[c]

\* "ends up with exactly `desired` sources for this port" (openport.go:118): so
\* it does for a list of single sources, whatever rules the port had and
\* whatever an earlier call left behind when it failed half-way.
NarrowsExactly ==
    [][\A c \in Calls : Succeeds(c) /\ ~IsBlanket(c) =>
            SourcesOf(rules, arg[c].port) = arg[c].desired]_vars

\* Deleting by number while the numbers shift never hits another port's rule
\* (the order DiffAllowlist returns the numbers in).
OtherPortsUntouched ==
    [][\A p \in Ports : SourcesOf(rules, p) # SourcesOf(rules', p) =>
            \E c \in Calls : arg[c].port = p /\ Works(c)]_vars

\* A source that was allowed and stays wanted is never cut off in between.
WantedStaysOpen ==
    \A c \in Running :
        start[c] \cap Wanted(arg[c].desired) \subseteq SourcesOf(rules, arg[c].port)

\* Nor does a call ever admit anybody who was neither allowed before nor is
\* wanted: the short form, which is for everyone (FormatAddRule), is only for them.
NeverWidens ==
    \A c \in Running :
        SourcesOf(rules, arg[c].port) \subseteq
            start[c] \cup Wanted(arg[c].desired) \cup Blanket(c)

\* Calls that overlap may close what another one wants open, or hit another
\* port; but whatever they do to the rules' numbers, none opens a port to
\* anybody whom no call for that port wants.
OpensOnlyWanted ==
    [][\A p \in Ports, s \in AllSources :
        s \in SourcesOf(rules', p) \ SourcesOf(rules, p) =>
            \E c \in Running :
                /\ arg[c].port = p
                /\ s \in Wanted(arg[c].desired) \cup Blanket(c)]_vars

\* AddedCIDRs and RemovedCIDRs say what a successful UpdateAllowlist did to the
\* port, up to the second address family of a blanket rule.
ReportIsDelta ==
    [][\A c \in Calls : Succeeds(c) /\ arg[c].update =>
        LET after == (start[c] \ report[c].removed) \cup report[c].added
        IN  /\ after \subseteq SourcesOf(rules, arg[c].port)
            /\ SourcesOf(rules, arg[c].port) \subseteq
                    after \cup Blanket(c)]_vars
-----------------------------------------------------------------------------
\* The rules as the allowlists they stand for, and calls as those who made
\* them see them.
AllowedOn == [p \in Ports |-> SourcesOf(rules, p)]

NoRequest == [port |-> 0, wanted |-> {}]

Request(c) ==
    IF c \in Running
    THEN [port |-> arg[c].port, wanted |-> Wanted(arg[c].desired)]
    ELSE NoRequest

Outcome(c) ==
    CASE pc[c] = "idle"  -> "none"
      [] pc[c] = "ok"    -> "done"
      [] pc[c] = "error" -> "failed"
      [] OTHER           -> "pending"

Asked == [c \in Calls |-> Request(c)]
Outcomes == [c \in Calls |-> Outcome(c)]

Allowlist == INSTANCE PortAllowlist WITH
    Sources  <- AllSources,
    Everyone <- {Any4, Any6},
    Nothing  <- NoRequest,
    allowed  <- AllowedOn,
    asked    <- Asked,
    outcome  <- Outcomes

\* Calls that come one after the other implement PortAllowlist: renumbered
\* deletions and the short form of everyone amount to withdrawing what is not
\* wanted and admitting what is missing, on the call's port and no other, and
\* success to having both done (openport.go:118-159).
KeepsAllowlists == Allowlist!AllowlistSpec
=============================================================================
