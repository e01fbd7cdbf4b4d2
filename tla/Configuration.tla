---------------------------- MODULE Configuration ----------------------------
(***************************************************************************)
(* `config::load`: the parse of a KDL document into a Config and its       *)
(* validation (src/src/config).  A document is a sequence of nodes; a node *)
(* has a name, arguments, properties and children.  The strings in it are  *)
(* values, and what the code asks of their characters are sets of them.    *)
(* All messages of ConfigError::Invalid are one: the first defect found    *)
(* ends the load, and which of several it is makes no difference here.     *)
(***************************************************************************)
EXTENDS HttpOrigin

CONSTANTS
    Documents,      \* the files considered
    NonStrings,     \* arguments and properties that are no string
    VersionOne,     \* the integer 1
    Dashed,         \* strings that begin with '-'
    WithNul,        \* strings with a NUL byte
    WithEquals,     \* strings with a '='
    NoExecutable,   \* empty, or with white space or a character of a shell
    NoToken,        \* empty, or with a character no header name may have
    LowerCase,      \* header names in lower case
    OnePlaceholder, \* templates with exactly one {}
    NoHeaderText    \* strings that leave printable ASCII

IsSequence(s) == Len(s) \in Nat /\ DOMAIN s = 1..Len(s)

\* The nodes of a document and of a node are sequences, down to the settings.
ASSUME DocumentsAssumption ==
    \A d \in Documents :
        /\ IsSequence(d)
        /\ \A r \in DOMAIN d :
              /\ IsSequence(d[r].children)
              /\ \A s \in DOMAIN d[r].children :
                    LET entries == d[r].children[s].children IN
                    /\ IsSequence(entries)
                    /\ \A n \in DOMAIN entries :
                          /\ IsSequence(entries[n].children)
                          /\ \A k \in DOMAIN entries[n].children :
                                IsSequence(entries[n].children[k].children)

VARIABLES
    document,       \* what the file holds; it does not change
    phase,          \* "reading", "parsing", the list being validated,
                    \* "accepted", "rejected" or "unreadable"
    section, index, \* the section, and the node or entry, that come next
    config          \* what has been parsed so far

vars == <<document, phase, section, index, config>>

Lists    == {"providers", "contexts", "policies"}
Sections == document[1].children

Init ==
    /\ document \in Documents
    /\ phase = "reading" /\ section = 1 /\ index = 1
    /\ config = [l \in Lists |-> <<>>]

-----------------------------------------------------------------------------
(* Nodes.                                                                  *)

Strings(node)   == \A i \in DOMAIN node.args : node.args[i] \notin NonStrings
Single(node)    == Strings(node) /\ Len(node.args) = 1
Has(node, name) == name \in DOMAIN node.props /\ node.props[name] \notin NonStrings

\* The children of that name, in their order: SelectSeq, written out so that it
\* can be reasoned about.
Children(node, name) ==
    LET kept[i \in 0..Len(node.children)] ==
          IF i = 0 THEN <<>>
          ELSE IF node.children[i].name = name THEN Append(kept[i - 1], node.children[i])
          ELSE kept[i - 1]
    IN kept[Len(node.children)]

\* A setting that is declared once, and the one that is required.
AtMostOnce(node, name) == Len(Children(node, name)) <= 1
Once(node, name)       == Len(Children(node, name)) = 1
OnlyKnown(node, names) == \A i \in DOMAIN node.children : node.children[i].name \in names
SettingOf(node, name)  == Children(node, name)[1].args[1]

-----------------------------------------------------------------------------
(* The three layers: what parses, and what it parses to.                   *)

AccessTokenParses(node) ==
    /\ Len(node.children) = 1 /\ node.children[1].name = "exec"
    /\ Strings(node.children[1]) /\ node.children[1].args # <<>>

ProviderParses(node) ==
    /\ node.name = "bws" /\ Single(node)
    /\ OnlyKnown(node, {"project", "access-token"})
    /\ Once(node, "project") /\ Single(Children(node, "project")[1])
    /\ Once(node, "access-token") /\ AccessTokenParses(Children(node, "access-token")[1])

ProviderOf(node) ==
    [id |-> node.args[1], project |-> SettingOf(node, "project"),
     program |-> Children(node, "access-token")[1].children[1].args]

Runtime(node) ==
    IF Once(node, "runtime") THEN SettingOf(node, "runtime") ELSE "docker"

ContextParses(node) ==
    /\ node.name = "docker" /\ Single(node)
    /\ OnlyKnown(node, {"runtime", "user", "workdir", "container-name"})
    /\ \A i \in DOMAIN node.children : Single(node.children[i])
    /\ AtMostOnce(node, "runtime") /\ Runtime(node) \notin NoExecutable
    /\ Once(node, "user") /\ Once(node, "workdir") /\ Once(node, "container-name")

ContextOf(node) ==
    [id |-> node.args[1], runtime |-> Runtime(node),
     user |-> SettingOf(node, "user"), workdir |-> SettingOf(node, "workdir"),
     container |-> SettingOf(node, "container-name")]

SecretParses(node) == Single(node) /\ Has(node, "provider") /\ Has(node, "secret-name")

SingleSettings == {"provider", "secret-name", "upstream", "base-url-env"}

ProxySecretParses(node) ==
    /\ Single(node)
    /\ OnlyKnown(node, SingleSettings \cup {"inject-header"})
    /\ \A name \in SingleSettings :
          Once(node, name) /\ Single(Children(node, name)[1])
    /\ Once(node, "inject-header")
    /\ LET header == Children(node, "inject-header")[1] IN
       Strings(header) /\ Len(header.args) = 2

PolicyParses(node) ==
    /\ node.name = "command" /\ Single(node)
    /\ \A i \in DOMAIN node.children :
          LET child == node.children[i] IN
          \/ child.name = "secret" /\ SecretParses(child)
          \/ child.name = "proxy-secret" /\ ProxySecretParses(child)

PolicyOf(node) ==
    LET direct  == Children(node, "secret")
        proxied == Children(node, "proxy-secret")
    IN [id |-> node.args[1],
        secrets |-> [i \in DOMAIN direct |->
            [env |-> direct[i].args[1], provider |-> direct[i].props["provider"],
             name |-> direct[i].props["secret-name"]]],
        proxied |-> [i \in DOMAIN proxied |->
            LET x == proxied[i] IN
            [env |-> x.args[1], provider |-> SettingOf(x, "provider"),
             name |-> SettingOf(x, "secret-name"), upstream |-> SettingOf(x, "upstream"),
             base |-> SettingOf(x, "base-url-env"),
             header |-> SettingOf(x, "inject-header"),
             template |-> Children(x, "inject-header")[1].args[2]]]]

\* Upstreams are texts.
ASSUME UpstreamsAssumption ==
    \A d \in Documents : \A r \in DOMAIN d : \A s \in DOMAIN d[r].children :
        d[r].children[s].name = "policies" =>
            \A n \in DOMAIN d[r].children[s].children :
                LET entry == d[r].children[s].children[n] IN
                \A k \in DOMAIN entry.children : \A m \in DOMAIN entry.children[k].children :
                    LET setting == entry.children[k].children[m] IN
                    setting.name = "upstream" /\ Single(setting) => setting.args[1] \in Seq(Pieces)

Parses(l, node) ==
    CASE l = "providers" -> ProviderParses(node)
      [] l = "contexts"  -> ContextParses(node)
      [] OTHER           -> PolicyParses(node)

Parsed(l, node) ==
    CASE l = "providers" -> ProviderOf(node)
      [] l = "contexts"  -> ContextOf(node)
      [] OTHER           -> PolicyOf(node)

-----------------------------------------------------------------------------
(* Validation of one entry.                                                *)

\* Faulty: only the commands are checked for a dash.
FaultyContextIsSound(c) ==
    /\ c.container # ""
    /\ {c.user, c.workdir, c.container} \cap WithNul = {}

\* The container name fills the first positional slot of the argv.
ContextIsSound(c) ==
    /\ c.container # "" /\ c.container \notin Dashed
    /\ {c.user, c.workdir, c.container} \cap WithNul = {}

CommandIsSound(id) == id # "" /\ id \notin Dashed \cup WithNul

IsEnvName(name) == name # "" /\ name \notin Dashed \cup WithEquals \cup WithNul

\* What a policy declares: the name of every secret, and both of a proxied one.
Declarations(p) ==
    ({"secret"} \X DOMAIN p.secrets) \cup ({"phantom", "url"} \X DOMAIN p.proxied)

EnvOf(p, d) ==
    CASE d[1] = "secret"  -> p.secrets[d[2]].env
      [] d[1] = "phantom" -> p.proxied[d[2]].env
      [] d[1] = "url"     -> p.proxied[d[2]].base

\* Faulty: the `base-url-env` names have a scope of their own.
FaultyNamesAreSound(p) ==
    \A d \in Declarations(p) :
        /\ IsEnvName(EnvOf(p, d))
        /\ \A e \in Declarations(p) :
              EnvOf(p, d) = EnvOf(p, e) => d = e \/ (d[1] = "url") # (e[1] = "url")

\* One scope for all of them: `declare_env_name` fails on a name it has seen.
NamesAreSound(p) ==
    \A d \in Declarations(p) :
        /\ IsEnvName(EnvOf(p, d))
        /\ \A e \in Declarations(p) : EnvOf(p, d) = EnvOf(p, e) => d = e

References(p) ==
    {p.secrets[i].provider : i \in DOMAIN p.secrets}
        \cup {p.proxied[i].provider : i \in DOMAIN p.proxied}

ProxyOwned == {"host", "content-length", "transfer-encoding", "connection"}

\* Faulty: header names are compared as they are spelled.
FaultyProxiedIsSound(x) ==
    /\ IsHttpOrigin(x.upstream)
    /\ x.header \notin NoToken \cup ProxyOwned
    /\ x.template \in OnePlaceholder \ NoHeaderText

ProxiedIsSound(x) ==
    /\ IsHttpOrigin(x.upstream)
    /\ x.header \notin NoToken /\ LowerCase[x.header] \notin ProxyOwned
    /\ x.template \in OnePlaceholder \ NoHeaderText

\* What one entry tells without the others.
IsSound(l, entry) ==
    CASE l = "providers" -> TRUE
      [] l = "contexts"  -> ContextIsSound(entry)
      [] OTHER -> /\ CommandIsSound(entry.id) /\ NamesAreSound(entry)
                  /\ \A i \in DOMAIN entry.proxied : ProxiedIsSound(entry.proxied[i])

\* Config::provider, context and policy: the first of that identifier.
Lookup(l, id) ==
    {i \in DOMAIN config[l] : /\ config[l][i].id = id
                              /\ \A j \in 1..(i - 1) : config[l][j].id # id}

\* Faulty: the providers of proxied secrets are not looked up.
FaultyEntryIsValid(l, i) ==
    /\ \A j \in 1..(i - 1) : config[l][j].id # config[l][i].id
    /\ IsSound(l, config[l][i])
    /\ l = "policies" =>
          \A n \in DOMAIN config[l][i].secrets :
              Lookup("providers", config[l][i].secrets[n].provider) # {}

EntryIsValid(l, i) ==
    /\ \A j \in 1..(i - 1) : config[l][j].id # config[l][i].id
    /\ IsSound(l, config[l][i])
    /\ l = "policies" =>
          \A id \in References(config[l][i]) : Lookup("providers", id) # {}

-----------------------------------------------------------------------------
(* The load.                                                               *)

Goes(from, to) == phase = from /\ phase' = to

\* The file cannot be read, or is no KDL.
LoadFails == Goes("reading", "unreadable") /\ UNCHANGED <<document, section, index, config>>

RootIsValid ==
    /\ Len(document) = 1 /\ document[1].name = "iwaya"
    /\ "version" \in DOMAIN document[1].props
    /\ document[1].props["version"] = VersionOne

ReadRoot ==
    /\ RootIsValid
    /\ Goes("reading", "parsing") /\ UNCHANGED <<document, section, index, config>>

RejectRoot ==
    /\ ~RootIsValid
    /\ Goes("reading", "rejected") /\ UNCHANGED <<document, section, index, config>>

RejectSection ==
    /\ phase = "parsing" /\ section \in DOMAIN Sections
    /\ Sections[section].name \notin Lists
    /\ phase' = "rejected" /\ UNCHANGED <<document, section, index, config>>

\* The node that comes next is one of list l.
At(l) ==
    /\ phase = "parsing" /\ section \in DOMAIN Sections
    /\ Sections[section].name = l /\ index \in DOMAIN Sections[section].children

Node == Sections[section].children[index]

ParseNode(l) ==
    /\ At(l) /\ Parses(l, Node)
    /\ config' = [config EXCEPT ![l] = Append(@, Parsed(l, Node))]
    /\ index' = index + 1
    /\ UNCHANGED <<document, phase, section>>

RejectNode(l) ==
    /\ At(l) /\ ~Parses(l, Node)
    /\ phase' = "rejected" /\ UNCHANGED <<document, section, index, config>>

NextSection ==
    /\ phase = "parsing" /\ section \in DOMAIN Sections
    /\ Sections[section].name \in Lists
    /\ index = Len(Sections[section].children) + 1
    /\ section' = section + 1 /\ index' = 1
    /\ UNCHANGED <<document, phase, config>>

EndOfSections ==
    /\ Goes("parsing", "providers") /\ index' = 1
    /\ section = Len(Sections) + 1
    /\ UNCHANGED <<document, section, config>>

CheckEntry(l) ==
    /\ phase = l /\ index \in DOMAIN config[l] /\ EntryIsValid(l, index)
    /\ index' = index + 1
    /\ UNCHANGED <<document, phase, section, config>>

RejectEntry(l) ==
    /\ phase = l /\ index \in DOMAIN config[l] /\ ~EntryIsValid(l, index)
    /\ phase' = "rejected" /\ UNCHANGED <<document, section, index, config>>

ListAfter(l) == CASE l = "providers" -> "contexts"
              [] l = "contexts"  -> "policies"
              [] OTHER           -> "accepted"

NextList(l) ==
    /\ index = Len(config[l]) + 1
    /\ Goes(l, ListAfter(l)) /\ index' = 1
    /\ UNCHANGED <<document, section, config>>

Next ==
    \/ LoadFails \/ ReadRoot \/ RejectRoot \/ RejectSection \/ NextSection \/ EndOfSections
    \/ \E l \in Lists : ParseNode(l) \/ RejectNode(l)
    \/ \E l \in Lists : CheckEntry(l) \/ RejectEntry(l) \/ NextList(l)

Spec == Init /\ [][Next]_vars

-----------------------------------------------------------------------------
(* Properties.                                                             *)

TypeOK ==
    /\ phase \in Lists \cup {"reading", "parsing", "accepted", "rejected", "unreadable"}
    /\ section \in Nat \ {0} /\ index \in Nat \ {0}
    /\ DOMAIN config = Lists
    /\ \A l \in Lists : \A i \in DOMAIN config[l] : i \in 1..Len(config[l])

\* Where the document declares an entry of a list, and what it declares there.
Positions(l) ==
    UNION {{<<s, n>> : n \in DOMAIN Sections[s].children} :
              s \in {t \in DOMAIN Sections : Sections[t].name = l}}

NodeAt(p)     == Sections[p[1]].children[p[2]]
EntryAt(l, p) == Parsed(l, NodeAt(p))

\* What the document has to be, whatever the order it is read in.
WellFormed ==
    /\ RootIsValid
    /\ \A s \in DOMAIN Sections : Sections[s].name \in Lists
    /\ \A l \in Lists : \A p \in Positions(l) : Parses(l, NodeAt(p))
    /\ \A l \in Lists : \A p \in Positions(l) :
          /\ IsSound(l, EntryAt(l, p))
          /\ \A q \in Positions(l) : EntryAt(l, p).id = EntryAt(l, q).id => p = q
    /\ \A p \in Positions("policies") : \A id \in References(EntryAt("policies", p)) :
          \E q \in Positions("providers") : EntryAt("providers", q).id = id

\* A document is accepted exactly when every entry of it is sound, wherever it
\* stands and whether or not the invocation selects it: no identifier is
\* declared twice, also not in two sections of one list, and no reference
\* dangles (mod.rs:5-7, main.rs:227-230).
VerdictCoversTheWhole ==
    /\ phase = "accepted" => WellFormed
    /\ phase = "rejected" => ~WellFormed

\* The scans for brackets and for the last colon take exactly the texts of the
\* form http(s)://host[:port], with a port that a socket can have
\* (validate.rs:176-180).
OriginsAreRecognised ==
    \A i \in DOMAIN config["policies"] : \A n \in DOMAIN config["policies"][i].proxied :
        LET upstream == config["policies"][i].proxied[n].upstream IN
        IsHttpOrigin(upstream) <=> Origin(upstream)

=============================================================================
