----------------------------- MODULE AdminConfig -----------------------------
(***************************************************************************)
(* The admin interface: users and ACL rules in memory, changed by the HTTP *)
(* handlers, and the configuration file that save_config rewrites after    *)
(* every change.  Handlers run concurrently; a step is one critical        *)
(* section of AuthManager or one operation on the file.  The process may   *)
(* end anywhere, and starts again from the file.                           *)
(*                                                                         *)
(* Requests are authorised.  The sections of the file other than users and *)
(* rules (server, http, certificates, log, API keys) are one value: what   *)
(* the operator configured, or the built-in default, which has no admin    *)
(* interface.                                                              *)
(***************************************************************************)
EXTENDS AclRules, Absent

CONSTANTS Handlers,     \* HTTP requests served at a time
          Names,        \* usernames
          Accounts,     \* what is kept of a user (password, type, limits)
          ApiKeyUsers,  \* usernames that [auth.api_keys] names
          ApiAccount,   \* the account main gives them
          Ranges,       \* IP ranges
          DefaultRange, \* 0.0.0.0/0
          Priorities,
          MaxRules      \* bound on the ACL

Rule == [ip_range : Ranges, priority : Priorities]

ASSUME AdminAssumption ==
    /\ ApiKeyUsers \subseteq Names
    /\ ApiAccount \in Accounts
    /\ None \notin Accounts
    /\ None \notin Rule
    /\ None \notin {"configured", "default"}
    /\ DefaultRange \in Ranges
    /\ Priorities \subseteq Nat
    /\ 0 \in Priorities
    /\ MaxRules \in Nat

VARIABLES
    running,   \* the process is up
    settings,  \* the sections it started with
    users,     \* AuthManager: username -> account
    acl,       \* AuthManager: rules in the order they are tried
    file,      \* the configuration file
    pc,        \* where each handler stands
    name, account, rule,   \* what an update is about to add
    savedUsers, savedAcl,  \* save_config's lists
    savedSettings,         \* and the sections it read back
    overlapped,  \* ghost: a change began while another was being made or saved
    failed       \* ghost: a save failed, or the end of the process cut one

ghosts == <<overlapped, failed>>
memory == <<settings, users, acl>>
update == <<name, account, rule>>
save == <<savedUsers, savedAcl, savedSettings>>
vars == <<running, memory, file, pc, update, save, ghosts>>

Settings == {"configured", "default"}
Directory == [Names -> Accounts \cup {None}]
Nobody == [n \in Names |-> None]
PCs == {"idle", "add_user", "add_rule", "list_users", "list_rules", "load", "create", "write"}

\* "empty" after the truncation, "broken" when it is not valid TOML.
File == [state : {"whole", "empty", "broken"}, settings : Settings \cup {None},
         users : Directory, acl : Seq(Rule)]
Whole(s, u, a) == [state |-> "whole", settings |-> s, users |-> u, acl |-> a]
Unreadable(state) == [state |-> state, settings |-> None, users |-> Nobody, acl |-> <<>>]

TypeOK ==
    /\ running \in BOOLEAN
    /\ settings \in Settings
    /\ users \in Directory
    /\ acl \in Seq(Rule)
    /\ file \in File
    /\ pc \in [Handlers -> PCs]
    /\ name \in [Handlers -> Names \cup {None}]
    /\ account \in [Handlers -> Accounts \cup {None}]
    /\ rule \in [Handlers -> Rule \cup {None}]
    /\ savedUsers \in [Handlers -> Directory]
    /\ savedAcl \in [Handlers -> Seq(Rule)]
    /\ savedSettings \in [Handlers -> Settings]
    /\ overlapped \in BOOLEAN
    /\ failed \in BOOLEAN

\* main adds the users of the file, then those of the API keys, whom it gives a fresh account.
\* The default has no API keys.
StartUsers(s, u) ==
    [n \in Names |-> IF s = "configured" /\ n \in ApiKeyUsers THEN ApiAccount ELSE u[n]]

\* The rules of Config::default.
DefaultAcl == <<[ip_range |-> DefaultRange, priority |-> 0]>>

\* Before the first start: a file that the operator wrote, with the rules in any order.
Init ==
    /\ running = FALSE
    /\ settings = "default"
    /\ users = Nobody
    /\ acl = <<>>
    /\ \E u \in Directory, n \in 0..MaxRules : \E a \in [1..n -> Rule] :
         file = Whole("configured", u, a)
    /\ pc = [h \in Handlers |-> "idle"]
    /\ name = [h \in Handlers |-> None]
    /\ account = [h \in Handlers |-> None]
    /\ rule = [h \in Handlers |-> None]
    /\ savedUsers = [h \in Handlers |-> Nobody]
    /\ savedAcl = [h \in Handlers |-> <<>>]
    /\ savedSettings = [h \in Handlers |-> "default"]
    /\ overlapped = FALSE
    /\ failed = FALSE
-----------------------------------------------------------------------------
(* The handlers that change users and rules                                *)

Quiet == \A h \in Handlers : pc[h] = "idle"

\* A request arrives; the admin interface is served only if it was configured.
Begin(h, next) ==
    /\ running
    /\ settings = "configured"
    /\ pc[h] = "idle"
    /\ pc' = [pc EXCEPT ![h] = next]
    /\ overlapped' = (overlapped \/ ~Quiet)
    /\ UNCHANGED <<running, settings, file, save, failed>>

AddUser(h) ==
    /\ Begin(h, "list_users")
    /\ \E n \in Names, a \in Accounts : users' = [users EXCEPT ![n] = a]
    /\ UNCHANGED <<acl, update>>

\* Mutant: the change is not saved.
DeleteUserUnsaved(h) ==
    /\ Begin(h, "idle")
    /\ \E n \in Names : users' = [users EXCEPT ![n] = None]
    /\ UNCHANGED <<acl, update>>

DeleteUser(h) ==
    /\ Begin(h, "list_users")
    /\ \E n \in Names : users' = [users EXCEPT ![n] = None]
    /\ UNCHANGED <<acl, update>>

\* update_user_handler removes the user and adds it again in two critical sections.
UpdateUser(h) ==
    /\ Begin(h, "add_user")
    /\ \E n \in Names, a \in Accounts :
         /\ users' = [users EXCEPT ![n] = None]
         /\ name' = [name EXCEPT ![h] = n]
         /\ account' = [account EXCEPT ![h] = a]
    /\ UNCHANGED <<acl, rule>>

UpdateUserAdd(h) ==
    /\ pc[h] = "add_user"
    /\ users' = [users EXCEPT ![name[h]] = account[h]]
    /\ name' = [name EXCEPT ![h] = None]
    /\ account' = [account EXCEPT ![h] = None]
    /\ pc' = [pc EXCEPT ![h] = "list_users"]
    /\ UNCHANGED <<running, settings, acl, file, rule, save, ghosts>>

\* remove_acl_rule: every rule with the range and the priority goes.
WithoutRule(rules, r) == Retained(rules, {i \in 1..Len(rules) : rules[i] # r})

AddRule(h) ==
    /\ Begin(h, "list_users")
    /\ Len(acl) < MaxRules
    /\ \E r \in Rule : acl' = WithRule(acl, r)
    /\ UNCHANGED <<users, update>>

DeleteRule(h) ==
    /\ Begin(h, "list_users")
    /\ \E r \in Rule : acl' = WithoutRule(acl, r)
    /\ UNCHANGED <<users, update>>

UpdateRule(h) ==
    /\ Begin(h, "add_rule")
    /\ \E old \in Rule, new \in Rule :
         /\ Len(WithoutRule(acl, old)) < MaxRules
         /\ acl' = WithoutRule(acl, old)
         /\ rule' = [rule EXCEPT ![h] = new]
    /\ UNCHANGED <<users, name, account>>

UpdateRuleAdd(h) ==
    /\ pc[h] = "add_rule"
    /\ acl' = WithRule(acl, rule[h])
    /\ rule' = [rule EXCEPT ![h] = None]
    /\ pc' = [pc EXCEPT ![h] = "list_users"]
    /\ UNCHANGED <<running, settings, users, file, name, account, save, ghosts>>
-----------------------------------------------------------------------------
(* save_config                                                             *)

ListUsers(h) ==
    /\ pc[h] = "list_users"
    /\ savedUsers' = [savedUsers EXCEPT ![h] = users]
    /\ pc' = [pc EXCEPT ![h] = "list_rules"]
    /\ UNCHANGED <<running, memory, file, update, savedAcl, savedSettings, ghosts>>

ListRules(h) ==
    /\ pc[h] = "list_rules"
    /\ savedAcl' = [savedAcl EXCEPT ![h] = acl]
    /\ pc' = [pc EXCEPT ![h] = "load"]
    /\ UNCHANGED <<running, memory, file, update, savedUsers, savedSettings, ghosts>>

\* Config::load(..).unwrap_or_default(), of the sections save_config keeps.
Loaded == IF file.state = "whole" THEN file.settings ELSE "default"

Load(h) ==
    /\ pc[h] = "load"
    /\ savedSettings' = [savedSettings EXCEPT ![h] = Loaded]
    /\ pc' = [pc EXCEPT ![h] = "create"]
    /\ UNCHANGED <<running, memory, file, update, savedUsers, savedAcl, ghosts>>

\* The save is over, and what it read is dropped.
EndSave(h) ==
    /\ pc' = [pc EXCEPT ![h] = "idle"]
    /\ savedUsers' = [savedUsers EXCEPT ![h] = Nobody]
    /\ savedAcl' = [savedAcl EXCEPT ![h] = <<>>]
    /\ savedSettings' = [savedSettings EXCEPT ![h] = "default"]
    /\ UNCHANGED <<running, memory, update>>

\* fs::write truncates the file when it opens it.
Create(h) ==
    /\ pc[h] = "create"
    /\ file' = Unreadable("empty")
    /\ pc' = [pc EXCEPT ![h] = "write"]
    /\ UNCHANGED <<running, memory, update, save, ghosts>>

\* The file cannot be opened; the handler logs it and reports success.
CreateFails(h) ==
    /\ pc[h] = "create"
    /\ EndSave(h)
    /\ failed' = TRUE
    /\ UNCHANGED <<file, overlapped>>

\* The content goes to the beginning of the file.  If another handler has written since the
\* truncation and its content was longer, the end of that content stays behind.
Write(h) ==
    /\ pc[h] = "write"
    /\ \/ file' = Whole(savedSettings[h], savedUsers[h], savedAcl[h])
       \/ file.state # "empty" /\ file' = Unreadable("broken")
    /\ EndSave(h)
    /\ UNCHANGED ghosts

WriteFails(h) ==
    /\ pc[h] = "write"
    /\ file' = Unreadable("broken")
    /\ EndSave(h)
    /\ failed' = TRUE
    /\ UNCHANGED overlapped
-----------------------------------------------------------------------------
(* The process                                                             *)

\* The process ends, and with it its memory and its handlers.
Stop ==
    /\ running
    /\ running' = FALSE
    /\ settings' = "default"
    /\ users' = Nobody
    /\ acl' = <<>>
    /\ pc' = [h \in Handlers |-> "idle"]
    /\ name' = [h \in Handlers |-> None]
    /\ account' = [h \in Handlers |-> None]
    /\ rule' = [h \in Handlers |-> None]
    /\ savedUsers' = [h \in Handlers |-> Nobody]
    /\ savedAcl' = [h \in Handlers |-> <<>>]
    /\ savedSettings' = [h \in Handlers |-> "default"]
    /\ failed' = (failed \/ \E h \in Handlers : pc[h] = "write")
    /\ UNCHANGED <<file, overlapped>>

\* The rules of the file, or of Config::default() when it cannot be loaded.
LoadedAcl == IF file.state = "whole" THEN file.acl ELSE DefaultAcl

\* main: the configuration is the file's, or the default when it cannot be read.  The rules
\* go through add_acl_rule one by one.
Start ==
    /\ ~running
    /\ running' = TRUE
    /\ settings' = Loaded
    /\ users' = StartUsers(Loaded, file.users)
    /\ SortOf(acl', LoadedAcl)
    /\ UNCHANGED <<file, pc, update, save, ghosts>>
-----------------------------------------------------------------------------
Change(h) == AddUser(h) \/ DeleteUser(h) \/ UpdateUser(h) \/ AddRule(h) \/ DeleteRule(h) \/ UpdateRule(h)

Save(h) ==
    \/ UpdateUserAdd(h) \/ UpdateRuleAdd(h)
    \/ ListUsers(h) \/ ListRules(h) \/ Load(h)
    \/ Create(h) \/ CreateFails(h) \/ Write(h) \/ WriteFails(h)

Next == Stop \/ Start \/ \E h \in Handlers : Change(h) \/ Save(h)

Spec == Init /\ [][Next]_vars
-----------------------------------------------------------------------------
(* Properties                                                              *)

\* Unless changes overlapped, a save failed or the process ended inside a write, a start from
\* the file would between requests bring back what the memory holds, sections the handlers
\* do not touch included: users (but for those of the API keys, whom main overwrites) and
\* rules survive the end of the process at any other point.
FileFollowsMemory ==
    ~overlapped /\ ~failed /\ Quiet =>
        /\ file.state = "whole"
        /\ file.settings = "configured"
        /\ running => /\ settings = "configured"
                      /\ SortOf(acl, file.acl)
                      /\ \A n \in Names \ ApiKeyUsers : users[n] = file.users[n]

\* check_acl takes the first rule that matches, so the rules must stand in the order of
\* their priorities, through concurrent updates, saves and restarts.
AclOrdered == Ordered(acl)
=============================================================================
