----------------------------- MODULE MintConfig ------------------------------
(***************************************************************************)
(* tokenmint/profile.go and client.go: a mint profile from its file to the *)
(* address its requests reach.  The profile is validated at startup, maybe *)
(* twice; a request checks host and body style again, resolves the host,   *)
(* checks the addresses and dials, while the name may be moved meanwhile.  *)
(***************************************************************************)
EXTENDS Integers, Sequences, SequencesExt

CONSTANTS Minutes,         \* values of the durations in a file
          Haircuts,        \* expires_in_haircut, in tenths
          MaxMoves         \* bound on changes of the name's addresses

VARIABLES config, pc, dns, \* the addresses the name has now
          moves, ips,      \* the addresses that were looked up
          reached,         \* addresses that were sent the credentials
          params,          \* the parameters of the request
          err

vars == <<config, pc, dns, moves, ips, reached, params, err>>

\* An address is its class; hosts are spellings of two names.
Addresses == {"public", "loopback", "link_local", "cloud_metadata", "private"}
Answers == BoundedSeq({"public", "private"}, 2) \cup {<<a>> : a \in Addresses}
Lower(host) == IF host \in {"IDP", " idp"} THEN "idp" ELSE host

Profiles == [scheme : {"https", "http"}, host : {"idp", "IDP", "other", ""},
             body_style : {"", "json", "form", "xml"},
             client_id_param : {"", "login", "client_secret"},
             default_expires_in : Minutes, refresh_margin : Minutes,
             haircut : Haircuts]

Configs == [allowed : {{}, {" idp"}, {"IDP", ""}}, private : BOOLEAN, profile : Profiles]

Init ==
  /\ config \in Configs
  /\ pc = "loaded" /\ dns = <<"public">> /\ moves = 0 /\ ips = <<>>
  /\ reached = {} /\ params = {} /\ err = "none"

Default(value, default) == IF value <= 0 THEN default ELSE value

applyDefaults(p) ==
  [p EXCEPT !.body_style = IF @ = "" THEN "json" ELSE @,
            !.client_id_param = IF @ = "" THEN "client_id" ELSE @,
            !.default_expires_in = Default(@, 15),
            !.refresh_margin = Default(@, 5),
            !.haircut = Default(@, 9)]

HostAllowed(c, host) == Lower(host) \in {Lower(h) : h \in c.allowed} \ {""}

validateProfile(c, p) ==
  /\ p.host # ""
  /\ p.scheme = "https" \/ c.private
  /\ HostAllowed(c, p.host)
  /\ p.body_style \in {"json", "form"}
  /\ p.haircut \in 1..10
  /\ p.refresh_margin < p.default_expires_in

Fail(reason) == pc' = "failed" /\ err' = reason

\* Validate, by LoadConfigFile and again by whoever holds the Config.
Validate ==
  /\ pc \in {"loaded", "ready"}
  /\ config' = [config EXCEPT !.profile = applyDefaults(@)]
  /\ IF validateProfile(config', config'.profile)
     THEN pc' = "ready" /\ UNCHANGED err
     ELSE Fail("refused")
  /\ UNCHANGED <<dns, moves, ips, reached, params>>

\* buildGrantRequest: the static parameters, then id, then secret, each in
\* place of what has its name already.
ClientSecretParam == "client_secret"
Params(p) ==
  {<<"grant_type", "static">>}
    \cup (IF p.client_id_param = ClientSecretParam THEN {} ELSE {<<p.client_id_param, "id">>})
    \cup {<<ClientSecretParam, "secret">>}

\* doGrant up to client.Do.
Grant ==
  /\ pc = "ready"
  /\ LET p == config.profile IN
     IF ~HostAllowed(config, p.host) THEN Fail("host_not_allowed") /\ UNCHANGED params
     ELSE IF p.body_style \notin {"json", "form"}
     THEN Fail("unsupported_body_style") /\ UNCHANGED params
     ELSE pc' = "resolve" /\ params' = Params(p) /\ UNCHANGED err
  /\ UNCHANGED <<config, dns, moves, ips, reached>>

\* All classes are checked (AllInternalIPClasses).
CheckInternalIP(ip) == ip \in {"cloud_metadata", "loopback", "link_local", "private"}

\* The dial function: look up and check.
Resolve ==
  /\ pc = "resolve"
  /\ ips' = dns
  /\ IF ~config.private /\ (dns = <<>> \/ \E i \in DOMAIN dns : CheckInternalIP(dns[i]))
     THEN Fail("refused_address") ELSE pc' = "dial" /\ UNCHANGED err
  /\ UNCHANGED <<config, dns, moves, reached, params>>

\* The address that was checked is dialled; with allow_private the name.
Dial ==
  /\ pc = "dial"
  /\ IF config.private THEN \E i \in DOMAIN dns : reached' = {dns[i]}
     ELSE reached' = {ips[1]}
  /\ pc' = "sent"
  /\ UNCHANGED <<config, dns, moves, ips, params, err>>

\* No connection, or the private name has no address.
DialFails == pc = "dial" /\ Fail("upstream") /\ UNCHANGED <<config, dns, moves, ips, reached, params>>

\* The endpoint answers: the request is over, or CheckRedirect ends it.
Answered ==
  /\ pc = "sent"
  /\ \/ pc' = "ready" /\ UNCHANGED err
     \/ Fail("upstream")
  /\ ips' = <<>> /\ params' = {}
  /\ UNCHANGED <<config, dns, moves, reached>>

\* The owner of the name changes its addresses.
Move ==
  /\ moves < MaxMoves /\ pc \in {"ready", "resolve", "dial"}
  /\ \E a \in Answers : a # dns /\ dns' = a
  /\ moves' = moves + 1
  /\ UNCHANGED <<config, pc, ips, reached, params, err>>

Next == Validate \/ Grant \/ Resolve \/ Dial \/ DialFails \/ Answered \/ Move

Spec == Init /\ [][Next]_vars

-----------------------------------------------------------------------------
TypeOK == /\ pc \in {"loaded", "ready", "resolve", "dial", "sent", "failed"}
          /\ reached \subseteq Addresses
          /\ pc \in {"resolve", "dial", "sent"} =>
               /\ config.profile.haircut \in 1..10
               /\ 0 < config.profile.refresh_margin

\* "A coordinator that starts with a broken mint config and then 502s every
\* affected route is worse than one that refuses to start": what Validate
\* accepted passes every check a request makes of the profile, and validating
\* it again does not take that back.
StartsOrRefuses ==
  pc = "ready" => err' \notin {"refused", "host_not_allowed", "unsupported_body_style"}

\* Without allow_private the credentials reach only addresses that passed the
\* check, however the name is moved between the look-up and the connection.
CheckedIsDialled == ~config.private => reached \subseteq {"public"}
=============================================================================
