------------------------------- MODULE Email --------------------------------
(***************************************************************************)
(* email.Sender: the configuration that selects a transport, the message   *)
(* checks, the SMTP dialogue and the Postbox request, used by a service    *)
(* that sends one message and tries again only what is retryable.          *)
(***************************************************************************)
EXTENDS Naturals, FiniteSets

CONSTANTS Configs, Messages, MaxAttempts

VARIABLES cfg, msg,
          pc,         \* the step of the submission
          tls,        \* the connection is encrypted and verified
          challenges, \* answered in this AUTH dialogue
          attempts,
          out,        \* what the last submission returned, and at which stage
          accepted,   \* ghost: copies the provider took
          passwords   \* ghost: how often this dialogue sent the password

vars == <<cfg, msg, pc, tls, challenges, attempts, out, accepted, passwords>>

NoOut == [result |-> "none", stage |-> "none"]
failure(stage, outcome) == [result |-> outcome, stage |-> stage]

\* Only the selected provider's section is filled.  A zero port follows the
\* TLS mode.
ApplyDefaults(c) ==
  IF c.provider # "selectel" THEN c
  ELSE LET mode == IF c.mode = "" THEN "tls" ELSE c.mode
       IN  [c EXCEPT !.mode = mode,
                     !.port = IF c.port # 0 THEN c.port
                              ELSE IF mode = "starttls" THEN 1126 ELSE 1127,
                     !.timeout = IF c.timeout = 0 THEN 10 ELSE c.timeout]

Validate(c) ==
  \/ /\ c.provider = "postbox" /\ c.sections = {"postbox"}
     /\ c.https /\ c.credentials
  \/ /\ c.provider = "selectel" /\ c.sections = {"selectel"}
     /\ c.port \in 1..65535
     /\ c.mode \in {"tls", "starttls"}
     /\ c.credentials
     /\ c.timeout > 0 /\ c.timeout <= 60

Init ==
  /\ cfg \in Configs /\ msg \in Messages
  /\ pc = "new" /\ tls = FALSE /\ challenges = 0 /\ attempts = 0
  /\ out = NoOut /\ accepted = 0 /\ passwords = 0

NewSender ==
  /\ pc = "new"
  /\ LET c == ApplyDefaults(cfg)
     IN  /\ cfg' = c
         /\ pc' = IF Validate(c) THEN "ready" ELSE "refused"
  /\ UNCHANGED <<msg, tls, challenges, attempts, out, accepted, passwords>>

\* prepare: the first check that fails names the stage; an absent Message-ID
\* is made up.
prepare(m) ==
  IF ~m.clean \/ m.subject # "fits" \/ m.body # "fits" THEN "validate"
  ELSE IF m.from = "bad" THEN "sender"
  ELSE IF m.to = "bad" THEN "recipient"
  ELSE IF m.id = "bad" THEN "message_id"
  ELSE IF cfg.provider = "selectel" /\ "unicode" \in {m.from, m.to} THEN "smtp_address"
  ELSE "ok"

Return(o) == pc' = "returned" /\ out' = o

\* Sent once, and again after a retryable failure.
Send ==
  /\ pc = "ready" \/ (pc = "returned" /\ out.result = "retryable")
  /\ attempts < MaxAttempts
  /\ attempts' = attempts + 1 /\ tls' = FALSE /\ challenges' = 0 /\ passwords' = 0
  /\ IF prepare(msg) # "ok"
     THEN Return(failure(prepare(msg), "rejected"))
     ELSE /\ pc' = IF cfg.provider = "selectel" THEN "connect" ELSE "authentication"
          /\ out' = NoOut
  /\ UNCHANGED <<cfg, msg, accepted>>

-----------------------------------------------------------------------------
SMTPStages == {"connect", "deadline", "tls", "greeting", "hello", "starttls", "auth",
               "login", "mail", "recipient", "data", "body", "acceptance"}

After(stage) ==
  CASE stage = "connect" -> "deadline"
    [] stage = "deadline" -> IF cfg.mode = "tls" THEN "tls" ELSE "greeting"
    [] stage = "tls" -> "greeting"
    [] stage = "greeting" -> "hello"
    [] stage = "hello" -> IF cfg.mode = "starttls" THEN "starttls" ELSE "auth"
    [] stage = "starttls" -> "auth"
    [] stage = "login" -> "mail"
    [] stage = "mail" -> "recipient"
    [] stage = "recipient" -> "data"
    [] stage = "data" -> "body"
    [] stage = "body" -> "acceptance"

StageDone ==
  /\ pc \in SMTPStages \ {"auth", "acceptance"}
  /\ pc' = After(pc)
  /\ tls' = (tls \/ pc \in {"tls", "starttls"})
  /\ UNCHANGED <<cfg, msg, challenges, attempts, out, accepted, passwords>>

\* loginAuth.Start.
AuthStarts ==
  /\ pc = "auth"
  /\ IF tls THEN pc' = "login" /\ UNCHANGED out
     ELSE Return(failure("auth", "retryable"))
  /\ UNCHANGED <<cfg, msg, tls, challenges, attempts, accepted, passwords>>

\* Mutated: the last answer is given to every further challenge.
LoginNextAgain ==
  /\ pc = "login" /\ challenges < 3
  /\ challenges' = challenges + 1
  /\ passwords' = passwords + (IF challenges' >= 2 THEN 1 ELSE 0)
  /\ UNCHANGED <<cfg, msg, pc, tls, attempts, out, accepted>>

\* loginAuth.Next: the server sends a challenge, whatever it says.  The first
\* answer is the user name, the second the password, and there is no third.
LoginNext ==
  /\ pc = "login"
  /\ challenges' = challenges + 1
  /\ IF challenges' <= 2
     THEN /\ passwords' = passwords + (IF challenges' = 2 THEN 1 ELSE 0)
          /\ UNCHANGED <<pc, out>>
     ELSE Return(failure("auth", "retryable")) /\ UNCHANGED passwords
  /\ UNCHANGED <<cfg, msg, tls, attempts, accepted>>

\* Mutated: a broken connection may always be tried again.
FailureOutcome(kind, mayHaveAccepted) ==
  CASE kind \in {"reply4", "broken"} -> "retryable"
    [] kind \in {"reply5", "odd"} -> "rejected"

\* By the reply of the server (odd: any code but the ones awaited, 4xx and 5xx),
\* or without one.
smtpFailure(kind, mayHaveAccepted) ==
  CASE kind = "reply4" -> "retryable"
    [] kind \in {"reply5", "odd"} -> "rejected"
    [] kind = "broken" -> IF mayHaveAccepted THEN "unknown" ELSE "retryable"

\* The server refuses, or the connection breaks or runs into its deadline.
StageFails ==
  /\ pc \in SMTPStages \ {"hello", "auth"}
  /\ \E kind \in {"reply4", "reply5", "odd", "broken"} :
       /\ pc \in {"connect", "deadline", "tls", "body"} => kind = "broken"
       /\ Return(failure(IF pc = "login" THEN "auth" ELSE pc,
                         smtpFailure(kind, pc \in {"body", "acceptance"})))
  /\ UNCHANGED <<cfg, msg, tls, challenges, attempts, accepted, passwords>>

\* net/smtp greets inside of Extension, which answers "no" when that fails.
HelloFails ==
  /\ pc = "hello"
  /\ Return(failure(IF cfg.mode = "starttls" THEN "starttls_required"
                    ELSE "auth_login_required", "rejected"))
  /\ UNCHANGED <<cfg, msg, tls, challenges, attempts, accepted, passwords>>

\* The server does not offer AUTH LOGIN.
NoLogin ==
  /\ pc = "auth"
  /\ Return(failure("auth_login_required", "rejected"))
  /\ UNCHANGED <<cfg, msg, tls, challenges, attempts, accepted, passwords>>

\* The server takes the message and says 250; its reply, or the answer to QUIT,
\* may be lost.
Accepted ==
  /\ pc = "acceptance"
  /\ accepted' = accepted + 1
  /\ \E lost \in BOOLEAN :
       Return(IF lost THEN failure(pc, smtpFailure("broken", TRUE))
              ELSE failure("quit", "sent"))
  /\ UNCHANGED <<cfg, msg, tls, challenges, attempts, passwords>>

-----------------------------------------------------------------------------
\* postbox.Client: a token, then one request.
ResolveToken ==
  /\ pc = "authentication"
  /\ \/ pc' = "request" /\ UNCHANGED out
     \/ Return(failure(pc, "retryable"))
  /\ UNCHANGED <<cfg, msg, tls, challenges, attempts, accepted, passwords>>

sendOutcome(status) ==
  CASE status \in 200..299 -> "sent"
    [] status >= 500 -> "unknown"
    [] status = 429 -> "retryable"
    [] OTHER -> "rejected"

\* The request is not built, or Postbox takes the message or not, and answers,
\* fails or is not heard (status 0).  A receipt that cannot be read is a success.
SendEmailWithReceipt ==
  /\ pc = "request"
  /\ \/ /\ \E stage \in {"encode", "request"} : Return(failure(stage, "rejected"))
        /\ UNCHANGED accepted
     \/ \E took \in {0, 1}, status \in {0, 200, 302, 400, 429, 500} :
          /\ status = 200 => took = 1
          /\ status \in 300..499 => took = 0
          /\ accepted' = accepted + took
          /\ Return(IF status = 0 THEN failure("send", "unknown")
                    ELSE failure("response", sendOutcome(status)))
  /\ UNCHANGED <<cfg, msg, tls, challenges, attempts, passwords>>

Next ==
  \/ NewSender \/ Send \/ StageDone \/ AuthStarts \/ LoginNext \/ StageFails
  \/ HelloFails \/ NoLogin \/ Accepted \/ ResolveToken \/ SendEmailWithReceipt

Spec == Init /\ [][Next]_vars

-----------------------------------------------------------------------------
\* A sender exists only for a configuration of one provider, and for SMTP with
\* the port of its TLS mode when none was given.
TypeOK ==
  /\ attempts \in 0..MaxAttempts /\ challenges \in 0..3 /\ accepted \in Nat
  /\ attempts > 0 => /\ Cardinality(cfg.sections) = 1
                     /\ cfg.port = 1126 => cfg.mode = "starttls"

\* Outcome "indicates whether another attempt could duplicate an accepted
\* send": a service that repeats what is retryable, and nothing else, has the
\* message taken at most once, wherever the connection breaks.
NoDuplicate == accepted <= 1

\* A receipt is given only for a message the provider took, and "rejected" is
\* said only of a message it did not take.
VerdictTrue ==
  /\ out.result = "sent" => accepted = 1
  /\ out.result \in {"rejected", "retryable"} => accepted = 0

\* loginAuth ("the bounded challenge sequence"): a dialogue sends the password at
\* most once, however many challenges the server makes, and a repeated
\* submission starts a dialogue of its own.
PasswordOnce == passwords <= 1
=============================================================================
