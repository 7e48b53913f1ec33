----------------------------- MODULE SmtpDelivery -----------------------------
(***************************************************************************)
(* One mail over SMTP: the credentials that a settings request stores      *)
(* (services/settings.py), the host policy that is asked when they are     *)
(* stored and again at every send (infra/smtp/host_policy.py), the         *)
(* dialogue with the server, and what _deliver makes of the way it ended   *)
(* (infra/smtp/email_notifier.py).  No state: the table is an argument.    *)
(*                                                                         *)
(* Kept of an address: whether the policy forbids it.  Kept of a dialogue:  *)
(* how far it got and what ended it.                                       *)
(***************************************************************************)
EXTENDS Naturals, Sequences

\* An address that the policy permits or not, or an IPv6 one that carries such an
\* IPv4 address.
Plain == {"public", "forbidden"}
Address == Plain \cup {"mapped public", "mapped forbidden"}

\* What a host string is: nothing to look up (empty, a bare number, localhost,
\* a reserved domain), a name, or an address.
Host == {"refused", "name"} \cup Address

IMPLICIT_TLS_PORT == 465
LAST_PORT == 65535
Port == {0, 587, IMPLICIT_TLS_PORT, LAST_PORT + 1}

NoCredentials == [host |-> "none"]
Credentials == [host : Host, port : Port]

\* What getaddrinfo lists for a name, in its order; nothing when it fails or is slow.
Answer == UNION {[1..n -> Address] : n \in 0..2}

-----------------------------------------------------------------------------
(* DefaultSmtpHostPolicy                                                   *)

\* _unwrap_ipv4_mapped: the address that is checked and connected to.
Unwrapped(address) ==
  CASE address = "mapped public"    -> "public"
    [] address = "mapped forbidden" -> "forbidden"
    [] OTHER                        -> address

PolicyError == [error |-> "SmtpHostPolicyError"]

\* Every address is checked, the first is the one to connect to.
Pinned(addresses, host, port) ==
  IF addresses # <<>> /\ \A i \in DOMAIN addresses : Unwrapped(addresses[i]) = "public"
  THEN [ip |-> Unwrapped(addresses[1]), port |-> port, original_host |-> host]
  ELSE PolicyError

\* A name is looked up, an address is taken as it is.
resolve_and_check(host, port, answer) ==
  IF host = "refused" THEN PolicyError
  ELSE Pinned(IF host = "name" THEN answer ELSE <<host>>, host, port)

-----------------------------------------------------------------------------
(* Settings                                                                *)

\* The request is refused, or one transaction replaces the one row.
set_smtp_credentials(row, creds, answer) ==
  IF creds.port \in 1..LAST_PORT /\ resolve_and_check(creds.host, creds.port, answer) # PolicyError
  THEN creds ELSE row

\* The rows that a first settings request can leave.
smtp_credentials ==
  {set_smtp_credentials(NoCredentials, creds, answer) : creds \in Credentials, answer \in Answer}

-----------------------------------------------------------------------------
(* The dialogue                                                            *)

\* The steps up to the server's answer to the data, and the goodbye.
starttls_steps == {"connect", "greeting", "starttls", "handshake", "login", "sender",
                   "recipient", "data", "answer", "quit"}
implicit_tls_steps == starttls_steps \ {"starttls"}

\* What ends the dialogue at a step: the network or a time-out, the server hanging
\* up, its TLS, a refusal for now or for good, AUTH not offered, nothing.  What
\* an implicit-TLS server says in its greeting is read and not looked at.
FaultAt(step, port) ==
  CASE step = "connect"   -> {"network"}
    [] step = "handshake" -> {"network", "tls"}
    [] step = "greeting" /\ port = IMPLICIT_TLS_PORT -> {"network", "closed"}
    [] step = "login"     -> {"network", "closed", "later", "never", "unsupported"}
    [] step = "quit"      -> {"network", "closed", "none"}
    [] OTHER              -> {"network", "closed", "later", "never"}

Dialogues(port) ==
  LET steps == IF port = IMPLICIT_TLS_PORT THEN implicit_tls_steps ELSE starttls_steps
  IN UNION {{[step |-> s, fault |-> f] : f \in FaultAt(s, port)} : s \in steps}

\* The server has the mail, though its answer may have been lost.
Accepted(d) ==
  d.step = "quit" \/ (d.step = "answer" /\ d.fault \in {"network", "closed"})

\* What smtplib raises.  Only while connecting is an OSError left as it is; what
\* goes wrong with the goodbye is swallowed.
Raised(d) ==
  CASE d.step = "quit"          -> "None"
    [] d.fault = "tls"          -> "SSLError"
    [] d.fault = "unsupported"  -> "OSError"
    [] d.fault = "network" /\ d.step \in {"connect", "handshake"} -> "OSError"
    [] d.fault \in {"network", "closed"} -> "SMTPServerDisconnected"
    [] d.step = "starttls"      -> "_StarttlsRefused"
    [] d.step = "login"         -> "SMTPAuthenticationError"
    [] d.step = "recipient"     -> "SMTPRecipientsRefused"
    [] OTHER                    -> "SMTPResponseException"

\* Mutant: a server that hung up counts as a refusal.
Classify_HangUpIsFatal(d) ==
  CASE Raised(d) = "None" -> "ok"
    [] Raised(d) \in {"SMTPAuthenticationError", "SMTPRecipientsRefused",
                      "SMTPServerDisconnected"} -> "fatal"
    [] Raised(d) = "SMTPResponseException" /\ d.fault = "never" -> "fatal"
    [] OTHER -> "retryable"

\* The except clauses of _deliver.
Classify(d) ==
  CASE Raised(d) = "None" -> "ok"
    [] Raised(d) \in {"SMTPAuthenticationError", "SMTPRecipientsRefused"} -> "fatal"
    [] Raised(d) = "SMTPResponseException" /\ d.fault = "never" -> "fatal"
    [] OTHER -> "retryable"

Outcome(verdict, taken) == [result |-> verdict, accepted |-> taken]

deliver(endpoint) ==
  {Outcome(Classify(d), Accepted(d)) : d \in Dialogues(endpoint.port)}

\* send, test and send_session_expired: the policy's error is not caught.
send(row, answer) ==
  IF row = NoCredentials THEN {Outcome("fatal", FALSE)}
  ELSE LET endpoint == resolve_and_check(row.host, row.port, answer)
       IN IF endpoint = PolicyError THEN {Outcome("raised", FALSE)} ELSE deliver(endpoint)

\* Whatever is stored and whatever DNS says by then.
Endpoints ==
  {resolve_and_check(row.host, row.port, answer) :
     row \in smtp_credentials \ {NoCredentials}, answer \in Answer} \ {PolicyError}

MailOutcomes == UNION {send(row, answer) : row \in smtp_credentials, answer \in Answer}

-----------------------------------------------------------------------------
(* What the dispatcher relies on.                                          *)

\* The connection that carries the password goes to an address the policy permits.
PinnedIsPermitted == \A endpoint \in Endpoints : endpoint.ip = "public"

\* A verdict that closes a slot is true.
ClosingIsTrue ==
  \A o \in MailOutcomes : /\ o.result = "ok" => o.accepted
                          /\ o.result = "fatal" => ~o.accepted
=============================================================================
