------------------------------ MODULE SmtpSession ------------------------------
(***************************************************************************)
(* smtp_session (core/smtp.cpp): mails sent over one connection to a mail  *)
(* server.  The client looks at no reply beyond there being one, and reads *)
(* one line for each.                                                      *)
(*                                                                         *)
(* The server is external: it answers every command, with one line or more, *)
(* refuses what it likes, and may go away.  It takes what follows a DATA   *)
(* it has agreed to up to a line with a dot alone.                         *)
(***************************************************************************)
EXTENDS Integers, SequencesExt

CONSTANTS
  Letters,      \* of the lines of a mail
  Bodies,       \* texts of mails, sequences of lines, which are sequences of those
  Recipients,   \* how many recipients and copies a mail may have, a set of pairs
  MaxMails,     \* bound of the mails of a session
  MaxRefused    \* bound of the commands refused

SmtpAssumption ==
  /\ "." \in Letters /\ Bodies \subseteq Seq(Seq(Letters))
  /\ Recipients \subseteq Nat \X Nat /\ MaxMails \in Nat /\ MaxRefused \in Nat

VARIABLES
  client,   \* of send_mail: the mails, the lines still to be sent, if a reply is waited
            \* for, and the results; m_gotinitial
  toserver, \* lines written and not yet read
  replies,  \* lines of replies not yet read
  server    \* what it waits for, its recipients and lines, the mails it has taken

smtpvars == <<client, toserver, replies, server>>

-----------------------------------------------------------------------------
Command(verb) == [kind |-> "command", verb |-> verb]
Header(name) == [kind |-> "header", name |-> name]
Data(chars) == [kind |-> "data", chars |-> chars]

(* Mutant: a dot at the beginning of a line stays alone. *)
SentLineUnstuffed(line) ==
  IF line # <<>> /\ Last(line) = "\r" THEN Front(line) ELSE line

\* A line as send_data_lines writes it.
SentLine(line) ==
  LET stuffed == IF line # <<>> /\ Head(line) = "." THEN <<".">> \o line ELSE line IN
  IF stuffed # <<>> /\ Last(stuffed) = "\r" THEN Front(stuffed) ELSE stuffed

\* string_tokenize_word leaves empty lines out.
Tokens(body) ==
  LET upto[n \in Nat] ==
        IF n = 0 THEN <<>>
        ELSE IF body[n] = <<>> THEN upto[n - 1] ELSE Append(upto[n - 1], body[n])
  IN upto[Len(body)]

\* The lines of send_mail, each with the reply that is waited for behind it; only the first
\* one is needed.
Commands(mail) ==
  [i \in 1 .. mail.to + 3 |->
     [line |-> Command(CASE i = 1 -> "HELO" [] i = 2 -> "MAIL"
                         [] i = mail.to + 3 -> "DATA" [] OTHER -> "RCPT"),
      hears |-> IF i = 1 THEN "needed" ELSE "reply"]]
Headers(mail) ==
  [i \in 1 .. mail.to + mail.cc + 3 |->
     [line |-> Header(CASE i = 1 -> "From" [] i \in 2 .. mail.to + 1 -> "To"
                        [] i = mail.to + mail.cc + 2 -> "Subject"
                        [] i = mail.to + mail.cc + 3 -> "" [] OTHER -> "Cc"),
      hears |-> "nothing"]]
Content(mail) ==
  [i \in DOMAIN Tokens(mail.body) |->
     [line |-> Data(SentLine(Tokens(mail.body)[i])), hears |-> "nothing"]]
LastLine == [line |-> Data(<<".">>), hears |-> "reply"]

Script(mail) == Append(Commands(mail) \o Headers(mail) \o Content(mail), LastLine)

SmtpInit ==
  /\ client = [script |-> <<>>, hearing |-> "nothing", gotinitial |-> FALSE, mails |-> <<>>,
               returned |-> <<>>, open |-> TRUE]
  /\ toserver = <<>>
  /\ replies = <<>>
  /\ server = [at |-> "greeting", to |-> 0, lines |-> <<>>, taken |-> <<>>,
               refused |-> 0, long |-> FALSE, data |-> 0]

BetweenMails == client.script = <<>> /\ client.hearing = "nothing"

\* send_mail is called; the first time, it waits for the server's greeting.
SendMail(mail) ==
  /\ client.open /\ BetweenMails /\ Len(client.mails) < MaxMails
  /\ client' = [client EXCEPT !.script = Script(mail), !.gotinitial = TRUE,
                              !.hearing = IF client.gotinitial THEN "nothing" ELSE "needed",
                              !.mails = Append(@, mail)]
  /\ UNCHANGED <<toserver, replies, server>>

\* send_line
SendLine ==
  /\ client.script # <<>> /\ client.hearing = "nothing"
  /\ client' = [client EXCEPT !.script = Tail(@), !.hearing = Head(client.script).hears]
  /\ toserver' = Append(toserver, Head(client.script).line)
  /\ UNCHANGED <<replies, server>>

Returns(result) ==
  [client EXCEPT !.script = <<>>, !.hearing = "nothing", !.returned = Append(@, result)]
\* What follows a reply; at the end send_mail returns whether the socket has failed, which
\* one whose other end is gone may have.
Onward(results) ==
  IF client.script = <<>> THEN {Returns(r) : r \in results}
  ELSE {[client EXCEPT !.hearing = "nothing"]}

\* recv_line, which waits for a line or for the end of the connection.
RecvLine ==
  /\ client.hearing # "nothing"
  /\ IF replies # <<>>
     THEN /\ client' \in Onward(IF server.at = "gone" THEN BOOLEAN ELSE {TRUE})
          /\ replies' = Tail(replies)
     ELSE /\ server.at = "gone"
          /\ client' \in IF client.hearing = "needed" THEN {Returns(FALSE)} ELSE Onward({FALSE})
          /\ UNCHANGED replies
  /\ UNCHANGED <<toserver, server>>

\* ~smtp_session, which says QUIT to a server it has heard of; a failed socket it leaves.
Quit ==
  /\ client.open /\ BetweenMails
  /\ client' = [client EXCEPT !.open = FALSE]
  /\ toserver' = IF client.gotinitial /\ server.at # "gone"
                 THEN Append(toserver, Command("QUIT")) ELSE toserver
  /\ UNCHANGED <<replies, server>>

-----------------------------------------------------------------------------
(* The mail server.                                                        *)

\* It answers, with a line or with two.
Answer(next) ==
  \E n \in 1 .. 2 : /\ replies' = replies \o [i \in 1 .. n |-> "reply"]
                    /\ server' = [next EXCEPT !.long = @ \/ n = 2]

Refuse ==
  /\ server.refused < MaxRefused
  /\ Answer([server EXCEPT !.refused = @ + 1])

\* A command: the states follow each other; QUIT is the end.
Obey(verb) ==
  CASE verb = "HELO" -> Answer([server EXCEPT !.at = "ready"])
    [] verb = "MAIL" /\ server.at = "ready" -> Answer([server EXCEPT !.at = "mail", !.to = 0])
    [] verb = "RCPT" /\ server.at = "mail"  -> Answer([server EXCEPT !.to = @ + 1])
    [] verb = "DATA" /\ server.at = "mail" /\ server.to > 0 ->
         Answer([server EXCEPT !.at = "data", !.lines = <<>>])
    [] verb = "QUIT" -> Answer([server EXCEPT !.at = "gone"])
    [] OTHER -> Refuse

Unstuffed(chars) == IF Head(chars) = "." THEN Tail(chars) ELSE chars

Greet ==
  /\ server.at = "greeting" /\ Answer([server EXCEPT !.at = "start"])
  /\ UNCHANGED <<client, toserver>>

\* Outside of a DATA, a line that is none of its commands is refused.
ServerReads ==
  /\ server.at \notin {"greeting", "gone"} /\ toserver # <<>>
  /\ LET line == Head(toserver) IN
     IF server.at # "data"
     THEN IF line.kind = "command" THEN Obey(line.verb) \/ Refuse
          ELSE Answer([server EXCEPT !.data = @ + 1])
     ELSE IF line.kind = "data" /\ line.chars = <<".">>
          THEN \/ Answer([server EXCEPT !.at = "ready",
                                        !.taken = Append(@, [to |-> server.to,
                                                             body |-> server.lines])])
               \/ Refuse
          ELSE /\ server' =
                    IF line.kind # "data" THEN server
                    ELSE [server EXCEPT !.lines = Append(@, IF line.chars = <<>> THEN <<>>
                                                            ELSE Unstuffed(line.chars))]
               /\ UNCHANGED replies
  /\ toserver' = Tail(toserver)
  /\ UNCHANGED client

ServerGoes ==
  /\ server.at # "gone"
  /\ server' = [server EXCEPT !.at = "gone"]
  /\ UNCHANGED <<client, toserver, replies>>

SmtpNext ==
  \/ \E body \in Bodies, n \in Recipients : SendMail([to |-> n[1], cc |-> n[2], body |-> body])
  \/ SendLine \/ RecvLine \/ Quit
  \/ Greet \/ ServerReads \/ ServerGoes

SmtpSpec == SmtpInit /\ [][SmtpNext]_smtpvars

-----------------------------------------------------------------------------
\* A mail as it should arrive: without empty lines and carriage returns.
Meant(mail) ==
  [to |-> mail.to,
   body |-> [i \in DOMAIN Tokens(mail.body) |->
               LET line == Tokens(mail.body)[i] IN
               IF Last(line) = "\r" THEN Front(line) ELSE line]]

\* As long as the server refuses nothing, it gets the mails one after the other, each as it
\* was meant whatever dots its lines begin with, and takes no line of a text for a command;
\* and when send_mail returns true it has taken the mail, if all its replies had one line.
\* Not promised: send_mail also returns true for a mail whose recipients or text the server
\* has refused, and sends a text after a DATA that was refused.  Copies are named in the
\* text and the server is not asked to deliver them.
MailArrives ==
  server.refused = 0 =>
    /\ server.data = 0
    /\ Len(server.taken) <= Len(client.mails)
    /\ \A i \in DOMAIN server.taken : server.taken[i] = Meant(client.mails[i])
    /\ ~server.long =>
         \A i \in DOMAIN client.returned : client.returned[i] => i <= Len(server.taken)
=============================================================================
