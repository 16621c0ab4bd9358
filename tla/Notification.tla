---------------------------- MODULE Notification ----------------------------
(***************************************************************************)
(* The notification service: a consumer of BookingConfirmed whose handler  *)
(* writes a sent_notification row and hands an email to the SMTP relay,    *)
(* both inside the transaction of the inbox.  A transaction can be rolled  *)
(* back; an email cannot.                                                  *)
(*                                                                         *)
(* The queue, the retries and the inbox are those of Consumer.  Events are *)
(* BookingConfirmed envelopes, Poison the ones no address can be found     *)
(* for: the payload does not decode, or names no customer.                 *)
(***************************************************************************)
EXTENDS Consumer

VARIABLES
  sent,      \* the sent_notification table: events with a committed row
  mails      \* emails the relay accepted, per event

mailVars == <<sent, mails>>
allVars == <<vars, mailVars>>

-----------------------------------------------------------------------------
NotificationInit ==
  /\ Init
  /\ sent = {}
  /\ mails = [e \in Events |-> 0]

\* Decoding and Resolve fail alike on every attempt, or on none.
Resolvable(e) == e \notin Poison

\* RecordSent: ON CONFLICT DO NOTHING.  Only a row that was not there is
\* followed by an email.
Inserted(e) == e \notin sent

Mail(e) == mails' = [mails EXCEPT ![e] = @ + 1]

\* Mutant: the email is sent by the caller, once the transaction is committed.
NotifyLater(w) ==
  /\ Handle(w)
  /\ UNCHANGED mailVars

\* ConfirmationHandler.Handle: the row is staged first, then the email is sent.
Notify(w) ==
  /\ Handle(w)
  /\ IF Inserted(worker[w].event) THEN Mail(worker[w].event) ELSE UNCHANGED mails
  /\ UNCHANGED sent

NotifyFails(w) ==
  /\ HandlerFails(w)
  /\ ~Resolvable(worker[w].event)
  /\ UNCHANGED mailVars

\* SMTPMailer.Send fails, and the relay may have accepted the email before the
\* connection broke.
SendFails(w) ==
  /\ worker[w].pc = "claimed"
  /\ Resolvable(worker[w].event)
  /\ Inserted(worker[w].event)
  /\ AttemptFails(w)
  /\ Mail(worker[w].event) \/ UNCHANGED mails
  /\ UNCHANGED sent

\* The sent_notification row commits with the dedupe row, or not at all.
Keep(w) == sent' = sent \cup {worker[w].event}

-----------------------------------------------------------------------------
Step(w) ==
  \/ Notify(w)
  \/ NotifyFails(w)
  \/ Commit(w) /\ Keep(w) /\ UNCHANGED mails
  \/ /\ \/ \E e \in Events : Receive(w, e)
        \/ ClaimEvent(w)
        \/ Backoff(w)
        \/ Ack(w)
     /\ UNCHANGED mailVars

Trouble(w) ==
  \/ SendFails(w)
  \/ CommitUnknown(w) /\ Keep(w) /\ UNCHANGED mails
  \/ (AttemptFails(w) \/ Drop(w)) /\ UNCHANGED mailVars

NotificationNext ==
  \/ \E w \in Workers : Step(w) \/ Trouble(w)
  \/ \E e \in Events : Arrive(e) /\ UNCHANGED mailVars

NotificationFairness ==
  /\ \A w \in Workers : WF_allVars(Step(w))
  /\ \A e \in Events :
       SF_allVars((\E w \in Workers : Receive(w, e)) /\ UNCHANGED mailVars)

NotificationSpec ==
  NotificationInit /\ [][NotificationNext]_allVars /\ NotificationFairness

-----------------------------------------------------------------------------
(* Properties. *)

NotificationTypeOK ==
  /\ TypeOK
  /\ sent \subseteq Events
  /\ mails \in [Events -> Nat]

\* A confirmation is never lost and never sent twice for nothing: an event that
\* is done with has its row and its email, and each email beyond the first is
\* owed to a crash, a failed transaction or a lost answer.
ConfirmationMailed ==
  \A e \in Events :
    /\ e \in processed <=> e \in sent
    /\ e \in processed => mails[e] > 0
    /\ mails[e] <= 1 + lapses

=============================================================================
