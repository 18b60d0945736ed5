------------------------------- MODULE MCMailbox -------------------------------
(***************************************************************************)
(* A mailbox that always answers, one of whose applications has waited     *)
(* for mail longer than the window of the query.                           *)
(***************************************************************************)
EXTENDS Mailbox, TLC

MCMailOf == << << <<"m1">>, <<"m2">> >>, << <<"m2", "m3">> >> >>

MailSpec == MailInit /\ [][MailNext]_mailVars
=============================================================================
