-------------------------- MODULE MCAdapterSession --------------------------
(* Queries with and without packet numbers and versions, at every level.   *)
EXTENDS AdapterSession

Symbol(type, number, version, frames) == [type |-> type, number |-> number, version |-> version, frames |-> frames]

Hello == Symbol("Initial", 5, None, {"CRYPTO"})
Versioned == Symbol("Initial", None, "v2", {"ACK", "CRYPTO"})
Finished == Symbol("Handshake", None, None, {"ACK", "CRYPTO"})
Request == Symbol("Short", None, None, {"STREAM", "MAX_DATA"})
Asks == Symbol("Initial", None, None, {"STREAM", "PING"})
Unsupported == Symbol("Initial", None, None, {"NEW_TOKEN"})

Session(messages, answers, n, interrupt, patient) ==
    [patient |-> patient, messages |-> messages, answers |-> answers, replies |-> n, interrupt |-> interrupt]
Q(q) == [command |-> "QUERY", query |-> q]
C(command) == [command |-> command, query |-> <<>>]

\* The sleeps are long enough: longer sessions, more answers.
Patient == {
    Session(<<Q(<<Hello, Finished>>), Q(<<Hello>>), C("STOP")>>, {"ack", "nothing"}, 3, FALSE, TRUE),
    Session(<<Q(<<Versioned>>), C("RESET"), Q(<<Hello, Versioned>>), C("STOP")>>, {"ack"}, 3, FALSE, TRUE),
    Session(<<C("START"), Q(<<Hello>>), C("RESET"), Q(<<Versioned>>)>>, {"ack"}, 2, FALSE, TRUE),
    Session(<<Q(<<Asks, Asks>>)>>, {"ack"}, 1, FALSE, TRUE),
    Session(<<Q(<<Hello, Versioned>>)>>, {"nothing", "cleartext"}, 3, TRUE, TRUE),
    Session(<<Q(<<Hello>>), Q(<<Hello>>), C("STOP")>>, {"ack"}, 2, FALSE, TRUE),
    Session(<<Q(<<Hello, Finished, Request>>), C("RESET"), Q(<<Hello>>)>>, {"ack", "cleartext"}, 3, FALSE, TRUE)}

\* They end at any time.
Hasty == {
    Session(<<Q(<<Hello, Finished>>)>>, {"ack"}, 2, FALSE, FALSE),
    Session(<<Q(<<Hello>>), C("RESET"), Q(<<Hello>>), C("STOP")>>, {"ack"}, 1, FALSE, FALSE),
    Session(<<Q(<<Hello>>), Q(<<Hello>>)>>, {"cleartext"}, 1, TRUE, FALSE),
    Session(<<Q(<<Hello>>), Q(<<Unsupported>>)>>, {"nothing"}, 1, FALSE, FALSE),
    Session(<<C("START"), Q(<<Hello>>), Q(<<Unsupported>>)>>, {"ack"}, 1, FALSE, FALSE),
    Session(<<Q(<<Asks>>)>>, {"ack"}, 1, FALSE, FALSE)}

All == Patient \cup Hasty
=============================================================================
