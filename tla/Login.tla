------------------------------- MODULE Login -------------------------------
(***************************************************************************)
(* `dawatch login`: run_consent_flow in every terminal it is started in,   *)
(* the browser tabs it opens, whatever else connects to localhost:8080,    *)
(* and the token endpoint.                                                 *)
(*                                                                         *)
(* An attempt is a number.  Its state, its code_verifier and the code that *)
(* DeviantArt issues for its tab are written as that number; 0 is None.    *)
(***************************************************************************)
EXTENDS Integers

CONSTANTS
    Terminal,     \* where `dawatch login` may run
    MaxAttempts,  \* bound: attempts ever made
    Strays        \* what else connects: a subset of Stray

Stray == {"request",  \* a request without a code: favicon.ico, a reload
          "silent"}   \* a connection that sends nothing for a while

None == 0
Attempt == 1..MaxAttempts

ASSUME MaxAttemptsAssumption == MaxAttempts \in Nat
ASSUME StraysAssumption == Strays \subseteq Stray

VARIABLES
    flow,      \* the locals of run_consent_flow in each terminal
    attempts,  \* how many there have been
    tabs,      \* browser tabs that show a consent page, by attempt
    codes,     \* codes DeviantArt has issued and not yet exchanged
    consented  \* history: attempts the user has said yes to

loginVars == <<flow, attempts, tabs, codes, consented>>

Callback == [code : 0..MaxAttempts, state : 0..MaxAttempts, error : BOOLEAN]
Nothing == [code |-> None, state |-> None, error |-> FALSE]

FlowState ==
    [pc : {"off",
           "listen",    \* in handle_request, no connection yet
           "read",      \* in handle_request, a connection that sends nothing
           "validate",  \* the server is closed
           "exchange",  \* about to exchange the code
           "token",     \* returned a refresh token
           "config_error", "auth_error", "os_error"},
     attempt : 0..MaxAttempts,  \* expected_state and code_verifier
     callback : Callback,       \* the class attributes of _CallbackHandler
     code : 0..MaxAttempts]

NoFlow == [pc |-> "off", attempt |-> None, callback |-> Nothing,
           code |-> None]

Listening(t) == flow[t].pc \in {"listen", "read"}

\* One of them has the port.
LoginTypeOK ==
    /\ flow \in [Terminal -> FlowState]
    /\ attempts \in 0..MaxAttempts
    /\ \A t, u \in Terminal : Listening(t) /\ Listening(u) => t = u
    /\ tabs \subseteq 1..attempts
    /\ codes \subseteq consented
    /\ consented \subseteq 1..attempts

LoginInit ==
    /\ flow = [t \in Terminal |-> NoFlow]
    /\ attempts = 0
    /\ tabs = {}
    /\ codes = {}
    /\ consented = {}

-----------------------------------------------------------------------------
Flows(t, f) == flow' = [flow EXCEPT ![t] = f]

\* The port is bound from the creation of the server until server_close().
PortFree == \A t \in Terminal : ~Listening(t)

\* Mutant: the server sets allow_reuse_port.
BeginBeside(t) ==
    /\ flow[t].pc = "off"
    /\ attempts < MaxAttempts
    /\ attempts' = attempts + 1
    /\ tabs' = tabs \cup {attempts'}
    /\ Flows(t, [NoFlow EXCEPT !.pc = "listen", !.attempt = attempts'])
    /\ UNCHANGED <<codes, consented>>

\* A new state and verifier; the callback is cleared; the browser opens.
Begin(t) ==
    /\ flow[t].pc = "off"
    /\ PortFree
    /\ attempts < MaxAttempts
    /\ attempts' = attempts + 1
    /\ tabs' = tabs \cup {attempts'}
    /\ Flows(t, [NoFlow EXCEPT !.pc = "listen", !.attempt = attempts'])
    /\ UNCHANGED <<codes, consented>>

\* Another `dawatch login` has the port: OSError, which is not a DawatchError.
BindFails(t) ==
    /\ flow[t].pc = "off"
    /\ ~PortFree
    /\ Flows(t, [NoFlow EXCEPT !.pc = "os_error"])
    /\ UNCHANGED <<attempts, tabs, codes, consented>>

\* handle_request returns after one connection, and the server is closed.
Receive(t, callback) ==
    /\ Listening(t)
    /\ Flows(t, [flow[t] EXCEPT !.pc = "validate", !.callback = callback])

\* A redirect goes to whoever listens. Behind a silent connection it waits until
\* the server is closed, unless it is what that connection was opened for.
Redirect(callback) ==
    \/ \E t \in Terminal : Receive(t, callback)
    \/ (\A t \in Terminal : flow[t].pc # "listen") /\ UNCHANGED flow

\* The user says yes in the tab of attempt n, which may be an old one.
Consent(n) ==
    /\ n \in tabs
    /\ tabs' = tabs \ {n}
    /\ codes' = codes \cup {n}
    /\ consented' = consented \cup {n}
    /\ Redirect([code |-> n, state |-> n, error |-> FALSE])
    /\ UNCHANGED attempts

Refuse(n) ==
    /\ n \in tabs
    /\ tabs' = tabs \ {n}
    /\ Redirect([code |-> None, state |-> n, error |-> TRUE])
    /\ UNCHANGED <<attempts, codes, consented>>

\* do_GET does not look at the path.
StrayRequest(t) ==
    /\ "request" \in Strays
    /\ Receive(t, Nothing)
    /\ UNCHANGED <<attempts, tabs, codes, consented>>

\* The timeout is the server's; a connection that was accepted has none.
Connect(t) ==
    /\ "silent" \in Strays
    /\ flow[t].pc = "listen"
    /\ Flows(t, [flow[t] EXCEPT !.pc = "read"])
    /\ UNCHANGED <<attempts, tabs, codes, consented>>

Disconnect(t) ==
    /\ flow[t].pc = "read"
    /\ Receive(t, flow[t].callback)
    /\ UNCHANGED <<attempts, tabs, codes, consented>>

\* Mutant: server.timeout is left at None.
NoTimeout(t) == FALSE /\ UNCHANGED loginVars

Timeout(t) ==
    /\ flow[t].pc = "listen"
    /\ Receive(t, flow[t].callback)
    /\ UNCHANGED <<attempts, tabs, codes, consented>>

Stop(t, pc) == Flows(t, [flow[t] EXCEPT !.pc = pc])

Refused(callback) == callback.error \/ callback.code = None

\* Mutant: the state is not compared.
AnyState(callback, expected_state) == ~Refused(callback)

Valid(callback, expected_state) ==
    ~Refused(callback) /\ callback.state = expected_state

\* validate_callback: refused, nothing arrived, another state, or the code.
Validate(t) ==
    /\ flow[t].pc = "validate"
    /\ IF Valid(flow[t].callback, flow[t].attempt)
       THEN Flows(t, [flow[t] EXCEPT !.pc = "exchange",
                                     !.code = flow[t].callback.code])
       ELSE Stop(t, "config_error")
    /\ UNCHANGED <<attempts, tabs, codes, consented>>

\* The endpoint takes a code once, with the verifier of its own challenge. The
\* answer may get lost, be malformed, or carry no refresh token.
Exchange(t) ==
    /\ flow[t].pc = "exchange"
    /\ flow[t].code \in codes
    /\ flow[t].code = flow[t].attempt
    /\ codes' = codes \ {flow[t].code}
    /\ \E pc \in {"token", "config_error", "auth_error"} : Stop(t, pc)
    /\ UNCHANGED <<attempts, tabs, consented>>

\* Refused, or the endpoint cannot be reached.
ExchangeFails(t) ==
    /\ flow[t].pc = "exchange"
    /\ Stop(t, "auth_error")
    /\ UNCHANGED <<attempts, tabs, codes, consented>>

Serve(t) ==
    \/ Disconnect(t) \/ Timeout(t)
    \/ Validate(t)
    \/ Exchange(t) \/ ExchangeFails(t)

Browser ==
    \/ \E n \in Attempt : Consent(n) \/ Refuse(n)
    \/ \E t \in Terminal : StrayRequest(t) \/ Connect(t)

-----------------------------------------------------------------------------
(***************************************************************************)
(* Properties.                                                             *)
(***************************************************************************)
\* A code goes to the token endpoint only from the attempt it was issued for,
\* with that attempt's verifier, after the user has said yes to it: the
\* redirect of an older tab, or of another terminal, is never exchanged.
OwnCodeOnly ==
    \A t \in Terminal : flow[t].pc \in {"exchange", "token"} =>
        /\ flow[t].code = flow[t].attempt
        /\ flow[t].code \in consented
=============================================================================
