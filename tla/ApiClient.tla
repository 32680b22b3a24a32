------------------------------ MODULE ApiClient ------------------------------
(***************************************************************************)
(* Api::ApiClient (src/api/apiclient.cpp): what of a server's answer        *)
(* arrives, and what the one callback of a request is told about it.        *)
(*                                                                          *)
(* A request ends once, by finished(): with the whole answer; with its      *)
(* status but not its whole body, when the connection breaks or the 30 s of *)
(* armTimeout end in the middle of the body; or with nothing.               *)
(***************************************************************************)
EXTENDS Integers

CONSTANT NoBody  \* an empty or cut off body

NoStatus  == 0
Accepted  == 200
Rejected  == 400   \* no such item, an outdated revision, an ended session
BadToken  == 401
Forbidden == 403
Statuses  == {Accepted, Rejected, BadToken, Forbidden}

Answer(status, body) == [status |-> status, body |-> body]

Silence == Answer(NoStatus, NoBody)
CutOff(answer) == Answer(answer.status, NoBody)
Arrivals(answer) == {answer, CutOff(answer), Silence}

(* A transport error is reported only while no status arrived: the abort of  *)
(* a request whose headers came is an answer like any other.  sendAuthed     *)
(* takes any 2xx, sync takes 200, whatever their bodies; a token answer must *)
(* parse as well.                                                            *)
WriteOk(answer) == answer.status \in 200 .. 299
SyncOk(answer)  == answer.status = Accepted
TokenOk(answer) == answer.status = Accepted /\ answer.body # NoBody

(* What writeAndResync takes for an expired access token.                    *)
TokenExpired(answer) == answer.status \in {BadToken, Forbidden}
=============================================================================
