------------------------------- MODULE NetspaceUrl -------------------------------
(***************************************************************************)
(* Urls of the netspace (shared/infrastructure/netspace_url.cpp):          *)
(* spring://route:geosub/resource?query                                    *)
(*                                                                         *)
(* A text is what follows "spring://", as a sequence of letters and        *)
(* separators; a part of a url is a sequence of letters.  The parser of    *)
(* the code is a loop over the characters of the text and over the '\0'    *)
(* after the last one, which a text may also hold inside.                  *)
(***************************************************************************)
EXTENDS Integers, SequencesExt

CONSTANT Letters   \* characters that separate nothing

Nul == "nul"
Characters == Letters \cup {".", ":", "/", "?", Nul}

ASSUME LettersAssumption == {".", ":", "/", "?", Nul} \cap Letters = {}

Part == Seq(Letters)
Url == [gsn : Seq(Part), glq : Part, res : Part, spq : Part]
EmptyUrl == [gsn |-> <<>>, glq |-> <<>>, res |-> <<>>, spq |-> <<>>]

(* The url so far, the component the loop is in, and t, the part it reads *)
Scan == [url : Url, state : {"gsn", "glq", "res", "spq"}, t : Part]

(* A part that ends belongs to the component it was read in; a mistake: it *)
(* is always the next element of the route.                                *)
StoredAsRoute(s) == [s.url EXCEPT !.gsn = Append(@, s.t)]
Stored(s) ==
  CASE s.state = "gsn" -> [s.url EXCEPT !.gsn = Append(@, s.t)]
    [] s.state = "glq" -> [s.url EXCEPT !.glq = s.t]
    [] s.state = "res" -> [s.url EXCEPT !.res = s.t]
    [] s.state = "spq" -> [s.url EXCEPT !.spq = s.t]

(* The '\0' after the last character; a mistake: it is like any other *)
NeverTerminates(ch) == FALSE
Terminates(ch) == ch = Nul

(* One turn of the loop in decode: '.' and ':' end an element of the route *)
(* wherever they stand, '/' and '?' drop a part that is not theirs to end. *)
Turn(s, ch) ==
  CASE ch \in {".", ":"} ->
         [url |-> [s.url EXCEPT !.gsn = Append(@, s.t)],
          state |-> IF ch = ":" THEN "glq" ELSE s.state, t |-> <<>>]
    [] ch = "/" ->
         [url |-> IF s.state \in {"gsn", "glq"} THEN Stored(s) ELSE s.url, state |-> "res", t |-> <<>>]
    [] ch = "?" ->
         [url |-> IF s.state # "spq" THEN Stored(s) ELSE s.url, state |-> "spq", t |-> <<>>]
    [] Terminates(ch) ->
         [url |-> Stored(s), state |-> s.state, t |-> <<>>]
    [] OTHER -> [s EXCEPT !.t = Append(@, ch)]

(* decode throws on an empty text; its other test, for an empty route, can *)
(* not succeed.                                                            *)
Malformed(text) == text = <<>>

Begin == [url |-> EmptyUrl, state |-> "gsn", t |-> <<>>]

(* Where the loop is when it has read a text *)
Scanned(from, text) ==
  LET scan[n \in 0..Len(text)] == IF n = 0 THEN from ELSE Turn(scan[n - 1], text[n])
  IN  scan[Len(text)]

Decode(text) == Scanned(Begin, Append(text, Nul)).url

(* Every element of the route but the last is followed by a dot *)
Dots(gsn) ==
  LET out[n \in 0..Len(gsn)] == IF n = 0 THEN <<>> ELSE out[n - 1] \o gsn[n] \o <<".">>
  IN  out[Len(gsn)]
Dotted(gsn) == IF gsn = <<>> THEN <<>> ELSE Dots(Front(gsn)) \o Last(gsn)
Headed(separator, part) == IF part = <<>> THEN <<>> ELSE <<separator>> \o part

(* netspace_url::to_string; a mistake: the geosub query is left out *)
ToUrlShort(u) == Dotted(u.gsn) \o Headed("/", u.res) \o Headed("?", u.spq)
ToUrl(u) == Dotted(u.gsn) \o Headed(":", u.glq) \o Headed("/", u.res) \o Headed("?", u.spq)

================================================================================
