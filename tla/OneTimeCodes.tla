----------------------------- MODULE OneTimeCodes -----------------------------
(***************************************************************************)
(* Authenticator codes: the parameters in an item's secret                  *)
(* (parseTotpSecret and totpCode, vault.cpp), the code of a time and the     *)
(* seconds it has left (totp.cpp), polled by ItemDetailPage every second.   *)
(*                                                                          *)
(* A secret is a scheme and, of an otpauth URI, the list of its parameters  *)
(* in order; the value of a number is what atoi makes of it.  The HMAC is a *)
(* constant: a row of bytes for a key and a counter.                        *)
(***************************************************************************)
EXTENDS Codecs

CONSTANTS
  IntSize,        \* 2^32, the values of an unsigned int
  Hmac(_, _, _)   \* algorithm, key bytes, counter

Algorithms == {"SHA1", "SHA256", "SHA512"}

(* static_cast between int and uint32_t.                                     *)
Unsigned(n) == n % IntSize
Signed(n)   == IF 2 * n >= IntSize THEN n - IntSize ELSE n

-----------------------------------------------------------------------------
(* TotpSpec, and what a parameter of the URI changes of it; the last of      *)
(* several of one name counts, an unknown algorithm ends the parse.          *)
DefaultSpec ==
  [secret |-> << >>, period |-> 30, digits |-> 6, algorithm |-> "SHA1"]

WithParameter(spec, p) ==
  CASE p.key = "secret" -> [spec EXCEPT !.secret = p.value]
    [] p.key = "period" -> [spec EXCEPT !.period = Unsigned(p.value)]
    [] p.key = "digits" -> [spec EXCEPT !.digits = p.value]
    [] p.key = "algorithm" -> [spec EXCEPT !.algorithm = p.value]
    [] OTHER -> spec

Unknown(p) == p.key = "algorithm" /\ p.value \notin Algorithms

ValidSpec(spec) ==
  spec.secret # << >> /\ spec.period # 0 /\ spec.digits \in 6 .. 10

(* raw: [scheme, secret] or, for an otpauth URI, [scheme, query].            *)
ParseTotpSecret(raw) ==
  CASE raw.scheme = "steam" -> Refused
    [] raw.scheme = "plain" -> [DefaultSpec EXCEPT !.secret = raw.secret]
    [] raw.scheme = "otpauth" ->
         LET spec[k \in 0 .. Len(raw.query)] ==
               IF k = 0 THEN DefaultSpec
               ELSE WithParameter(spec[k - 1], raw.query[k])
             parsed == spec[Len(raw.query)]
         IN IF (\E k \in DOMAIN raw.query : Unknown(raw.query[k])) \/ ~ValidSpec(parsed)
            THEN Refused ELSE parsed

-----------------------------------------------------------------------------
(* hotp: 31 bits from the place the last byte names (RFC 4226 5.3), as so    *)
(* many decimal digits, the upper ones dropped or zero.                      *)
Truncated(mac) ==
  LET offset == mac[Len(mac)] % 16
  IN (mac[offset + 1] % 128) * 16777216 + mac[offset + 2] * 65536
       + mac[offset + 3] * 256 + mac[offset + 4]

Digits(binary, n) == [k \in 1 .. n |-> (binary \div 10 ^ (n - k)) % 10]

Hotp(key, counter, digits, algorithm) ==
  Digits(Truncated(Hmac(algorithm, key, counter)), digits)
HotpThrows(key, digits) == key = << >> \/ digits \notin 6 .. 10

Totp(key, time, spec) ==
  Hotp(key, time \div spec.period, spec.digits, spec.algorithm)
TotpThrows(key, spec) == spec.period = 0 \/ HotpThrows(key, spec.digits)

(* secondsRemaining; passed on as an int.                                    *)
SecondsElapsed(time, period) ==  \* mutant of SecondsRemaining
  Signed(time % period)
SecondsRemaining(time, period) ==
  Signed(Unsigned(period - (time % period)))

(* totpCode of an item whose secret was deciphered.                          *)
TotpCode(raw, time) ==
  LET spec == ParseTotpSecret(raw) IN
  IF spec = Refused THEN Refused
  ELSE LET key == Base32Decode(spec.secret) IN
       IF key = Refused \/ TotpThrows(key, spec) THEN Refused
       ELSE [code |-> Totp(key, time, spec),
             seconds |-> SecondsRemaining(time, spec.period)]

-----------------------------------------------------------------------------
(* The countdown of ItemDetailPage: from one second to the next it falls by   *)
(* one and the code stays, or it was at 1, starts at the full period and the *)
(* code is the next counter's.  The code has the digits asked for and is the *)
(* last of the 31 bits in decimal; they lie within the MAC.  Periods of 2^31 *)
(* and more (a negative number in the URI) are accepted and their countdown  *)
(* is negative: they are left out here.                                      *)
Countdown(raw, time) ==
  LET spec == ParseTotpSecret(raw)
      now  == TotpCode(raw, time)
      next == TotpCode(raw, time + 1)
  IN spec # Refused /\ 2 * spec.period < IntSize /\ now # Refused =>
       /\ now.seconds \in 1 .. spec.period
       /\ IF now.seconds = 1
          THEN /\ next.seconds = spec.period
               /\ next.code = Hotp(Base32Decode(spec.secret),
                                   (time \div spec.period) + 1, spec.digits,
                                   spec.algorithm)
          ELSE next.seconds = now.seconds - 1 /\ next.code = now.code

(* RFC 4226 5.3 by bits: 31 of them from bit 1 of byte offset, as decimals.  *)
CodeIsRfc(key, counter, digits, algorithm) ==
  LET mac    == Hmac(algorithm, key, counter)
      offset == Regrouped(<< mac[Len(mac)] % 16 >>, 4, 4, 1)[1]
      number == Joined(2, [k \in 1 .. 31 |-> Bit(mac, 8, 8 * offset + k)])
      code   == Hotp(key, counter, digits, algorithm)
  IN /\ offset + 4 <= Len(mac) /\ Len(code) = digits
     /\ Joined(10, code) = IF digits < 10 THEN number % 10 ^ digits ELSE number
=============================================================================
