---------------------------- MODULE QuotaReadings ----------------------------
(***************************************************************************)
(* From what a vendor, a client or a stored file says to a quota reading   *)
(* (quota/normalize.py, quota/models.py, quota/pi_live.py, the native      *)
(* helpers and the captures).                                              *)
(*                                                                         *)
(* A report has a window per period.  What the code tells apart in one is  *)
(* whether it is there, whether its percentage is a number, what number,   *)
(* and whether it has a usable reset time; names, layout, time formats and *)
(* fractions are left out.  A normalizer yields the set of readings it     *)
(* makes: one, or none when it rejects.                                    *)
(***************************************************************************)
EXTENDS Integers

Window(shown, numeric, used, reset) ==
  [shown |-> shown, numeric |-> numeric, used |-> used, reset |-> reset]

Absent == Window(FALSE, FALSE, 0, FALSE)
Windows ==
  {Absent, Window(TRUE, TRUE, 40, TRUE), Window(TRUE, TRUE, 104, TRUE),
   Window(TRUE, FALSE, 0, TRUE), Window(TRUE, TRUE, 0, FALSE)}

Report == [five : Windows, weekly : Windows, monthly : Windows]
NoReport == [five |-> Absent, weekly |-> Absent, monthly |-> Absent]

\* quota/models.py: the typed reading; `cached` is never equal to `fresh`, and
\* a monthly window is a set of at most one percentage.
ProviderQuota(fresh, five, weekly, monthly) ==
  [fresh |-> fresh, five |-> five, weekly |-> weekly, monthly |-> monthly, resets |-> TRUE]

Left(used) == 100 - used
LeftOf(w) == {Left(w.used)}
-----------------------------------------------------------------------------
(* Fields.                                                                 *)

\* Mutant: what is over a hundred is not cut off.
_remaining_unclamped(used) == Left(used)

_remaining_percent(used) ==
  LET raw == Left(used) IN IF raw < 0 THEN 0 ELSE IF raw > 100 THEN 100 ELSE raw

_tonumber(w) == w.numeric
_epoch(w) == w.reset
_tonumber_window(w) == w.shown /\ _tonumber(w) /\ _epoch(w)

\* The window and its percentage are what the vendor may report.
InRange(w) == _tonumber_window(w) /\ w.used \in 0 .. 100
Both(holds(_), r) == holds(r.five) /\ holds(r.weekly)
-----------------------------------------------------------------------------
(* CodexBar: a row per provider; its percentages are clamped.              *)

_codexbar_row(r) == r # NoReport
_first_window(w) == w.shown

\* Antigravity's windows are found by the name of the Gemini group, with or
\* without a percentage.
_gemini_window(w) == w.shown

Clamped(r, monthly) ==
  ProviderQuota(TRUE, _remaining_percent(r.five.used), _remaining_percent(r.weekly.used), monthly)

normalize_codexbar_codex(r) ==
  IF _codexbar_row(r) /\ Both(_first_window, r) /\ Both(_tonumber_window, r)
  THEN {Clamped(r, {})} ELSE {}

normalize_codexbar_antigravity(r) ==
  IF _codexbar_row(r) /\ Both(_gemini_window, r) /\ Both(_tonumber_window, r)
  THEN {Clamped(r, {})} ELSE {}

\* The monthly window must be there.
normalize_codexbar_opencode(r) ==
  IF /\ _codexbar_row(r) /\ Both(_first_window, r) /\ _first_window(r.monthly)
     /\ Both(_tonumber_window, r) /\ _tonumber_window(r.monthly)
  THEN {Clamped(r, {_remaining_percent(r.monthly.used)})} ELSE {}

\* The monthly window may be missing, but not malformed.
normalize_codexbar_clinepass(r) ==
  IF /\ _codexbar_row(r) /\ Both(_first_window, r) /\ Both(_tonumber_window, r)
     /\ _first_window(r.monthly) => _tonumber_window(r.monthly)
  THEN {Clamped(r, IF _first_window(r.monthly)
                   THEN {_remaining_percent(r.monthly.used)} ELSE {})}
  ELSE {}

NORMALIZE_BAR(p, r) ==
  CASE p = "codex"       -> normalize_codexbar_codex(r)
    [] p = "antigravity" -> normalize_codexbar_antigravity(r)
    [] p = "opencode"    -> normalize_codexbar_opencode(r)
    [] p = "clinepass"   -> normalize_codexbar_clinepass(r)
-----------------------------------------------------------------------------
(* The Pi captures, read from a file of the current check, and never fresh. *)

Plain(fresh, r, monthly) == ProviderQuota(fresh, Left(r.five.used), Left(r.weekly.used), monthly)

normalize_pi_codex(r) == IF Both(InRange, r) THEN {Plain(FALSE, r, {})} ELSE {}

normalize_pi_antigravity(r) == IF Both(InRange, r) THEN {Plain(FALSE, r, {})} ELSE {}

\* A malformed monthly window is dropped; a number out of range is not.
PlainMonthly(w) == IF _tonumber_window(w) THEN LeftOf(w) ELSE {}

normalize_pi_opencode(r) ==
  IF Both(InRange, r) THEN {Plain(FALSE, r, PlainMonthly(r.monthly))} ELSE {}

normalize_pi_clinepass(r) ==
  IF Both(InRange, r) THEN {Plain(FALSE, r, PlainMonthly(r.monthly))} ELSE {}

NORMALIZE_PI(p, r) ==
  CASE p = "codex"       -> normalize_pi_codex(r)
    [] p = "antigravity" -> normalize_pi_antigravity(r)
    [] p = "opencode"    -> normalize_pi_opencode(r)
    [] p = "clinepass"   -> normalize_pi_clinepass(r)
-----------------------------------------------------------------------------
(* What a turn leaves in its capture file.                                 *)

\* The Codex headers are written as they come.
captureCodexQuota(r) == [r EXCEPT !.monthly = Absent]

\* The other two extensions clamp, and leave out a window they cannot read.
normalizeWindow(w) ==
  IF _tonumber_window(w) THEN [w EXCEPT !.used = 100 - _remaining_percent(w.used)] ELSE Absent

captureAntigravityQuota(r) ==
  [five |-> normalizeWindow(r.five), weekly |-> normalizeWindow(r.weekly), monthly |-> Absent]

captureOpencodeQuota(r) ==
  [five |-> normalizeWindow(r.five), weekly |-> normalizeWindow(r.weekly),
   monthly |-> normalizeWindow(r.monthly)]

\* runtime/direct.py: a window out of range is left out, and without both of
\* the others nothing is written.
_window(w) == IF InRange(w) THEN w ELSE Absent

_snapshot_opencode(r) ==
  IF Both(InRange, r)
  THEN {[five |-> r.five, weekly |-> r.weekly, monthly |-> _window(r.monthly)]} ELSE {}

_snapshot_clinepass(r) ==
  IF Both(InRange, r)
  THEN {[five |-> r.five, weekly |-> r.weekly, monthly |-> _window(r.monthly)]} ELSE {}

\* ClinePass has no capturing extension, and only the keyed vendors are direct.
Captured(p, ch) ==
  CASE ch = "pi" /\ p = "codex"           -> {captureCodexQuota(r) : r \in Report}
    [] ch = "pi" /\ p = "antigravity"     -> {captureAntigravityQuota(r) : r \in Report}
    [] ch = "pi" /\ p = "opencode"        -> {captureOpencodeQuota(r) : r \in Report}
    [] ch = "direct" /\ p = "opencode"    -> UNION {_snapshot_opencode(r) : r \in Report}
    [] ch = "direct" /\ p = "clinepass"   -> UNION {_snapshot_clinepass(r) : r \in Report}
    [] OTHER -> {}
-----------------------------------------------------------------------------
(* Native: the vendor's own report, strictly read.                         *)

_native_codex_windows(r) == IF Both(InRange, r) THEN {Plain(TRUE, r, {})} ELSE {}

antigravity_report(r) == IF Both(InRange, r) THEN {Plain(TRUE, r, {})} ELSE {}

\* A monthly window that is absent or malformed is omitted.
DisplayOnly(w) == IF InRange(w) THEN LeftOf(w) ELSE {}

opencode_report(r) ==
  IF Both(InRange, r) THEN {Plain(TRUE, r, DisplayOnly(r.monthly))} ELSE {}

clinepass_report(r) ==
  IF Both(InRange, r) THEN {Plain(TRUE, r, DisplayOnly(r.monthly))} ELSE {}

NORMALIZE_NATIVE(p, r) ==
  CASE p = "codex"       -> _native_codex_windows(r)
    [] p = "antigravity" -> antigravity_report(r)
    [] p = "opencode"    -> opencode_report(r)
    [] p = "clinepass"   -> clinepass_report(r)

\* quota/pi_live.py: strict, the monthly window of OpenCode included; ClinePass
\* has no such query.
normalize_pi_live(p, r) ==
  LET monthly == p = "opencode" /\ r.monthly.shown IN
  IF p # "clinepass" /\ Both(InRange, r) /\ (monthly => InRange(r.monthly))
  THEN {Plain(TRUE, r, IF monthly THEN LeftOf(r.monthly) ELSE {})} ELSE {}
-----------------------------------------------------------------------------
(* The document boundary: what is stored, and read back later.             *)

demote_to_cached(q) == [q EXCEPT !.fresh = FALSE]

renormalize_document(doc) == IF doc.resets THEN {doc} ELSE {}

_parse_window(left) == left \in 0 .. 100
parse_document(doc) ==
  IF _parse_window(doc.five) /\ _parse_window(doc.weekly) /\ \A m \in doc.monthly : _parse_window(m)
  THEN {doc} ELSE {}

\* _read_cache and the stored half of _read_pi: whatever the file claims, it
\* is not fresh.
ReadStored(file) ==
  UNION {parse_document(demote_to_cached(doc)) : doc \in renormalize_document(file)}

SameWindows(q, r) == q.five = r.five /\ q.weekly = r.weekly /\ q.monthly = r.monthly
=============================================================================
