--------------------------- MODULE Desktop_proofs ---------------------------
(***************************************************************************)
(* Proofs about the desktop: the mouse, the pointer on the screen, and the *)
(* clock's time.  The three arguments are apart, each with an inductive    *)
(* invariant of its own, as the parts share nothing but desktop_tick's     *)
(* program counter.                                                        *)
(***************************************************************************)
EXTENDS Desktop, TLAPS

(***************************************************************************)
(* The mouse.  As long as no byte is lost, the bytes between the mouse and *)
(* the driver, those of packet followed by those of wire, are none or one  *)
(* whole movement d, and applying d to the driver's position gives the     *)
(* ghost's.                                                                *)
(***************************************************************************)
Leads(d) ==
  want = IF FirstByte(d).overflow THEN <<mx, my>> ELSE <<Within(mx + d[1], W), Within(my - d[2], H)>>
Flight(d) ==
  \/ packet = <<>> /\ wire = <<FirstByte(d), MoveByte(d[1]), MoveByte(d[2])>>
  \/ packet = <<FirstByte(d)>> /\ wire = <<MoveByte(d[1]), MoveByte(d[2])>>
  \/ packet = <<FirstByte(d), MoveByte(d[1])>> /\ wire = <<MoveByte(d[2])>>
MouseInv ==
  ~lost => /\ mx \in 0..W - 1 /\ my \in 0..H - 1
           /\ \/ packet = <<>> /\ wire = <<>> /\ want = <<mx, my>>
              \/ \E d \in Moves : Flight(d) /\ Leads(d)

(***************************************************************************)
(* The screen.  Once gfx_present has copied the clock, its pixels are the  *)
(* back buffer's, except where the echo has painted the pointer over them. *)
(***************************************************************************)
ScreenInv ==
  /\ back \in [Pixels -> {"paper", "bar", "digits", "char"}]
  /\ PointerOnTop
  /\ dpc = "overlay" =>
       \A p \in Clock : front[p] = back[p] \/ (p \in Pointer(cur, cur_on) /\ front[p] = "pointer")

(***************************************************************************)
(* The time.  A reading is whole when it is what the chip shows of a time  *)
(* it had during the call.  A reading that an update tears leaves the chip *)
(* in the update, or with at most this reading completed since its end; so *)
(* the next reading waits for the end of the update, and no update begins  *)
(* during it.  At the comparison, then, one of the two readings is whole.  *)
(***************************************************************************)
Times == [hour : 0..23, second : 0..SECONDS - 1]
Formats == [bcd : BOOLEAN, h24 : BOOLEAN]
Image(t) == [hour |-> ShownHour(fmt, t.hour), second |-> Shown(fmt, t.second)]
Whole(r) == \E t \in during : r = Image(t)
Between == uip \/ calm <= 1
Settled == ~uip /\ calm <= 1
SecondRight == b.second = Shown(fmt, now.second)

RtcTypes ==
  /\ now \in Times /\ fmt \in Formats /\ uip \in BOOLEAN /\ broken \in BOOLEAN
  /\ polls \in Nat /\ calm \in Nat /\ during \subseteq Times
  /\ a \in [hour : Int, second : Int] /\ b \in [hour : Int, second : Int]
  /\ rpc \in {"out", "wait1", "second1", "hour1", "again", "wait2", "second2", "hour2", "compare", "done"}
Readings ==
  /\ polls < POLLS
  /\ rpc \in {"hour1", "hour2"} => uip \/ calm = 0 \/ SecondRight
  /\ rpc \in {"again", "compare"} => Whole(b) \/ Between
  /\ rpc = "wait2" => Whole(a) \/ Between
  /\ rpc = "second2" => Whole(a) \/ Settled
  /\ rpc = "hour2" => Whole(a) \/ (Settled /\ SecondRight)
  /\ rpc = "compare" => Whole(a) \/ Whole(b)
Called == rpc \notin {"out", "done"} => now \in during
RtcInv == RtcTypes /\ Called /\ (~broken => Readings)

DesktopInv == MouseInv /\ ScreenInv /\ RtcInv

-----------------------------------------------------------------------------
\* The operators of the mouse.

\* Within: the nearest position on the screen is the clamped one.
LEMMA WithinClamp == \A n \in Nat \ {0} : \A x \in Int : Within(x, n) = Clamp(x, n) /\ Clamp(x, n) \in 0..n - 1
<1> SUFFICES ASSUME NEW n \in Nat \ {0}, NEW x \in Int
             PROVE  Within(x, n) = Clamp(x, n) /\ Clamp(x, n) \in 0..n - 1
  OBVIOUS
<1> DEFINE Fit(y) == (x < y => y = 0) /\ (x > y => y = n - 1)
<1>1. Clamp(x, n) \in 0..n - 1 /\ Fit(Clamp(x, n))
  BY DEF Clamp
<1>2. \A y, z \in 0..n - 1 : Fit(y) /\ Fit(z) => y = z
  OBVIOUS
<1>3. Within(x, n) = CHOOSE y \in 0..n - 1 : Fit(y)
  BY DEF Within
<1> HIDE DEF Fit
<1>4. Within(x, n) \in 0..n - 1 /\ Fit(Within(x, n))
  BY <1>1, <1>3, Zenon
<1> QED
  BY <1>1, <1>2, <1>4, Zenon

\* Delta: the sign and the low bits give the movement back, when it fits.
LEMMA DeltaMove == \A d \in Int : Fits(d) => Delta(d < 0, d % BYTE) = d
<1> SUFFICES ASSUME NEW d \in Int, Fits(d) PROVE Delta(d < 0, d % BYTE) = d
  OBVIOUS
<1>1. CASE d >= 0
  BY <1>1, MouseAssumption DEF Fits, Delta
<1>2. CASE d < 0 /\ d + BYTE < BYTE /\ d + BYTE >= 0
  <2>1. d % BYTE = d + BYTE
    BY <1>2, MouseAssumption
  <2> QED BY <1>2, <2>1, MouseAssumption DEF Delta
<1> QED
  BY <1>1, <1>2, MouseAssumption DEF Fits

-----------------------------------------------------------------------------
\* The mouse's steps.

\* Handing a byte from one tuple to the other.
LEMMA Appended ==
  ASSUME NEW S, NEW s \in Seq(S), NEW t \in Seq(S), NEW e \in S,
         Len(t) = Len(s) + 1, \A i \in 1..Len(s) : t[i] = s[i], t[Len(s) + 1] = e
  PROVE  Append(s, e) = t
<1>1. Append(s, e) \in Seq(S) /\ Len(Append(s, e)) = Len(s) + 1
  OBVIOUS
<1>2. Append(s, e)[Len(s) + 1] = e /\ \A i \in 1..Len(s) : Append(s, e)[i] = s[i]
  OBVIOUS
<1>3. \A i \in 1..Len(t) : Append(s, e)[i] = t[i]
  BY <1>2
<1> QED
  BY <1>1, <1>3

LEMMA Handed ==
  ASSUME NEW x, NEW y, NEW z
  PROVE  Append(<<x>>, y) = <<x, y>> /\ Append(<<x, y>>, z) = <<x, y, z>>
<1> DEFINE S == {x, y, z}
<1>1. Append(<<x>>, y) = <<x, y>>
  <2> DEFINE s == <<x>>
             t == <<x, y>>
  <2>1. s \in Seq(S) /\ Len(s) = 1 /\ s[1] = x
    OBVIOUS
  <2>2. t \in Seq(S) /\ Len(t) = 2 /\ t[1] = x /\ t[2] = y /\ y \in S
    OBVIOUS
  <2> HIDE DEF s, t, S
  <2>3. /\ s \in Seq(S) /\ t \in Seq(S) /\ y \in S
        /\ Len(t) = Len(s) + 1 /\ t[Len(s) + 1] = y /\ \A i \in 1..Len(s) : t[i] = s[i]
    BY <2>1, <2>2
  <2>4. Append(s, y) = t
    BY <2>3, Appended, Zenon
  <2> QED
    BY <2>4 DEF s, t
<1>2. Append(<<x, y>>, z) = <<x, y, z>>
  <2> DEFINE s == <<x, y>>
             t == <<x, y, z>>
  <2>1. s \in Seq(S) /\ Len(s) = 2 /\ s[1] = x /\ s[2] = y
    OBVIOUS
  <2>2. t \in Seq(S) /\ Len(t) = 3 /\ t[1] = x /\ t[2] = y /\ t[3] = z /\ z \in S
    OBVIOUS
  <2> HIDE DEF s, t, S
  <2>3. /\ s \in Seq(S) /\ t \in Seq(S) /\ z \in S
        /\ Len(t) = Len(s) + 1 /\ t[Len(s) + 1] = z /\ \A i \in 1..Len(s) : t[i] = s[i]
    BY <2>1, <2>2
  <2>4. Append(s, z) = t
    BY <2>3, Appended, Zenon
  <2> QED
    BY <2>4 DEF s, t
<1> QED
  BY <1>1, <1>2

\* mouse_handle_irq on the last byte of a packet: the driver applies the movement.
LEMMA LastByte ==
  ASSUME NEW d \in Moves, mx \in 0..W - 1, my \in 0..H - 1, Leads(d), mouse_handle_irq,
         packet = <<FirstByte(d), MoveByte(d[1])>>, wire = <<MoveByte(d[2])>>
  PROVE  packet' = <<>> /\ wire' = <<>> /\ mx' \in 0..W - 1 /\ my' \in 0..H - 1 /\ want' = <<mx', my'>>
<1>1. d[1] \in Int /\ d[2] \in Int
  BY MouseAssumption
<1>2. Append(packet, Head(wire)) = <<FirstByte(d), MoveByte(d[1]), MoveByte(d[2])>>
  <2>1. Head(wire) = MoveByte(d[2])
    OBVIOUS
  <2> QED
    BY <2>1, Handed, Zenon
<1>3. packet # <<>> /\ Tail(wire) = <<>>
  OBVIOUS
<1>4. packet' = <<>> /\ wire' = <<>> /\ want' = want
  BY <1>2, <1>3 DEF mouse_handle_irq
<1>5. CASE FirstByte(d).overflow
  <2>1. mx' = mx /\ my' = my
    BY <1>2, <1>3, <1>5 DEF mouse_handle_irq
  <2> QED
    BY <1>4, <1>5, <2>1 DEF Leads
<1>6. CASE ~FirstByte(d).overflow
  <2>1. /\ mx' = Clamp(mx + Delta(FirstByte(d).xneg, MoveByte(d[1]).move), W)
        /\ my' = Clamp(my - Delta(FirstByte(d).yneg, MoveByte(d[2]).move), H)
    BY <1>2, <1>3, <1>6 DEF mouse_handle_irq
  <2>2. Fits(d[1]) /\ Fits(d[2])
    BY <1>6, Zenon DEF FirstByte
  <2>3. mx' = Clamp(mx + Delta(d[1] < 0, d[1] % BYTE), W) /\ my' = Clamp(my - Delta(d[2] < 0, d[2] % BYTE), H)
    BY <2>1 DEF FirstByte, MoveByte
  <2>4. mx' = Clamp(mx + d[1], W) /\ my' = Clamp(my - d[2], H)
    BY <1>1, <2>2, <2>3, DeltaMove
  <2>5. mx + d[1] \in Int /\ my - d[2] \in Int
    BY <1>1
  <2> QED
    BY <1>4, <1>6, <2>4, <2>5, WithinClamp, ScreenAssumption, Zenon DEF Leads
<1> QED
  BY <1>5, <1>6

\* mouse_handle_irq on the others: the byte is kept, as the first has bit 3.
LEMMA EarlierByte ==
  ASSUME NEW d \in Moves, Leads(d), mouse_handle_irq, Flight(d),
         packet = <<>> \/ packet = <<FirstByte(d)>>
  PROVE  UNCHANGED <<mx, my>> /\ Leads(d)' /\ Flight(d)'
<1>1. UNCHANGED want
  BY DEF mouse_handle_irq
<1>2. CASE packet = <<>>
  <2>1. wire = <<FirstByte(d), MoveByte(d[1]), MoveByte(d[2])>>
    BY <1>2 DEF Flight
  <2>2. /\ Append(packet, Head(wire)) = <<FirstByte(d)>>
        /\ Tail(wire) = <<MoveByte(d[1]), MoveByte(d[2])>>
    BY <1>2, <2>1
  <2>3. FirstByte(d).bit3
    BY DEF FirstByte
  <2>4. packet' = <<FirstByte(d)>> /\ wire' = <<MoveByte(d[1]), MoveByte(d[2])>> /\ UNCHANGED <<mx, my>>
    BY <1>2, <2>2, <2>3 DEF mouse_handle_irq
  <2> QED
    BY <1>1, <2>4 DEF Leads, Flight
<1>3. CASE packet = <<FirstByte(d)>>
  <2>1. wire = <<MoveByte(d[1]), MoveByte(d[2])>>
    BY <1>3 DEF Flight
  <2>2. /\ Append(packet, Head(wire)) = <<FirstByte(d), MoveByte(d[1])>>
        /\ Tail(wire) = <<MoveByte(d[2])>> /\ packet # <<>>
    <3>1. Head(wire) = MoveByte(d[1]) /\ Tail(wire) = <<MoveByte(d[2])>> /\ packet # <<>>
      BY <1>3, <2>1
    <3> QED
      BY <1>3, <3>1, Handed, Zenon
  <2>3. packet' = <<FirstByte(d), MoveByte(d[1])>> /\ wire' = <<MoveByte(d[2])>> /\ UNCHANGED <<mx, my>>
    <3>0. Len(<<FirstByte(d), MoveByte(d[1])>>) < 3
      OBVIOUS
    <3>1. PICK bytes : bytes = <<FirstByte(d), MoveByte(d[1])>> /\ Len(bytes) < 3
      BY <3>0, Zenon
    <3>2. packet' = bytes /\ wire' = <<MoveByte(d[2])>> /\ UNCHANGED <<mx, my>>
      BY <2>2, <3>1, Zenon DEF mouse_handle_irq
    <3> QED
      BY <3>1, <3>2
  <2> QED
    BY <1>1, <2>3 DEF Leads, Flight
<1> QED
  BY <1>2, <1>3

LEMMA MouseStep == ASSUME MouseInv, [Next]_vars PROVE MouseInv'
<1> SUFFICES ASSUME ~lost'
             PROVE  /\ mx' \in 0..W - 1 /\ my' \in 0..H - 1
                    /\ \/ packet' = <<>> /\ wire' = <<>> /\ want' = <<mx', my'>>
                       \/ \E d \in Moves : Flight(d)' /\ Leads(d)'
  BY DEF MouseInv
<1>1. CASE UNCHANGED <<mx, my, packet, wire, lost, want>>
  BY <1>1 DEF MouseInv, Flight, Leads
<1>2. CASE MouseMoves
  <2>1. ~lost /\ UNCHANGED <<mx, my, packet>> /\ wire = <<>>
    BY <1>2 DEF MouseMoves
  <2>2. PICK d \in Moves :
          /\ wire' = <<FirstByte(d), MoveByte(d[1]), MoveByte(d[2])>>
          /\ want' = IF FirstByte(d).overflow THEN want
                     ELSE <<Within(want[1] + d[1], W), Within(want[2] - d[2], H)>>
    BY <1>2, Zenon DEF MouseMoves
  <2>3. packet = <<>> /\ want = <<mx, my>> /\ mx \in 0..W - 1 /\ my \in 0..H - 1
    BY <2>1 DEF MouseInv, Flight
  <2>4. Flight(d)'
    BY <2>1, <2>2, <2>3 DEF Flight
  <2>5. Leads(d)'
    BY <2>1, <2>2, <2>3 DEF Leads
  <2> QED
    BY <2>1, <2>3, <2>4, <2>5
<1>3. CASE ByteLost
  BY <1>3 DEF ByteLost
<1>4. CASE mouse_handle_irq
  <2>1. ~lost /\ wire # <<>>
    BY <1>4 DEF mouse_handle_irq
  <2>2. PICK d \in Moves : Flight(d) /\ Leads(d)
    BY <2>1 DEF MouseInv
  <2>3. mx \in 0..W - 1 /\ my \in 0..H - 1
    BY <2>1 DEF MouseInv
  <2>4. CASE packet = <<>> \/ packet = <<FirstByte(d)>>
    BY <1>4, <2>2, <2>3, <2>4, EarlierByte
  <2>5. CASE packet = <<FirstByte(d), MoveByte(d[1])>> /\ wire = <<MoveByte(d[2])>>
    BY <1>4, <2>2, <2>3, <2>5, LastByte
  <2> QED
    BY <2>2, <2>4, <2>5 DEF Flight
<1>5. CASE desktop_tick \/ Chip \/ fbcon_putc \/ UNCHANGED vars
  BY <1>1, <1>5, Zenon DEF desktop_tick, Chip, fbcon_putc, vars, mouseVars, mouse_poll, gfx_cursor_set, TickRead,
    TickReading, TickSame, TickDraws, DrawBar, DrawDigits, DrawBack, PresentCopy, overlay_cursor
<1> QED
  BY <1>2, <1>3, <1>4, <1>5 DEF Next

-----------------------------------------------------------------------------
\* The screen's steps.

\* A pixel shows the back buffer, or the pointer on top of it.
LEMMA ShowsDef ==
  PointerOnTop <=>
    \A p \in Pixels : ~(p \in Clock /\ dpc \in {"text", "copy", "overlay"})
                        => front[p] = IF p \in Pointer(cur, cur_on) THEN "pointer" ELSE back[p]
BY DEF PointerOnTop

\* fbcon_putc keeps the screen, whatever step of draw_clock it falls into.
LEMMA EchoScreen == ASSUME ScreenInv, fbcon_putc PROVE ScreenInv'
<1>1. PICK q \in Console : back' = [back EXCEPT ![q] = "char"] /\ front' = gfx_present(front, back', {q}, cur, cur_on)
  BY Zenon DEF fbcon_putc
<1>2. UNCHANGED <<cur, cur_on, dpc>>
  BY DEF fbcon_putc
<1>3. q \in Pixels
  BY ScreenAssumption
<1>4. back' \in [Pixels -> {"paper", "bar", "digits", "char"}] /\ \A p \in Pixels : p # q => back'[p] = back[p]
  BY <1>1, <1>3 DEF ScreenInv
<1>5. \A p \in Pixels : front'[p] = IF p = q THEN (IF p \in Pointer(cur, cur_on) THEN "pointer" ELSE back'[p])
                                   ELSE front[p]
  <2> TAKE p \in Pixels
  <2>1. front'[p] = IF p \in {q} /\ p \in Pointer(cur, cur_on) THEN "pointer" ELSE IF p \in {q} THEN back'[p] ELSE front[p]
    BY <1>1 DEF gfx_present
  <2> QED
    BY <2>1
<1>6. Pointer(cur, cur_on)' = Pointer(cur, cur_on)
  BY <1>2 DEF Pointer, Under
<1>7. PointerOnTop'
  <2>1. \A p \in Pixels : ~(p \in Clock /\ dpc \in {"text", "copy", "overlay"})
                        => front[p] = IF p \in Pointer(cur, cur_on) THEN "pointer" ELSE back[p]
    BY ShowsDef DEF ScreenInv
  <2> QED
    BY <1>2, <1>4, <1>5, <1>6, <2>1 DEF PointerOnTop
<1>8. ASSUME dpc' = "overlay"
      PROVE  \A p \in Clock : front'[p] = back'[p] \/ (p \in Pointer(cur, cur_on)' /\ front'[p] = "pointer")
  <2>1. \A p \in Clock : front[p] = back[p] \/ (p \in Pointer(cur, cur_on) /\ front[p] = "pointer")
    BY <1>2, <1>8 DEF ScreenInv
  <2> QED
    BY <1>4, <1>5, <1>6, <2>1, ScreenAssumption
<1> QED
  BY <1>4, <1>7, <1>8 DEF ScreenInv

\* gfx_cursor_set: the pixels of the old place are the back buffer's again, and
\* the pointer is at the new one.
LEMMA MovedScreen == ASSUME ScreenInv, gfx_cursor_set PROVE ScreenInv'
<1>1. PICK old : /\ old = gfx_present(front, back, Pointer(cur, cur_on), m, TRUE)
                 /\ front' = gfx_present(old, back, Under(m), m, TRUE)
  BY Zenon DEF gfx_cursor_set
<1>2. dpc = "cursor" /\ dpc' = "rtc" /\ cur' = m /\ cur_on' = TRUE /\ back' = back
  BY DEF gfx_cursor_set, At
<1>3. Pointer(m, TRUE) = Under(m) /\ Pointer(cur, cur_on)' = Under(m)
  BY <1>2 DEF Pointer, Under
<1>4. \A p \in Pixels : front[p] = IF p \in Pointer(cur, cur_on) THEN "pointer" ELSE back[p]
  BY <1>2, ShowsDef DEF ScreenInv
<1>5. \A p \in Pixels : front'[p] = IF p \in Under(m) THEN "pointer" ELSE back[p]
  <2> TAKE p \in Pixels
  <2>1. p \notin Under(m) => old[p] = back[p]
    BY <1>1, <1>3, <1>4, Zenon DEF gfx_present
  <2>2. front'[p] = IF p \in Under(m) THEN "pointer" ELSE old[p]
    BY <1>1, <1>3, Zenon DEF gfx_present
  <2> QED
    BY <2>1, <2>2
<1>6. PointerOnTop'
  BY <1>2, <1>3, <1>5 DEF PointerOnTop
<1> QED
  BY <1>2, <1>6 DEF ScreenInv

\* draw_clock: the bar and the digits change pixels of the clock alone.
LEMMA DrawnScreen == ASSUME ScreenInv, DrawBar \/ DrawDigits PROVE ScreenInv'
<1>1. /\ back' \in [Pixels -> {"paper", "bar", "digits", "char"}]
      /\ \A p \in Pixels : p \notin Clock => back'[p] = back[p]
  BY DEF DrawBar, DrawDigits, DrawBack, ScreenInv
<1>2. UNCHANGED <<front, cur, cur_on>> /\ dpc' \in {"text", "copy"} /\ dpc \in {"fill", "text"}
  BY DEF DrawBar, DrawDigits, DrawBack, At
<1>3. Pointer(cur, cur_on)' = Pointer(cur, cur_on)
  BY <1>2 DEF Pointer, Under
<1>4. PointerOnTop'
  BY <1>1, <1>2, <1>3 DEF PointerOnTop, ScreenInv
<1> QED
  BY <1>1, <1>2, <1>4 DEF ScreenInv

\* gfx_present's copy of the clock, and overlay_cursor after it.
LEMMA CopiedScreen == ASSUME ScreenInv, PresentCopy PROVE ScreenInv'
<1>1. dpc = "copy" /\ dpc' = "overlay" /\ UNCHANGED <<back, cur, cur_on>>
  BY DEF PresentCopy, At
<1>2. \A p \in Pixels : front'[p] = IF p \in Clock THEN back[p] ELSE front[p]
  BY DEF PresentCopy, gfx_present, Pointer
<1>3. Pointer(cur, cur_on)' = Pointer(cur, cur_on)
  BY <1>1 DEF Pointer, Under
<1>4. PointerOnTop'
  BY <1>1, <1>2, <1>3 DEF PointerOnTop, ScreenInv
<1> QED
  BY <1>1, <1>2, <1>4, ScreenAssumption DEF ScreenInv

LEMMA OverlaidScreen == ASSUME ScreenInv, overlay_cursor PROVE ScreenInv'
<1>1. dpc = "overlay" /\ dpc' = "hlt" /\ UNCHANGED <<back, cur, cur_on>>
  BY DEF overlay_cursor, At
<1>2. \A p \in Pixels : front'[p] = IF p \in Clock /\ p \in Pointer(cur, cur_on) THEN "pointer" ELSE front[p]
  BY DEF overlay_cursor
<1>3. Pointer(cur, cur_on)' = Pointer(cur, cur_on)
  BY <1>1 DEF Pointer, Under
<1>4. \A p \in Clock : front[p] = back[p] \/ (p \in Pointer(cur, cur_on) /\ front[p] = "pointer")
  BY <1>1 DEF ScreenInv
<1>5. PointerOnTop'
  BY <1>1, <1>2, <1>3, <1>4 DEF PointerOnTop, ScreenInv
<1> QED
  BY <1>1, <1>5 DEF ScreenInv

LEMMA ScreenStep == ASSUME ScreenInv, [Next]_vars PROVE ScreenInv'
<1>1. CASE /\ UNCHANGED gfxVars
           /\ dpc' = dpc \/ (dpc \in {"hlt", "rtc", "reading"} /\ dpc' \in {"cursor", "rtc", "reading", "hlt", "fill"})
  <2>1. Pointer(cur, cur_on)' = Pointer(cur, cur_on)
    BY <1>1 DEF gfxVars, Pointer, Under
  <2> QED
    BY <1>1, <2>1 DEF gfxVars, ScreenInv, PointerOnTop
<1>2. CASE mouse_poll \/ TickRead \/ TickReading \/ TickSame \/ TickDraws
  BY <1>1, <1>2 DEF mouse_poll, TickRead, TickReading, TickSame, TickDraws, At
<1>3. CASE Chip \/ MouseMoves \/ ByteLost \/ mouse_handle_irq \/ UNCHANGED vars
  BY <1>1, <1>3 DEF Chip, MouseMoves, ByteLost, mouse_handle_irq, vars
<1> QED
  BY <1>2, <1>3, EchoScreen, MovedScreen, DrawnScreen, CopiedScreen, OverlaidScreen DEF Next, desktop_tick

-----------------------------------------------------------------------------
\* The clock's operators.

\* bcd_to_bin undoes what the chip shows of a number in BCD.
LEMMA BcdInverse == \A n \in 0..59 : bcd_to_bin(Bcd(n)) = n /\ Bcd(n) \in 0..89
<1> SUFFICES ASSUME NEW n \in 0..59 PROVE bcd_to_bin(Bcd(n)) = n /\ Bcd(n) \in 0..89
  OBVIOUS
<1>1. PICK q, r \in Int : q = n \div 10 /\ r = n % 10 /\ n = 10 * q + r /\ 0 <= r /\ r < 10 /\ 0 <= q /\ q < 6
  OBVIOUS
<1>2. Bcd(n) = 16 * q + r
  BY <1>1 DEF Bcd
<1>3. (16 * q + r) % 16 = r /\ (16 * q + r) \div 16 = q
  BY <1>1
<1> QED
  BY <1>1, <1>2, <1>3 DEF bcd_to_bin

\* The low seven bits of a register with and without the PM bit, and the hour of
\* the day from the hour on the dial.
LEMMA LowBits == \A y \in 0..127 : y % 128 = y /\ (y + 128) % 128 = y
OBVIOUS

Dial(k) == IF k % 12 = 0 THEN 12 ELSE k % 12
LEMMA DialHour ==
  \A k \in 0..23 : /\ Dial(k) \in 1..12
                   /\ k >= 12 => (Dial(k) % 12) + 12 = k
                   /\ k < 12 => (IF Dial(k) = 12 THEN 0 ELSE Dial(k)) = k
BY DEF Dial

\* Decode's bin, and its hour.
Bin(f, v) == IF f.bcd THEN bcd_to_bin(v) ELSE v
Hour24(f, x) ==
  IF ~f.h24 /\ x >= 128 THEN (Bin(f, x % 128) % 12) + 12
  ELSE IF ~f.h24 /\ Bin(f, x % 128) = 12 THEN 0 ELSE Bin(f, x % 128)

LEMMA BinShown == \A f \in Formats : \A n \in 0..59 : Bin(f, Shown(f, n)) = n /\ Shown(f, n) \in 0..89
BY BcdInverse DEF Bin, Shown

LEMMA HourShown ==
  ASSUME NEW f \in Formats, NEW k \in 0..23
  PROVE  Hour24(f, ShownHour(f, k)) = k
<1>1. PICK x : x = ShownHour(f, k)
  OBVIOUS
<1>2. CASE f.h24
  <2>1. x \in 0..127 /\ Bin(f, x) = k
    BY <1>1, <1>2, BinShown DEF ShownHour
  <2>2. x % 128 = x
    BY <2>1, LowBits
  <2> QED
    BY <1>1, <1>2, <2>1, <2>2 DEF Hour24
<1>3. CASE ~f.h24
  <2>1. PICK h \in 1..12 : h = Dial(k)
    BY DialHour
  <2>2. PICK y \in 0..127 : y = Shown(f, h) /\ Bin(f, y) = h
    BY BinShown
  <2>3. x = y + (IF k >= 12 THEN 128 ELSE 0)
    BY <1>1, <1>3, <2>1, <2>2 DEF ShownHour, Dial
  <2>4. x % 128 = y
    BY <2>3, LowBits
  <2>5. x >= 128 <=> k >= 12
    BY <2>3
  <2> QED
    BY <1>1, <1>3, <2>1, <2>2, <2>4, <2>5, DialHour DEF Hour24
<1> QED
  BY <1>2, <1>3

\* Decode gives back the time the registers show, whatever the format: the PM bit,
\* then BCD, then midnight and noon in 12 hours.
LEMMA DecodeImage == ASSUME fmt \in Formats PROVE \A t \in Times : Decode(fmt, Image(t)) = t
<1> SUFFICES ASSUME NEW t \in Times PROVE Decode(fmt, Image(t)) = t
  OBVIOUS
<1>1. t.hour \in 0..23 /\ t.second \in 0..59 /\ t = [hour |-> t.hour, second |-> t.second]
  BY RtcAssumption DEF Times
<1>2. \A r : Decode(fmt, r) = [second |-> Bin(fmt, r.second), hour |-> Hour24(fmt, r.hour)]
  BY DEF Decode, Bin, Hour24
<1>3. Image(t).second = Shown(fmt, t.second) /\ Image(t).hour = ShownHour(fmt, t.hour)
  BY DEF Image
<1>4. Bin(fmt, Shown(fmt, t.second)) = t.second
  BY <1>1, BinShown
<1>5. Hour24(fmt, ShownHour(fmt, t.hour)) = t.hour
  BY <1>1, HourShown
<1>6. Decode(fmt, Image(t)) = [hour |-> t.hour, second |-> t.second]
  BY <1>2, <1>3, <1>4, <1>5
<1> QED
  BY <1>1, <1>6

LEMMA LaterTime == \A t \in Times : Later(t) \in Times
BY RtcAssumption DEF Later, Times

\* What a register shows is a number.
LEMMA ShownInt ==
  ASSUME fmt \in Formats
  PROVE  \A t \in Times : Shown(fmt, t.second) \in Int /\ ShownHour(fmt, t.hour) \in Int
BY RtcAssumption DEF Shown, ShownHour, Bcd, Times, Formats

-----------------------------------------------------------------------------
\* The clock's steps.

\* A whole reading stays whole: the times of the call are only added to.
LEMMA WholeKept ==
  ASSUME NEW r, Whole(r), fmt' = fmt, during \subseteq during'
  PROVE  \E t \in during' : r = [hour |-> ShownHour(fmt', t.hour), second |-> Shown(fmt', t.second)]
BY DEF Whole, Image

\* The steps that leave the readings alone: so do the facts about them.
LEMMA KeptReadings ==
  ASSUME UNCHANGED <<fmt, a, b>>, during \subseteq during'
  PROVE  (Whole(a) => Whole(a)') /\ (Whole(b) => Whole(b)')
BY WholeKept DEF Whole, Image

\* The chip begins an update only when three readings have been completed since
\* the last one; when it ends one, none has.
LEMMA UpdatesRtc == ASSUME RtcInv, Updating PROVE RtcInv'
<1>1. CASE UpdateBegins
  <2>1. ~uip /\ uip' = TRUE /\ calm >= 3 /\ UNCHANGED <<now, fmt, broken, rpc, polls, a, b, calm, during>>
    BY <1>1 DEF UpdateBegins
  <2>2. RtcTypes' /\ Called'
    BY <2>1 DEF RtcInv, RtcTypes, Called
  <2>3. (Whole(a) => Whole(a)') /\ (Whole(b) => Whole(b)')
    BY <2>1, KeptReadings
  <2>4. ~broken => Readings'
    BY <2>1, <2>3 DEF RtcInv, RtcTypes, Readings, Between, Settled
  <2> QED
    BY <2>1, <2>2, <2>4 DEF RtcInv
<1>2. CASE UpdateEnds
  <2>1. /\ uip /\ uip' = FALSE /\ calm' = 0 /\ now' = Later(now)
        /\ UNCHANGED <<fmt, broken, rpc, polls, a, b>>
        /\ during' = IF rpc \in {"out", "done"} THEN during ELSE during \cup {Later(now)}
    BY <1>2 DEF UpdateEnds
  <2>2. RtcTypes' /\ Called'
    BY <2>1, LaterTime, Zenon DEF RtcInv, RtcTypes, Called
  <2>3. (Whole(a) => Whole(a)') /\ (Whole(b) => Whole(b)')
    BY <2>1, KeptReadings
  <2>4. ~broken => Readings'
    BY <2>1, <2>3 DEF RtcInv, RtcTypes, Readings, Between, Settled
  <2> QED
    BY <2>1, <2>2, <2>4 DEF RtcInv
<1> QED
  BY <1>1, <1>2 DEF Updating

\* read_raw's wait ends with no update in progress, as it does not run out of polls.
LEMMA WaitRtc == ASSUME RtcInv, NEW k \in {1, 2}, WaitUpdate(k) PROVE RtcInv'
<1>1. UNCHANGED <<now, fmt, uip, broken, a, b, calm, during>>
  BY DEF WaitUpdate, chip
<1>2. rpc \in {"wait1", "wait2"} /\ rpc = Steps(k)[1]
  BY DEF WaitUpdate, Steps
<1>3. (Whole(a) => Whole(a)') /\ (Whole(b) => Whole(b)')
  BY <1>1, KeptReadings
<1>4. CASE uip /\ (broken \/ polls + 1 < POLLS) /\ polls' = polls + 1 /\ UNCHANGED rpc
  <2>1. RtcTypes' /\ Called'
    BY <1>1, <1>4 DEF RtcInv, RtcTypes, Called
  <2>2. ~broken => Readings'
    BY <1>1, <1>2, <1>3, <1>4 DEF RtcInv, Readings, Between
  <2> QED
    BY <1>1, <2>1, <2>2 DEF RtcInv
<1>5. CASE ~(uip /\ polls < POLLS) /\ polls' = 0 /\ rpc' = Steps(k)[2]
  <2>1. (rpc = "wait1" /\ rpc' = "second1") \/ (rpc = "wait2" /\ rpc' = "second2")
    BY <1>2, <1>5 DEF Steps
  <2>2. RtcTypes' /\ Called'
    BY <1>1, <1>5, <2>1 DEF RtcInv, RtcTypes, Called
  <2>3. ~broken => Readings'
    BY <1>1, <1>3, <1>5, <2>1, RtcAssumption DEF RtcInv, Readings, Between, Settled
  <2> QED
    BY <1>1, <2>2, <2>3 DEF RtcInv
<1> QED
  BY <1>4, <1>5 DEF WaitUpdate

\* read_raw's seconds are right, or an update is in progress.
LEMMA SecondRtc == ASSUME RtcInv, NEW k \in {1, 2}, ReadSecond(k) PROVE RtcInv'
<1>1. UNCHANGED <<now, fmt, uip, broken, polls, a, calm, during>>
  BY DEF ReadSecond, chip
<1>2. (rpc = "second1" /\ rpc' = "hour1") \/ (rpc = "second2" /\ rpc' = "hour2")
  BY DEF ReadSecond, Steps
<1>3. PICK v \in Register(Shown(fmt, now.second), Shown(fmt, Later(now).second)) : b' = [b EXCEPT !.second = v]
  BY DEF ReadSecond
<1>4. v \in Int /\ (~uip => v = Shown(fmt, now.second))
  BY <1>3, ShownInt, LaterTime DEF Register, RtcInv, RtcTypes
<1>5. RtcTypes' /\ Called'
  BY <1>1, <1>2, <1>3, <1>4 DEF RtcInv, RtcTypes, Called
<1>6. ~uip => SecondRight'
  BY <1>1, <1>3, <1>4 DEF SecondRight, RtcInv, RtcTypes
<1>7. Whole(a) => Whole(a)'
  BY <1>1 DEF Whole, Image
<1>8. ~broken => Readings'
  BY <1>1, <1>2, <1>6, <1>7 DEF RtcInv, Readings, Settled
<1> QED
  BY <1>1, <1>5, <1>8 DEF RtcInv

\* read_raw's rest: the reading is whole, or an update has torn it.
LEMMA HourRtc == ASSUME RtcInv, NEW k \in {1, 2}, ReadHour(k) PROVE RtcInv'
<1>1. /\ UNCHANGED <<now, fmt, uip, broken, polls, a, during>>
      /\ calm' = IF calm < 3 THEN calm + 1 ELSE calm
  BY DEF ReadHour, chip
<1>2. (rpc = "hour1" /\ rpc' = "again") \/ (rpc = "hour2" /\ rpc' = "compare")
  BY DEF ReadHour, Steps
<1>3. PICK v \in Register(ShownHour(fmt, now.hour), ShownHour(fmt, Later(now).hour)) : b' = [b EXCEPT !.hour = v]
  BY DEF ReadHour
<1>4. v \in Int /\ (~uip => v = ShownHour(fmt, now.hour))
  BY <1>3, ShownInt, LaterTime DEF Register, RtcInv, RtcTypes
<1>5. RtcTypes' /\ Called'
  BY <1>1, <1>2, <1>3, <1>4 DEF RtcInv, RtcTypes, Called
<1>6. ASSUME ~uip, SecondRight PROVE Whole(b)'
  <2>1. b' = [hour |-> v, second |-> b.second]
    BY <1>3 DEF RtcInv, RtcTypes
  <2>2. b' = [hour |-> ShownHour(fmt', now.hour), second |-> Shown(fmt', now.second)]
    BY <1>1, <1>4, <1>6, <2>1 DEF SecondRight
  <2>3. now \in during'
    BY <1>1, <1>2 DEF RtcInv, Called
  <2> QED
    BY <2>2, <2>3 DEF Whole, Image
<1>7. Whole(a) => Whole(a)'
  BY <1>1 DEF Whole, Image
<1>8. ~broken => Readings'
  BY <1>1, <1>2, <1>6, <1>7 DEF RtcInv, RtcTypes, Readings, Settled, Between
<1> QED
  BY <1>1, <1>5, <1>8 DEF RtcInv

\* rtc_read's own steps.
LEMMA CallRtc == ASSUME RtcInv, rtc_read \/ RtcDone PROVE RtcInv'
<1>1. UNCHANGED <<now, fmt, uip, broken, calm>>
  BY DEF rtc_read, RtcDone, chip
<1>2. CASE rtc_read
  BY <1>1, <1>2, RtcAssumption DEF rtc_read, RtcInv, RtcTypes, Called, Readings
<1>3. CASE RtcDone
  BY <1>1, <1>3 DEF RtcDone, NoTime, RtcInv, RtcTypes, Called, Readings
<1> QED
  BY <1>2, <1>3

LEMMA AgainRtc == ASSUME RtcInv, ReadAgain \/ Compare PROVE RtcInv'
<1>1. UNCHANGED <<now, fmt, uip, broken, polls, b, calm, during>>
  BY DEF ReadAgain, Compare, chip
<1>2. Whole(b) => Whole(b)'
  BY <1>1 DEF Whole, Image
<1>3. CASE ReadAgain
  <2>1. rpc = "again" /\ rpc' = "wait2" /\ a' = b
    BY <1>3 DEF ReadAgain
  <2>2. RtcTypes' /\ Called'
    BY <1>1, <2>1 DEF RtcInv, RtcTypes, Called
  <2>3. Whole(b) => Whole(a)'
    BY <1>1, <2>1 DEF Whole, Image
  <2>4. ~broken => Readings'
    BY <1>1, <2>1, <2>3 DEF RtcInv, Readings, Between
  <2> QED
    BY <1>1, <2>2, <2>4 DEF RtcInv
<1>4. CASE Compare
  <2>1. rpc = "compare" /\ rpc' \in {"again", "done"} /\ a' = a
    BY <1>4 DEF Compare
  <2>2. RtcTypes' /\ Called'
    BY <1>1, <2>1 DEF RtcInv, RtcTypes, Called
  <2>3. ~broken => polls' < POLLS /\ (Whole(b)' \/ Between')
    <3>1. Between => Between'
      BY <1>1 DEF Between
    <3> QED
      BY <1>1, <1>2, <2>1, <3>1 DEF RtcInv, Readings
  <2>4. ~broken => Readings'
    BY <2>1, <2>3 DEF Readings
  <2> QED
    BY <1>1, <2>2, <2>4 DEF RtcInv
<1> QED
  BY <1>3, <1>4

LEMMA RtcStep == ASSUME RtcInv, [Next]_vars PROVE RtcInv'
<1>1. CASE UNCHANGED rtcVars
  <2>1. UNCHANGED <<now, fmt, uip, broken, rpc, polls, a, b, calm, during>>
    BY <1>1 DEF rtcVars, chip
  <2> QED
    BY <2>1, Zenon DEF RtcInv, RtcTypes, Called, Readings, Whole, Image, Between, Settled, SecondRight
<1>2. CASE Chip
  BY <1>2, UpdatesRtc DEF Chip
<1>3. CASE TickReading
  BY <1>3, WaitRtc, SecondRtc, HourRtc, AgainRtc DEF TickReading, Reading
<1>4. CASE TickRead \/ TickSame \/ TickDraws
  BY <1>4, CallRtc DEF TickRead, TickSame, TickDraws
<1>5. CASE MouseMoves \/ ByteLost \/ mouse_handle_irq \/ fbcon_putc \/ UNCHANGED vars
  BY <1>1, <1>5 DEF MouseMoves, ByteLost, mouse_handle_irq, fbcon_putc, vars
<1>6. CASE mouse_poll \/ gfx_cursor_set \/ DrawBar \/ DrawDigits \/ PresentCopy \/ overlay_cursor
  BY <1>1, <1>6, Zenon DEF mouse_poll, gfx_cursor_set, DrawBar, DrawDigits, DrawBack, PresentCopy, overlay_cursor
<1> QED
  BY <1>2, <1>3, <1>4, <1>5, <1>6 DEF Next, desktop_tick

\* At the comparison, two equal readings are a time the chip had during the call.
LEMMA ComparedRight ==
  ASSUME RtcInv, Compare, rpc' = "done", ~broken
  PROVE  time' \in during
<1>1. rpc = "compare" /\ a = b /\ time' = Decode(fmt, b)
  BY DEF Compare
<1>2. Whole(a) \/ Whole(b)
  BY <1>1 DEF RtcInv, Readings
<1>3. PICK t \in during : b = Image(t)
  BY <1>1, <1>2 DEF Whole
<1>4. t \in Times /\ fmt \in Formats
  BY DEF RtcInv, RtcTypes
<1> QED
  BY <1>1, <1>3, <1>4, DecodeImage

-----------------------------------------------------------------------------
LEMMA InitDesktop == ASSUME Init PROVE DesktopInv
<1>1. MouseInv
  BY ScreenAssumption DEF Init, MouseInv
<1>2. ScreenInv
  BY ScreenAssumption DEF Init, ScreenInv, PointerOnTop, Pointer
<1>3. RtcInv
  <2>1. PICK c \in Chips : now = [hour |-> c.hour, second |-> SECONDS - 1] /\ fmt = c.fmt /\ broken = c.broken
    BY Zenon DEF Init, RtcInit
  <2>2. now \in Times /\ fmt \in Formats /\ broken \in BOOLEAN
    BY <2>1, RtcAssumption DEF Times, Formats
  <2> QED
    BY <2>2, RtcAssumption DEF Init, RtcInit, NoTime, RtcInv, RtcTypes, Called, Readings
<1> QED
  BY <1>1, <1>2, <1>3 DEF DesktopInv

\* The three invariants hold throughout: of the mouse's bytes, of the two buffers
\* and of rtc_read's readings.
THEOREM DesktopInductive == Spec => []DesktopInv
<1>1. Init => DesktopInv
  BY InitDesktop
<1>2. DesktopInv /\ [Next]_vars => DesktopInv'
  BY MouseStep, ScreenStep, RtcStep DEF DesktopInv
<1> QED
  BY <1>1, <1>2, PTL DEF Spec

\* mouse_handle_irq: as long as no byte is lost, the pointer is where the
\* movements sent lead, on every screen and with every movement a packet can hold.
THEOREM DesktopMouseRight == Spec => []MouseRight
<1>1. DesktopInv => MouseRight
  BY DEF DesktopInv, MouseInv, MouseRight, Flight
<1> QED
  BY <1>1, DesktopInductive, PTL

\* gfx_present, gfx_cursor_set, draw_clock and fbcon_putc: the screen shows the
\* back buffer with the pointer on top, wherever the console, the clock and the
\* pointer are.
THEOREM DesktopPointerOnTop == Spec => []PointerOnTop
<1>1. DesktopInv => PointerOnTop
  BY DEF DesktopInv, ScreenInv
<1> QED
  BY <1>1, DesktopInductive, PTL

\* rtc_read: what it returns is a time the chip had during the call, in every
\* format, as the second of two equal readings.
THEOREM DesktopTimeRight == Spec => TimeRight
<1>1. DesktopInv /\ [Next]_vars => [Compare /\ rpc' = "done" /\ ~broken => time' \in during]_vars
  BY ComparedRight DEF DesktopInv
<1> QED
  BY <1>1, DesktopInductive, PTL DEF Spec, TimeRight

=============================================================================
