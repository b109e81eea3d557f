-------------------------------- MODULE Uart --------------------------------
(***************************************************************************)
(* The serial line.  The boot loader and the kernel have a driver each     *)
(* (boot/raspi3/peripherals/uart.c, plat/raspi3/uart/uart.c), which write  *)
(* registers of the one mini UART.  The device works on its own: it sends  *)
(* what it holds between any two steps of a driver, with the settings it   *)
(* has at that moment.                                                     *)
(***************************************************************************)
EXTENDS Integers, Sequences

CONSTANTS
  FifoSize,   \* the characters the transmitter holds
  Garbled     \* what arrives of a character sent with wrong settings

VARIABLES
  reg,    \* the registers that the drivers write
  fifo,   \* what the transmitter holds
  line,   \* what has left it
  todo,   \* the writes that the current call of a driver has still to do
  sent    \* what the drivers were asked to send and have written

uartVars == <<reg, fifo, line, todo, sent>>

Pins == 10 .. 19   \* those of GPFSEL1, three bits each

MuRegisters == {"IO", "IER", "CNTL", "LCR", "MCR", "BAUD"}

\* After reset; firmware may have routed the pins to the other UART.
UartInit ==
  /\ \E f \in {0, 4} :
       reg = [GPFSEL1 |-> [p \in Pins |-> IF p \in {14, 15} THEN f ELSE 0],
              GPPUD |-> 0, GPPUDCLK0 |-> {}, AUX_ENABLES |-> 0,
              IER |-> 0, CNTL |-> 3, LCR |-> 0, MCR |-> 0, BAUD |-> 0]
  /\ fifo = <<>> /\ line = <<>>
  /\ todo = <<>> /\ sent = <<>>

Idle == todo = <<>>

Write(r, v) == [reg |-> r, value |-> v]

\* Pins 14 and 15 take their function 5, coded as 2; the others keep theirs.
Alt5(pins) == [pins EXCEPT ![14] = 2, ![15] = 2]

\* Plausible mistakes: never turn the transmitter on, or leave the word size as it is.
InitWrites_NeverOn ==
  << Write("GPFSEL1", {}), Write("GPPUD", 0), Write("GPPUDCLK0", {14, 15}),
     Write("GPPUDCLK0", {}), Write("AUX_ENABLES", 1), Write("IER", 0),
     Write("CNTL", 0), Write("IER", 0), Write("LCR", 3), Write("MCR", 0),
     Write("BAUD", 270) >>

InitWrites ==
  << Write("GPFSEL1", {}), Write("GPPUD", 0), Write("GPPUDCLK0", {14, 15}),
     Write("GPPUDCLK0", {}), Write("AUX_ENABLES", 1), Write("IER", 0),
     Write("CNTL", 0), Write("IER", 0), Write("LCR", 3), Write("MCR", 0),
     Write("BAUD", 270), Write("CNTL", 3) >>

Sends(text) == [i \in DOMAIN text |-> Write("IO", text[i])]

-----------------------------------------------------------------------------
early_uart_init ==
  Idle /\ todo' = InitWrites /\ UNCHANGED <<reg, fifo, line, sent>>

\* The kernel's driver does it again and clears the screen.
uart_init(clear) ==
  Idle /\ todo' = InitWrites \o Sends(clear) /\ UNCHANGED <<reg, fifo, line, sent>>

uart_send_string(text) ==
  Idle /\ todo' = Sends(text) /\ UNCHANGED <<reg, fifo, line, sent>>

\* The mini UART answers only when it is enabled.
Enabled == reg.AUX_ENABLES = 1

Room == Len(fifo) < FifoSize

\* Bit 5 of the line status: the transmitter takes another character.  A plausible
\* mistake is to send without a look at it.
Ready_Always == TRUE

Ready == Enabled /\ Room

\* early_uart_send and uart_send read the line status until it is ready.
Spin ==
  /\ todo # <<>> /\ Head(todo).reg = "IO" /\ ~ Ready
  /\ UNCHANGED uartVars

SendChar ==
  /\ todo # <<>> /\ Head(todo).reg = "IO" /\ Ready
  /\ fifo' = IF Enabled /\ Room THEN Append(fifo, Head(todo).value) ELSE fifo
  /\ sent' = Append(sent, Head(todo).value)
  /\ todo' = Tail(todo)
  /\ UNCHANGED <<reg, line>>

\* A step of the initialisation; the value for GPFSEL1 is made from what was read.
WriteRegister ==
  /\ todo # <<>> /\ Head(todo).reg # "IO"
  /\ LET w == Head(todo)
     IN reg' = IF w.reg \in MuRegisters /\ ~ Enabled THEN reg
               ELSE [reg EXCEPT ![w.reg] = IF w.reg = "GPFSEL1" THEN Alt5(@) ELSE w.value]
  /\ todo' = Tail(todo)
  /\ UNCHANGED <<fifo, line, sent>>

DriverStep == SendChar \/ WriteRegister

\* The device: 8 bits at 115200 baud on pin 14 is what the other end reads.
Readable == reg.GPFSEL1[14] = 2 /\ reg.LCR = 3 /\ reg.BAUD = 270

Transmit ==
  /\ fifo # <<>> /\ Enabled /\ reg.CNTL = 3
  /\ line' = Append(line, IF Readable THEN Head(fifo) ELSE Garbled)
  /\ fifo' = Tail(fifo)
  /\ UNCHANGED <<reg, todo, sent>>

-----------------------------------------------------------------------------
\* What was sent is on the line or in the transmitter, each character once, in
\* order and readable: the FIFO does not overflow, and the second initialisation,
\* while the transmitter still holds characters, neither loses nor garbles one.
InOrder == line \o fifo = sent

=============================================================================
