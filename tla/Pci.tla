-------------------------------- MODULE Pci --------------------------------
(***************************************************************************)
(* The PCI bus at boot: _pci_scan lists what answers on it, the driver of  *)
(* the network interface finds itself in the list and prints its           *)
(* configuration, and _ide_init gives the disk controllers I/O ports and   *)
(* looks for drives.  One thread, with interrupts off; what varies is what *)
(* is on the bus.  The functions on it and their registers are external.   *)
(***************************************************************************)
EXTENDS Integers, Sequences

CONSTANTS
  PCI_MAX_SLOT_COUNT, PCI_MAX_FUNC_COUNT,  \* of the one bus looked at
  PCI_BUSES,     \* what may be on the bus: slot, function -> the function there
  FIRST_PORT,    \* ioports.c: where current_port starts (0x1000)
  last_port      \* (0xF000)

Bar(kind, base) == [kind |-> kind, base |-> base]
NO_BAR == Bar("none", 0)
BarIndices == 0..4
BAR_BM == 4         \* the bus master register of a disk controller

\* No function: all its registers read as ones.
ABSENT == [class |-> "none", multi |-> TRUE, bars |-> [i \in BarIndices |-> NO_BAR]]

PciAddresses == (0..(PCI_MAX_SLOT_COUNT - 1)) \X (0..(PCI_MAX_FUNC_COUNT - 1))

\* Port numbers have 16 bits.
PORT_NUMBERS == 65536

\* A controller gets at most 80 ports, gaps for their alignment included; with the
\* 0xE000 ports and the 256 places of the source there are enough for every bus.
ASSUME PciAssumption ==
  /\ PCI_MAX_SLOT_COUNT \in Nat \ {0} /\ PCI_MAX_FUNC_COUNT \in Nat \ {0}
  /\ FIRST_PORT \in Nat /\ FIRST_PORT > 1015 /\ last_port \in 0..(PORT_NUMBERS - 1)
  /\ FIRST_PORT + 80 * (PCI_MAX_SLOT_COUNT * PCI_MAX_FUNC_COUNT) <= last_port

BusFunctions ==
  [class : {"none", "nic", "ide", "bridge"}, multi : BOOLEAN,
   bars : [BarIndices -> [kind : {"none", "io", "mem"}, base : Nat]]]

\* A controller at the ports such have always been at: it has no base addresses.
AtOldPorts(f) == f.class = "ide" /\ ~ f.multi /\ f.bars[0].base = 0

\* What a bus is, by its standard: functions other than the first are with a first one
\* that says so, both channels of a controller are at the old ports or neither, and
\* two controllers are not at the same ones.
ASSUME BusAssumption ==
  \A b \in PCI_BUSES :
    /\ b \in [PciAddresses -> BusFunctions]
    /\ \A a \in PciAddresses : a[2] # 0 /\ b[a].class # "none" =>
         b[<<a[1], 0>>].class # "none" /\ b[<<a[1], 0>>].multi
    /\ \A a \in PciAddresses : b[a].class = "ide" /\ ~ b[a].multi =>
         (b[a].bars[0].base = 0 <=> b[a].bars[2].base = 0)
    /\ \A a, c \in PciAddresses : AtOldPorts(b[a]) /\ AtOldPorts(b[c]) => a = c

VARIABLES
  firmware,      \* what is on the bus, its base addresses as the firmware left them
  bus,           \* and as they are now
  stage,         \* how far the kernel is: scanning an address; the network driver;
                 \* a controller and a channel of it; or done
  config,        \* the local variable that every _pci_read_config fills
  devices,       \* the list of devices: address and configuration
  current_port,
  channels, ide_num_channels, drives  \* ide_channels, ide_devices

pciVars == <<firmware, bus, stage, config, devices, current_port,
             channels, ide_num_channels, drives>>
ideVars == <<current_port, channels, ide_num_channels, drives>>

Scanning(a) == [doing |-> "scan", at |-> a]

PciInit ==
  /\ firmware \in PCI_BUSES /\ bus = firmware
  /\ stage = Scanning(<<0, 0>>)
  \* whatever is on the stack: nothing that looks like a port, or one
  /\ \E left \in {NO_BAR, Bar("io", FIRST_PORT)} :
       config = [ABSENT EXCEPT !.bars = [i \in BarIndices |-> left]]
  /\ devices = <<>>
  /\ current_port = FIRST_PORT
  /\ channels = <<>> /\ ide_num_channels = 0 /\ drives = {}

-----------------------------------------------------------------------------
\* _pci_read_config: the base addresses are read for a header type of 0, 1 or 2, and
\* not if it has the flag of a device with several functions.
ReadConfig(cfg, function) ==
  [function EXCEPT !.bars = IF function.multi THEN cfg.bars ELSE @]

SetBases(b, a, regs, base) ==
  [b EXCEPT ![a].bars = [i \in BarIndices |->
     IF i \in regs THEN [b[a].bars[i] EXCEPT !.base = base] ELSE b[a].bars[i]]]

\* Mutant: the registers are left as they were to learn the size.
ReadBarSizeOnly(b, a, cfg, regs) == SetBases(b, a, regs, -1)

\* _pci_read_bar_size, of each of some registers: it is written, read and then given the
\* base address in register 0.
ReadBarSize(b, a, cfg, regs) == SetBases(b, a, regs, cfg.bars[0].base)

\* The address _pci_scan looks at next, after one where it read cfg.
NextAddress(a, cfg) ==
  IF a[2] + 1 < PCI_MAX_FUNC_COUNT /\ (a[2] = 0 => cfg.class # "none" /\ cfg.multi)
  THEN <<a[1], a[2] + 1>>
  ELSE <<a[1] + 1, 0>>

ScanFunction ==
  LET a == stage.at
      cfg == ReadConfig(config, bus[a])
  IN  /\ stage.doing = "scan" /\ a \in PciAddresses
      /\ config' = cfg
      /\ IF cfg.class = "none" THEN UNCHANGED <<devices, bus>>
         ELSE /\ devices' = Append(devices, [address |-> a, config |-> cfg])
              /\ bus' = IF cfg.multi THEN bus ELSE ReadBarSize(bus, a, cfg, {0})
      /\ stage' = Scanning(NextAddress(a, cfg))
      /\ UNCHANGED <<firmware, ideVars>>

\* _pci_get_device: the first of the list.
FirstOf(class) ==
  LET found == {n \in DOMAIN devices : devices[n].config.class = class}
  IN  IF found = {} THEN 0 ELSE CHOOSE n \in found : \A m \in found : n <= m

\* The memory that _pci_print_config asks the size of; it prints the base addresses of
\* a header type of 0 only.
SizedByPrint(cfg) == {i \in BarIndices : ~ cfg.multi /\ cfg.bars[i].kind = "mem"}

\* _i8255x_driver_init finds its device and prints its configuration; without one
\* _init panics.
NicInit ==
  LET n == FirstOf("nic")
      d == devices[n]
  IN  /\ stage.doing = "scan" /\ stage.at \notin PciAddresses
      /\ IF n = 0 THEN stage' = [doing |-> "panic"] /\ UNCHANGED bus
         ELSE /\ stage' = [doing |-> "ide", device |-> 1, channel |-> 0, type |-> 0]
              /\ bus' = ReadBarSize(bus, d.address, d.config, SizedByPrint(d.config))
      /\ UNCHANGED <<firmware, config, devices, ideVars>>

-----------------------------------------------------------------------------
\* Mutant: ports from wherever the last ones ended.
AllocatePortsNext(port, amount, alignment) == <<port, port + amount>>

\* allocate_ports_align, in 16 bits: the first of the ports and where the next ones
\* begin.  What is rounded up is the end; the start moves along with it.
AllocatePorts(port, amount, alignment) ==
  LET end == (port + amount) % PORT_NUMBERS
      align_offset == (alignment - (end % alignment)) % alignment
      new == (end + align_offset) % PORT_NUMBERS
  IN  IF new <= last_port THEN <<(port + align_offset) % PORT_NUMBERS, new>> ELSE <<0, port>>

SetBar(b, a, i, port) == [b EXCEPT ![a].bars[i].base = port]

\* _ide_init, a device that is no disk controller.
IdeSkip ==
  /\ stage.doing = "ide" /\ stage.device \in DOMAIN devices
  /\ devices[stage.device].config.class # "ide"
  /\ stage' = [stage EXCEPT !.device = @ + 1]
  /\ UNCHANGED <<firmware, bus, config, devices, ideVars>>

\* A controller, before its first channel: ports for the bus master register.
IdeController ==
  LET d == devices[stage.device]
      ports == AllocatePorts(current_port, 16, 16)
  IN  /\ stage.doing = "ide" /\ stage.device \in DOMAIN devices
      /\ d.config.class = "ide"
      /\ IF d.config.bars[BAR_BM].kind = "io"
         THEN /\ bus' = SetBar(bus, d.address, BAR_BM, ports[1])
              /\ devices' = [devices EXCEPT ![stage.device].config.bars[BAR_BM].base = ports[1]]
              /\ current_port' = ports[2]
         ELSE UNCHANGED <<bus, devices, current_port>>
      /\ stage' = [stage EXCEPT !.doing = "channel", !.type = 0]
      /\ UNCHANGED <<firmware, config, channels, ide_num_channels, drives>>

\* A channel on which the drives in found answer.
IdeChannel(found) ==
  LET d == devices[stage.device]
      i == stage.channel
      \* parallel: at the ports such channels have always been at
      type == IF stage.type = 1 \/ d.config.bars[2 * i].base = 0 THEN 1 ELSE 0
      io == AllocatePorts(current_port, 8, 8)
      control == AllocatePorts(io[2], 4, 4)
      channel == [address |-> d.address, primary |-> i,
                  base_io |-> IF type = 1 THEN 496 - 128 * i ELSE io[1],
                  base_control |-> IF type = 1 THEN 1012 - 128 * i ELSE control[1]]
  IN  /\ stage.doing = "channel"
      /\ IF type = 1 THEN UNCHANGED <<bus, devices, current_port>>
         ELSE /\ bus' = SetBar(SetBar(bus, d.address, 2 * i, io[1]), d.address, 2 * i + 1, control[1])
              \* set_base_control_register notes the second where the first is
              /\ devices' = [devices EXCEPT ![stage.device].config.bars[2 * i].base = control[1]]
              /\ current_port' = control[2]
      /\ channels' = Append(SubSeq(channels, 1, ide_num_channels), channel)
      \* a channel without drives leaves its element of ide_channels to the next one
      /\ ide_num_channels' = ide_num_channels + (IF found = {} THEN 0 ELSE 1)
      /\ drives' = drives \cup
           {[channel |-> ide_num_channels + 1, drive |-> j, answered |-> <<d.address, i>>] : j \in found}
      /\ stage' = IF i = 0 THEN [stage EXCEPT !.channel = 1, !.type = type]
                  ELSE [stage EXCEPT !.doing = "ide", !.device = @ + 1, !.channel = 0]
      /\ UNCHANGED <<firmware, config>>

PciDone ==
  /\ stage.doing = "panic" \/ (stage.doing = "ide" /\ stage.device \notin DOMAIN devices)
  /\ UNCHANGED pciVars

PciNext ==
  \/ ScanFunction
  \/ NicInit
  \/ IdeSkip
  \/ IdeController
  \/ \E found \in {{}, {0}, {0, 1}} : IdeChannel(found)
  \/ PciDone

-----------------------------------------------------------------------------
PciTypeOK ==
  /\ \A n \in DOMAIN devices : devices[n].address \in PciAddresses
  /\ current_port \in 0..last_port
  /\ ide_num_channels \in 0..Len(channels)
  /\ \A d \in drives : d.channel \in DOMAIN channels

Before(a, b) == a[1] < b[1] \/ (a[1] = b[1] /\ a[2] < b[2])

\* When the bus has been scanned every function on it is in the list once, with its own
\* base addresses, and has them still.  Not so for one whose header type has the
\* flag of several functions, which is listed with the base addresses of another;
\* and printing a configuration moves the memory of a network interface.
ListedAsFound ==
  LET address(n) == devices[n].address
      moved(a) == {i \in BarIndices \ {0} :
                     firmware[a].class = "nic" /\ firmware[a].bars[i].kind = "mem"}
  IN  /\ \A n \in 1..(Len(devices) - 1) : Before(address(n), address(n + 1))
      /\ stage.doing # "scan" =>
           {address(n) : n \in DOMAIN devices} = {a \in PciAddresses : bus[a].class # "none"}
      /\ \A n \in DOMAIN devices :
           LET f == firmware[address(n)]
           IN  /\ devices[n].config.class = f.class
               /\ ~ f.multi /\ f.class # "ide" => devices[n].config.bars = f.bars
      /\ \A a \in PciAddresses : bus[a].class # "ide" =>
           \A i \in BarIndices \ moved(a) : bus[a].bars[i] = firmware[a].bars[i]

ChannelPorts(c) ==
  (c.base_io .. (c.base_io + 7)) \cup (c.base_control .. (c.base_control + 3))

\* A drive stays reachable where it answered: the ports noted for its channel are those
\* its controller decodes, they are aligned as it needs them, and no other channel
\* has any of them.  (A controller that was listed with the base addresses of another
\* function may be taken for a parallel one.)
DrivesReachable ==
  \A d \in drives :
    LET c == channels[d.channel]
        registers == bus[c.address].bars
    IN  /\ <<c.address, c.primary>> = d.answered
        /\ ~ bus[c.address].multi =>
             /\ firmware[c.address].bars[2 * c.primary].base # 0 =>
                  /\ registers[2 * c.primary].base = c.base_io /\ c.base_io % 8 = 0
                  /\ registers[2 * c.primary + 1].base = c.base_control /\ c.base_control % 4 = 0
             /\ \A m \in DOMAIN channels \ {d.channel} :
                  bus[channels[m].address].multi
                    \/ ChannelPorts(c) \cap ChannelPorts(channels[m]) = {}
=============================================================================
