----------------------------- MODULE Collectors -----------------------------
(***************************************************************************)
(* What the heavy collectors find: the three collector classes of the      *)
(* agent's slow lane and the classes and functions of the standalone       *)
(* scanners, which are copies that have drifted.  A collector asks command *)
(* line tools or files of the device (both called tools here); o[t] is how *)
(* tool t behaves.  A section is "facts", "nothing" (an empty list, or a   *)
(* dictionary of placeholders) or "raises".                                *)
(***************************************************************************)
Platforms == {"Linux", "Darwin", "Windows"}

(* absent: not installed; silent: timeout, error or no output; odd: output *)
(* in a form the parser does not expect.                                   *)
Outcomes == {"absent", "silent", "odd", "answers"}

Installed(o, t) == o[t] # "absent"          \* shutil.which
Prints(o, t) == o[t] \in {"odd", "answers"} \* _run is not None

(* Lines, or JSON, that do not have the expected fields are passed over.   *)
Guarded(o, t) == IF o[t] = "answers" THEN "facts" ELSE "nothing"

(* The text is kept, whatever it says.                                     *)
Verbatim(o, t) == IF Prints(o, t) THEN "facts" ELSE "nothing"

(* A field is taken, or converted, without a test.                         *)
Unguarded(o, t) == IF o[t] = "odd" THEN "raises" ELSE Guarded(o, t)

(* A file that is opened without a test, too.                              *)
Opened(o, f) == IF o[f] = "silent" THEN "raises" ELSE Unguarded(o, f)

(* The sections of two groups of collectors.                               *)
f ++ g == [s \in DOMAIN f \cup DOMAIN g |-> IF s \in DOMAIN f THEN f[s] ELSE g[s]]

(* A section with several sources.                                         *)
Joined(S) == IF "raises" \in S THEN "raises"
             ELSE IF "facts" \in S THEN "facts" ELSE "nothing"

Kept(o, T) == Joined({Verbatim(o, t) : t \in T})
-----------------------------------------------------------------------------
(* The tools.  On Windows each section is one PowerShell command.          *)
LinuxTools ==
  {"dpkg", "rpm", "apt", "dnf", "dpkg_log", "apt_history", "uname", "systemctl",
   "ps", "ip", "ss", "netstat", "ufw", "iptables", "firewall-cmd", "lsblk", "df",
   "passwd", "cron_files", "crontab", "getenforce", "apparmor", "sysctl", "snap",
   "flatpak", "journalctl", "syslog", "last", "smartctl", "auditctl", "hostname",
   "os_release", "meminfo", "resolv_conf"}
MacTools ==
  {"softwareupdate", "plutil", "brew", "mas", "applications", "csrutil", "spctl",
   "launchctl", "ps", "ifconfig", "netstat", "lsof", "socketfilterfw", "pfctl",
   "diskutil", "dscl", "fdesetup", "osascript", "log", "last", "scutil",
   "sw_vers", "sysctl", "df", "xprotect"}
WindowsTools ==
  {"installed_patches", "update_history", "missing_updates", "defender_status",
   "registry_apps", "store_apps", "drivers", "services", "firewall",
   "scheduled_tasks", "local_users", "event_log_errors", "windows_features",
   "startup_programs", "disk_health", "network_info", "running_processes",
   "system_info", "program_files"}
Tools(os) == CASE os = "Linux" -> LinuxTools [] os = "Darwin" -> MacTools
               [] os = "Windows" -> WindowsTools

-----------------------------------------------------------------------------
(* The agent's slow lane.                                                  *)

LinuxSoftware(o) ==
  [installed_packages |-> IF Prints(o, "dpkg") THEN Guarded(o, "dpkg") ELSE Guarded(o, "rpm"),
   security_updates   |-> IF Prints(o, "apt") THEN Verbatim(o, "apt") ELSE Guarded(o, "dnf"),
   patch_history      |-> Joined({Guarded(o, "dpkg_log"), Guarded(o, "apt_history"), Verbatim(o, "dnf")}),
   kernel_patches     |-> Joined({Verbatim(o, "uname"),
                                  IF Installed(o, "dpkg") THEN Guarded(o, "dpkg") ELSE Verbatim(o, "rpm")})]

LinuxActivity(o) ==
  [services          |-> Guarded(o, "systemctl"),
   running_processes |-> Guarded(o, "ps"),
   network_info      |-> Verbatim(o, "ip"),
   open_ports        |-> IF Installed(o, "ss") THEN Verbatim(o, "ss") ELSE Verbatim(o, "netstat")]

(* users converts the third field of each line of /etc/passwd.             *)
LinuxSecurity(o) ==
  [firewall        |-> Kept(o, {"ufw", "iptables", "firewall-cmd"}),
   disk_health     |-> Joined({Guarded(o, "lsblk"), Verbatim(o, "df")}),
   users           |-> Unguarded(o, "passwd"),
   cron_jobs       |-> Kept(o, {"cron_files", "crontab"}),
   security_config |-> Kept(o, {"getenforce", "apparmor", "sysctl"})]

LinuxApps(o) ==
  [snap_packages |-> Guarded(o, "snap"),
   flatpak_apps  |-> Verbatim(o, "flatpak"),
   recent_errors |-> IF Installed(o, "journalctl") THEN Verbatim(o, "journalctl")
                     ELSE Guarded(o, "syslog")]

(* homebrew_packages takes the first word of each line, blank ones too;    *)
(* the list of /Applications is the fallback of a silent mas.              *)
MacSoftware(o) ==
  [software_updates  |-> Guarded(o, "softwareupdate"),
   update_history    |-> Guarded(o, "plutil"),
   homebrew_packages |-> Unguarded(o, "brew"),
   homebrew_outdated |-> Guarded(o, "brew"),
   app_store_apps    |-> IF Prints(o, "mas") THEN Guarded(o, "mas") ELSE Verbatim(o, "applications"),
   system_integrity  |-> Kept(o, {"csrutil", "spctl"})]

MacActivity(o) ==
  [services          |-> Guarded(o, "launchctl"),
   running_processes |-> Guarded(o, "ps"),
   network_info      |-> Kept(o, {"ifconfig", "netstat"}),
   open_ports        |-> Verbatim(o, "lsof"),
   firewall          |-> Kept(o, {"socketfilterfw", "pfctl"}),
   disk_health       |-> Verbatim(o, "diskutil"),
   users             |-> Verbatim(o, "dscl"),
   security_config   |-> Verbatim(o, "fdesetup"),
   login_items       |-> Verbatim(o, "osascript"),
   recent_errors     |-> Verbatim(o, "log")]

AgentWindows(o) ==
  [s \in WindowsTools \ {"running_processes", "system_info", "program_files"} |-> Guarded(o, s)]

Sections(os, o) ==
  CASE os = "Linux" -> LinuxSoftware(o) ++ LinuxActivity(o) ++ LinuxSecurity(o) ++ LinuxApps(o)
    [] os = "Darwin" -> MacSoftware(o) ++ MacActivity(o)
    [] os = "Windows" -> AgentWindows(o)

(* Mutant of Collected: one try around all of them.                        *)
CollectedTogether(os, o) ==
  LET found == Sections(os, o) IN
  IF \E s \in DOMAIN found : found[s] = "raises" THEN [s \in DOMAIN found |-> "nothing"] ELSE found

(* collect() of the three classes runs each collector in a try of its own: *)
(* a section that raises is an empty list.                                 *)
Collected(os, o) ==
  LET found == Sections(os, o) IN
  [s \in DOMAIN found |-> IF found[s] = "raises" THEN "nothing" ELSE found[s]]
-----------------------------------------------------------------------------
(* The standalone scanners, scripts-agent.                                 *)

(* Mutant of ScanLinuxSoftware: dnf is the alternative of an apt that is   *)
(* not installed, not of one that is silent.                               *)
ScanLinuxSoftwareEither(o) ==
  [system_info        |-> Verbatim(o, "hostname"),
   installed_packages |-> IF Prints(o, "dpkg") THEN Guarded(o, "dpkg") ELSE Guarded(o, "rpm"),
   security_updates   |-> IF Installed(o, "apt") THEN Verbatim(o, "apt") ELSE Guarded(o, "dnf")]

ScanLinuxSoftware(o) ==
  [system_info        |-> Joined({Verbatim(o, "hostname"), Verbatim(o, "uname"), Opened(o, "os_release"),
                                  Unguarded(o, "meminfo"), Unguarded(o, "df")}),
   installed_packages |-> IF Prints(o, "dpkg") THEN Guarded(o, "dpkg") ELSE Guarded(o, "rpm"),
   security_updates   |-> IF Prints(o, "apt") THEN Verbatim(o, "apt") ELSE Guarded(o, "dnf")]

ScanLinuxActivity(o) ==
  [patch_history     |-> Joined({Guarded(o, "dpkg_log"), Guarded(o, "apt_history"), Verbatim(o, "dnf")}),
   kernel_patches    |-> Joined({Verbatim(o, "uname"),
                                 IF Installed(o, "dpkg") THEN Guarded(o, "dpkg") ELSE Verbatim(o, "rpm")}),
   services          |-> Guarded(o, "systemctl"),
   running_processes |-> Guarded(o, "ps"),
   network_info      |-> Joined({Verbatim(o, "ip"), Opened(o, "resolv_conf")}),
   open_ports        |-> IF Installed(o, "ss") THEN Verbatim(o, "ss") ELSE Verbatim(o, "netstat")]

(* smartctl runs for root only, which an absent one stands for too.        *)
ScanLinuxSecurity(o) ==
  [firewall        |-> Kept(o, {"ufw", "iptables", "firewall-cmd"}),
   disk_health     |-> Joined({Guarded(o, "lsblk"), Verbatim(o, "df"), Verbatim(o, "smartctl")}),
   users           |-> Joined({Unguarded(o, "passwd"), Verbatim(o, "last")}),
   cron_jobs       |-> Kept(o, {"cron_files", "crontab"}),
   security_config |-> Kept(o, {"getenforce", "apparmor", "auditctl", "sysctl"})]

ScanLinuxApps(o) ==
  [snap_packages |-> Guarded(o, "snap"),
   flatpak_apps  |-> Verbatim(o, "flatpak"),
   recent_errors |-> IF Installed(o, "journalctl") THEN Verbatim(o, "journalctl")
                     ELSE Guarded(o, "syslog")]

ScanMacSoftware(o) ==
  [system_info       |-> Joined({Verbatim(o, "sw_vers"), Verbatim(o, "sysctl"), Unguarded(o, "df")}),
   software_updates  |-> Guarded(o, "softwareupdate"),
   update_history    |-> Guarded(o, "plutil"),
   homebrew_packages |-> Unguarded(o, "brew"),
   homebrew_outdated |-> Guarded(o, "brew"),
   app_store_apps    |-> IF Prints(o, "mas") THEN Guarded(o, "mas") ELSE Verbatim(o, "applications")]

ScanMacActivity(o) ==
  [system_integrity  |-> Kept(o, {"csrutil", "spctl", "xprotect"}),
   services          |-> Guarded(o, "launchctl"),
   running_processes |-> Guarded(o, "ps"),
   network_info      |-> Kept(o, {"ifconfig", "netstat", "scutil"}),
   open_ports        |-> Verbatim(o, "lsof"),
   firewall          |-> Kept(o, {"socketfilterfw", "pfctl"}),
   disk_health       |-> Verbatim(o, "diskutil"),
   users             |-> Kept(o, {"dscl", "last"}),
   security_config   |-> Kept(o, {"fdesetup", "socketfilterfw"}),
   login_items       |-> Verbatim(o, "osascript"),
   recent_errors     |-> Verbatim(o, "log")]

ScanWindowsPatches(o) ==
  [s \in {"system_info", "installed_patches", "update_history", "missing_updates",
          "defender_status", "registry_apps"} |-> Guarded(o, s)]
ScanWindowsState(o) ==
  [s \in WindowsTools \ (DOMAIN ScanWindowsPatches(o) \cup {"program_files"}) |-> Guarded(o, s)]
  ++ [exe_scan |-> Guarded(o, "program_files")]

(* windows.py, the older scanner, gives two sections other names.          *)
OldPatches(o) ==
  [s \in {"system_info", "installed_patches", "update_history", "missing_updates"} |-> Guarded(o, s)]
OldApps(o) ==
  [s \in {"defender_status", "registry_apps", "store_apps", "drivers", "services"} |-> Guarded(o, s)]
OldState(o) ==
  [s \in {"scheduled_tasks", "running_processes", "network_info", "startup_programs"} |-> Guarded(o, s)]
  ++ [firewall_status |-> Guarded(o, "firewall")]
OldSystem(o) ==
  [s \in {"disk_health", "windows_features", "local_users"} |-> Guarded(o, s)]
  ++ [recent_errors |-> Guarded(o, "event_log_errors"), exe_scan |-> Guarded(o, "program_files")]

ScanSections(program, os, o) ==
  CASE program = "windows" -> OldPatches(o) ++ OldApps(o) ++ OldState(o) ++ OldSystem(o)
    [] os = "Linux" -> ScanLinuxSoftware(o) ++ ScanLinuxActivity(o) ++ ScanLinuxSecurity(o)
                       ++ ScanLinuxApps(o)
    [] os = "Darwin" -> ScanMacSoftware(o) ++ ScanMacActivity(o)
    [] os = "Windows" -> ScanWindowsPatches(o) ++ ScanWindowsState(o)
=============================================================================
