SPECIFICATION Spec
CONSTANTS
  r0 = r0
  r1 = r1
  wg0 = wg0
  wg1 = wg1
  all4 = all4
  all6 = all6
  lan = lan
  n51820 = n51820
  n7 = n7
  v4 = v4
  v6 = v6
  Run = {r0, r1}
  Iface = {wg0, wg1}
  OnOf <- MCOnOf
  Prefix = {all4, all6, lan}
  Default = {all4, all6}
  FamilyOf <- MCFamilyOf
  Covers <- MCCovers
  Number = {n51820, n7}
  DefaultTable = n51820
  AutoTable = AutoTable
  OffTable = OffTable
  NoMark = NoMark
  Main = Main
  Suppress = Suppress
  NoConf = NoConf
  Confs <- MCConfs
  MostRules = 2
  Weathers <- MCWeathers
INVARIANTS RulesHaveRoutes Isolated RulesPaired
PROPERTIES DownCleans
