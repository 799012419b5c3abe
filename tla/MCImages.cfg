SPECIFICATION Spec
CONSTANTS
  t1 = t1
  t2 = t2
  old = old
  new = new
  snap = snap
  jammy = jammy
  custom = custom
  v22 = v22
  s1 = s1
  w = w
  ubuntu = ubuntu
  slurm23 = slurm23
  Threads = {t1, t2}
  Images = {old, new, snap}
  Servers = {s1}
  Names = {jammy, custom}
  Tags = {w}
  Worker = w
  Versions = {v22}
  Distros = {ubuntu}
  Ubuntu = ubuntu
  Slurms = {slurm23}
  Info <- MCInfo
  Mentioned <- MCMentioned
  Unset = Unset
  NoImage = NoImage
  NoServer = NoServer
  NoName = NoName
  MaxChanges = 1
SYMMETRY Symmetry
INVARIANTS
  TypeOK
  ReplacementFits
  FoundIfActive
 
