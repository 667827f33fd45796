\* Every question of bounded size, one at a time: a situation of one path,
\* two layers of directories, a name of three words, up to two frames, one to
\* three registered roots in five worlds of mounts.
CONSTANTS
  Drive = {"c", "d"}
  Docker = {"docker"}
  Lower <- LowerCase
  Nothing = Nothing
  NoSize = NoSize
  Word = 1000
  Ubuntu = Ubuntu
  Debian = Debian
  NoQuestion = NoQuestion
  Situations <- MCSituations
  Climbs <- MCClimbs
  Decodes <- MCDecodes
  Streams <- MCStreams
  Distro <- MCDistro
  Registries <- MCRegistries
  Spellings <- MCSpellings
  Machines <- MCMachines
  Sessions <- MCSessions
SPECIFICATION AnswersSpec
INVARIANTS NoProbeLies WalksConcludeFromAnswers LengthOfTheBytes OneProjectForADirectory
